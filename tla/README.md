# TLA+ models of the KYC vault

The repository is a monorepo of TypeScript packages and services, Rust crates, Noir
circuits and Python services. Most of it is one synchronous step over a map per request,
conversion, cryptography or configuration. The state machines whose correctness depends on
the order in which several things happen, on time, on numbers at their limits or on a
network are few, and those are what is modelled here:

| part of the system | source | modules | state of the model |
|---|---|---|---|
| circuit breaker | `packages/core/src/retry/circuit_breaker.ts` | `BreakerState`, `CircuitBreaker`, `ServicesProofs` | every operation; safety proved |
| retry queue with persistence | `packages/core/src/retry/retry_queue.ts`, `retry_policy.ts` | `RetryQueue`, `RetryJobs`, `RetryQueueProofs` | every operation; safety and the refinement proved |
| webhook delivery | `packages/api/src/services/webhook_service.ts` | `WebhookDelivery`, `RetryJobs`, `NetworkProofs` | every operation; safety and the refinement proved |
| tiered cache | `packages/core/src/cache/cache_manager.ts` | `CacheTiers`, `CacheProofs` | every operation; safety proved |
| KYC orchestrator | `services/kyc-orchestrator/src/orchestrator.ts`, `handler.ts` | `KycOrchestrator`, `KycOrchestratorProofs` | every operation; safety proved |
| event bus | `packages/core/src/events/event_bus.ts` | `EventBus`, `EventBusProofs` | every operation; safety proved |
| WebAssembly module cache and instance pool | `crates/wasm-runtime/src/modules.rs`, `instance_pool.rs` | `ModuleCache`, `InstancePool`, `CacheProofs` | every operation; safety of both proved |
| DID clients of the SDKs | `sdk/typescript/src/client.ts`, `did.ts`, `sdk/react-native/src` | `ApiRequest`, `DidClients`, `DidClientsProofs` | requests and DID operations; safety proved |
| governance | `crates/governance/src/authority.rs`, `consensus.rs` | `AuthoritySet`, `Consensus`, `Governance`, `NetworkProofs` | every operation; safety proved |
| provider adapters | `services/aggregation-service/src` | `ProviderAdapters`, `ServicesProofs` | every method of the thirteen adapters; safety proved |
| DID resolution and response cache | `packages/did/src/resolver.ts`, `packages/api/src/middleware/cache.ts` | `DidResolution`, `ServicesProofs` | every operation; safety proved |
| rate limiting | `packages/api/src/middleware/rate-limit.ts` | `RateLimit`, `ServicesProofs` | every operation; safety proved |
| event streams | `packages/api/src/routes/sse.ts` | `EventStream`, `NetworkProofs` | every operation; safety proved |
| metrics exporters | `packages/core/src/metrics` | `MetricsExport`, `ServicesProofs` | the two that keep a queue; safety proved |
| serialization | `packages/core/src/serialization` | `WireHeads`, `Serialization`, `ServicesProofs` | heads, numbers and nesting of the four formats; safety proved |

To repeat the checks: `tlc -config MCX.cfg MCX` for each configuration, `tlapm XProofs.tla` for
each proof module. `PROJECT.json` is the index: components, runs, the mutants each property was
tried against, the source lines behind each definition, findings, hazards and theorems.

## 1. Inventory

### Circuit breaker

*State.* `state` (closed, open, half-open), `failureCount`, `successCount`, `openedAt`, and the
interval `monitorTimer` that takes an open breaker to half-open without a caller.
*Operations.* `execute()`, which looks at the state, awaits the protected function and then reports
its outcome; `onTimeout()` for clients that time a call out themselves; `destroy`; the tick of the
monitor. State change handlers only observe.
*Interactions.* The retry queue owns one, and passes it the backoff and the task as one function.
*Hard.* Any number of calls are in flight at once. The outcome of a call is applied in whatever state
the breaker has reached by then, and four methods arm or stop the interval.
*Correct when* counters, `openedAt` and the interval fit the state after any interleaving, the
breaker opens only on enough failures, and an open breaker is probed again.

### Retry queue

*State.* The `items` array with a status and attempt number per item, `running`, an optional breaker
and an optional persistence.
*Operations.* `enqueue`, `processNext`/`executeItem` (a chain of up to four awaits and a `finally`
callback), `cancel`, `cancelAll`, `clearCompleted`, `recover`, `destroy`.
*Interactions.* Clients enqueue and cancel. The task, the breaker and the persistence may each reject.
After a restart, `recover` reads what the persistence holds.
*Hard.* An item put back to pending is visible before its save has landed, so two executions of one
item overlap. A rejected save of a success goes through the catch block of the task. Each path must
call `processNext` when it frees a place. A crash can fall between any two awaits.
*Correct when* `running` counts exactly the live executions and stays within `concurrency`, an item
has one worker at a time, attempts are bounded, no pending item is forgotten, and a completion that
was saved is final.

### Webhook delivery

*State.* The subscriptions, the map `pendingDeliveries` of shared delivery objects (attempts,
`nextAttemptAt`), and the interval.
*Operations.* Creating, updating and deleting subscriptions, `emitEvent`, `processPendingDeliveries`
every second, `destroy`. `services/webhook/src/services/webhook_service.ts` is the same file again.
*Interactions.* `fetch` to the subscriber, aborted after 10 s.
*Hard.* A tick does not wait for the previous call. Each call works through a snapshot, one POST after
another, so several calls send, count and put back the same object. Memory only: a restart loses it.
*Correct when* a delivery is let go only after a 2xx or with its attempts used up, attempts and
backoff are respected, and everything settles.

### Tiered cache

*State.* A memory map with ttls, and two adapters (redis, disk) known by their interface.
*Operations.* `get`, which promotes what it finds in a lower tier to the tiers above it; `set` and
`delete`, which visit the tiers one await after another; `clear`.
*Hard.* Readers and writers overlap at every tier; a promotion writes back what it read earlier;
adapters reject; ttls pass between the tiers; memory is empty after a restart.
*Correct when* quiet tiers agree with the latest write, nothing deleted comes back, and nothing is
served after its ttl.

### KYC orchestrator

*State.* A map of workflows: status, tier, user, `expiresAt`, `completedAt`, and steps with time stamps.
*Operations.* The HTTP handlers: create, transition along a table, update a step, the sweep
`checkExpired`. Handlers run without awaiting, so each is one step.
*Hard.* Long sequences of requests: workflows are sent back, resubmitted, expire and are created
again; which statuses are active is written out in three places.
*Correct when* the limit of active workflows per user holds, an approval is about what was submitted
last, stamps agree with statuses, and the end is final.

### Event bus

*State.* A map from event types to Sets of subscriptions, and a Set of wildcard subscriptions.
*Operations.* `subscribe` (with `once` and `filter`), `subscribeAll`, the unsubscribe function, `emit`,
`emitSync`, `clear`.
*Hard.* Handlers use the bus. `emitSync` iterates the live Set while they do, and afterwards deletes the
entry of the type according to the Set it took at the start. `emit` calls from later timers.
*Correct when* an unended subscription is in the map, `once` is once, everyone an emission concerns is
called, and nobody who ended is.

### WebAssembly module cache and instance pool

*State.* The cache: a map of compiled modules and the order they were used in, each behind its own
lock. The pool: entries marked idle or in use, `max_size`, and counters of what was created and
destroyed.
*Operations.* `load`, `get`, `remove`, `clear`, `evict_expired` of the cache; `acquire`, `release`,
`destroy`, `evict_idle`, `resize` of the pool; `release` of the handle `acquire` returned.
*Hard.* Threads. `acquire` looks up the module, looks for an idle entry and inserts a new one under
three separate acquisitions of locks; `clear` takes its two locks one after the other; `release`
takes an id and cannot tell who holds it.
*Correct when* an instance has one holder, a held instance stays in the pool, marks and statistics
agree with the entries, the pool and the cache stay within their limits.

### DID clients of the SDKs

*State.* Of the backend's client, nothing between requests; of the React Native hook, the document
and the spinner its calls share.
*Operations.* `request()` with its retries and its abort timer; resolve, create, rotate, deactivate.
*Interactions.* HTTP to the registry behind `/v1/did`, which is external.
*Hard.* A request may be executed late, its answer lost or cut, and is then sent again without an
idempotency key. Calls of a screen overlap and share what it shows.
*Correct when* the outcome of a call tells its caller the truth about what was done, the screen shows
what is current, and calls end.

### Governance

*State.* The authority set: nodes with weights, an epoch. A round: the view, three counters, two flags.
*Operations.* `register`, `remove`, `rotate`; `on_message` for five types of message. No caller puts
the two together.
*Hard.* `rotate` removes before `register` can refuse. `on_message` counts messages without looking
at sender, view or sequence number, while a network repeats, reorders and delays.
*Correct when* the set keeps its size, the epoch counts exchanges, two quorums share more than the
faulty, a flag means that a quorum voted, and a round decides.

### Provider adapters

*State.* Per provider a breaker that opens by the percentage of failures, an access token, and
cached answers in Redis.
*Operations.* The methods of Stripe, Plaid, Jumio, Onfido, Experian, Equifax, Google Maps, Twilio,
SendGrid, SES, S3, Web3 and OAuth. A method awaits the cache, a token, the provider (in a race with
a timer) and the cache again, or some of them.
*Hard.* Calls settle long after the breaker opened and are still counted; the timer does not take
the request back.
*Correct when* an open breaker lets nothing through to the provider, and calls end.

### DID resolution and response cache

*State.* The resolver's cache of documents, the API's cache of responses, fetches in flight.
*Operations.* `resolve`, `invalidateCache`, `clearCache`; the middleware over `GET` routes with its
eviction.
*Hard.* Two caches and a fetch that takes its time are stacked; resolutions overlap and each writes
what it fetched when it arrives; invalidation cannot stop a fetch.
*Correct when* what is served is not staler than the limits add up to, and what was invalidated does
not come back.

### Rate limiting

*State.* Per key a bucket (tokens, last refill) or the time stamps in a window.
*Operations.* `tokenBucket`, which `app.ts` mounts, `slidingWindow`, `clearRateLimitStores`. A request is
one step.
*Hard.* Arithmetic of a bucket that refills while it is emptied; `Retry-After` in whole seconds.
*Correct when* no more is admitted than the limits say, and a client that waits as it is told gets in.

### Event streams

*State.* The connection registered under each `clientId`, the buffer of the last events.
*Operations.* `GET /events` with its replay, `POST /emit` and `emitEvent`, the close of a connection.
*Hard.* The server hears of a closed connection late, after the browser has opened the next one under
the same `clientId`; the close then deletes that one.
*Correct when* a connection gets every event it is owed, once and in order.

### Metrics exporters

*State.* A queue, and for `OTelExporter` the batches that await an answer.
*Operations.* Push, flush (by interval, size or host), start and stop of the interval.
*Hard.* Flushes overlap; a batch whose answer is late is put back and sent again; one that is refused
is dropped.
*Correct when* every metric is in the queue, in one batch, accepted or refused.

### Serialization

*State.* None: MessagePack, CBOR, Avro and Protocol Buffers written by hand.
*Hard.* Ten forms of integers and four of each length, chosen by bounds and told apart by masks
tested in an order; arithmetic of 32 bits, doubles past 2^53, integers past 64 bits.
*Correct when* what is written is read back, but for what a format cannot say.

### Parts that are not modelled

| part | state and operations | why not |
|---|---|---|
| voting, upgrades, revocation, trust (`crates/governance`) | tallies, approvals, registries of one or two methods | no caller puts them together; `voting.rs` and `upgrade.rs` never change a status |
| KYC workflows of the API (`packages/api/.../kyc_service.ts`), KYC records of the core crate | a second and a third transition table | no route uses the service, `review` ignores the table, and `uploadDocument` uses `doc` in its own initialiser and always throws; the crate's records have one owner |
| webhook relay service | a queue like the webhook service's | `emitEvent` calls `filter` on a Map and throws, so no delivery ever starts |
| sessions, tokens, roles, capabilities, API keys | mostly functions of signed values | cryptography is not a state machine TLC can explore |
| DID, credential, billing, UCP, audit, ZKP services of the API | maps, one synchronous step per request | no rule relates two steps |
| payment gateway | idempotency keys | the stub processors settle within one turn, so the gap between check and store cannot be entered |
| the server of the aggregation service | `index.js` answers from static stubs | it never connects Redis and mounts no adapter: the adapters are modelled as their interface offers them to a host |
| credential and KYC clients of the SDKs | the same shape as the DID clients | they would repeat `DidClients` |
| Prometheus exporter; cache metrics, policy and warmup; health, errors, validation | counters and pure functions | no protocol |
| compilation cache of the WebAssembly runtime (`cache.rs`) | a map behind a lock | an operation takes the lock it already holds: as written it has no second step |
| Avro enums, fixed, floats and doubles; contents of texts | pure conversions | their heads are the ones modelled |
| crypto, ZKP, circuits, credential issuer, DID documents, quantum, TEE, AI, platform adapters, invoicing, user interfaces, deployment | algebra, parsing, numerics, external I/O, configuration | out of reach of TLC, or no logic of their own |

The directories `billing`, `credential`, `did`, `gateway`, `kyc`, `webhook` and `zkp` under `services/` hold copies of
files of `packages/api`; what is said of the original holds of the copies.

## 2. Modules

Every callback of a Node program runs to its next `await` without interruption, so **an action is
what happens between two awaits**, whole: what the handler calls, in its order, and what it does
after. What is left of an activation (a promise chain) is kept as a record or a program counter
that says at which await it is suspended. In the Rust crates an action is what happens while a lock
is held. Variables whose comment says *history* record what happened for the properties; no guard
reads them. Time is counted in ticks, and a time stamp is kept as its age, up to where the code
stops telling ages apart.

**`BreakerState`** holds the state of one breaker and its methods (`Prologue`/`Admits` for the first half
of `execute`, `OnSuccess`, `OnFailure`, `TransitionToOpen`, `TransitionToHalfOpen`, `Reset`, the monitor
and the clock) without saying who calls them. **`CircuitBreaker`** adds callers: `inflight` calls whose
outcome, in any order, reaches the breaker later.

**`RetryQueue`** extends `BreakerState`, so the queue and the breaker it owns are one composed system.
`execs` is the set of live activations of `executeItem`; their `pc` is the await. `ProcessNext` takes the
values the calling step has just computed, since every path ends in it. The persistence is external:
`store` is what it holds; a save writes the status the item had when `save` was called, may reject
(`SaveMayFail`) and may land out of order with other saves of the item (`OrderedSaves` FALSE). `Crash` and
`Recover` empty and refill the memory. **`RetryJobs`** is the abstract specification: jobs are submitted up to
`batch` at a time, wait, run, are sent back at most `maxRetries` times and end once. Both retry loops of the
system are shown to implement it. `RetryQueue!ImplementsRetryJobs` is the refinement by the queue, with
`INSTANCE RetryJobs WITH Jobs <- Ids, batch <- 1, job <- status, tries <- attempt`.

**`WebhookDelivery`**: `todo[c]` is what call `c` of `processPendingDeliveries` has left of its snapshot,
its head being the delivery in flight; `attempts` is shared because the objects are; `pending` is a
sequence because a JavaScript Map keeps insertion order, and where a delivery is put back is visible.
The loop has no status field; `Standing` reads one off the map, the snapshots and the histories, and
`KeepsRetryJobs` is the refinement: one event submits a batch, one for each subscription at most; a call
that takes its snapshot starts all of it; a failed POST uses an attempt. It is claimed of steps after
which no two calls have overlapped, and not of restarts: what overlapping calls do to a shared delivery is
no step of `RetryJobs`, and a restart forgets.

**`CacheTiers`** follows one key (keys do not interact; `clear` does to each key what `delete` does). The
adapters are external: `channel` holds requests, an adapter acts on one (`TierActs`) and the answer
reaches the caller later (`Arrives`). `stage` counts in how many tiers the ttl of a value has passed.
An adapter acts on requests in the order they came (`InTurn`), unless it may fail (`TierMayFail`).

**`KycOrchestrator`** has one action per request of `handler.ts`, plus the passing of an expiry date and a
restart. `TRANSITIONS` is the code's table.

**`EventBus`**: `frames` is the stack of running `emitSync` calls, each with the Set object it took
(`set`) and the subscription whose handler runs (`at`); while a handler runs, every operation is
enabled. Subscriptions are numbered as they are made, so the iteration order of a JavaScript Set is
the order of numbers, and a Set that grows while it is iterated is `Ahead`.

**`ModuleCache`** has one action per operation, but for `clear` (`ClearModules`, `ClearAccess`).
**`InstancePool`** extends it: threads use both. `acquire` is `Resolve` (the cache), then `Reuse` or `Miss`
(the entries), then `Insert` or `Refuse` (the entries again). `last_used` only chooses among idle
entries, so any of them may be chosen. `taken` and `leaked` are histories of second releases and of
handles let go. `resize` of the source assigns `self.max_size` through a shared reference, and `load`
uses its metadata after moving them; neither compiles, and both are modelled as they read.

**`ApiRequest`** is `request()`: `requests` are the attempts under way to the server, which may be executed
or lost at any time, their client still waiting or not; `stage` and `attempt` say where the call is.
Nothing in the repository serves the rotate and deactivate routes that the clients call; the registry is
taken to answer what it did, and whatever stands between it and the client to answer, if anything, a 5xx.
**`DidClients`** extends it with the operations of both SDKs, and with the registry as an external
counter of versions per DID.

**`AuthoritySet`**: `nodes` maps DIDs to weights; `rotate` is one action with its three outcomes, the one
that has lost its old node included. **`Consensus`** is one validator's state: `Vote` is one more
validator's message of this round, `Repeat` any other that is counted. **`Governance`** puts them side by
side, as the crate does.

**`ProviderAdapters`** knows a method by its shape: whether it looks into the cache, wants a token, goes
through the breaker. `Shapes` is derived from the thirteen adapters written out, since adapters of one
shape behave alike. `reached` and `performed` say what the provider has got and done.

**`DidResolution`** stacks the two caches over an origin that publishes versions. `route` says which of
the three services is meant: the resolver service (documents only, with invalidation), the API's
resolve route (both caches) or `GET /ready` (responses only). `superseded` is how long each version has
been out of date.

**`RateLimit`** counts a token as `windowMs` parts, so that a tick refills `maxRequests` of them and no
number needs a fraction. `Mark` lets the history begin again at any moment, which makes the properties
speak of every span of time.

**`EventStream`** knows an event by the number of its emission. `conns` are all connections ever opened,
with what was written to each; `clients` is the code's map.

**`MetricsExport`** has both exporters (`exporter`), since they keep the same state: `Post`, `PostAnswered` and
`PostFails` are the two sides of the await of `OTelExporter.flush`, `Flush` that of `DogStatsDExporter`.

**`WireHeads`** is what stands before the contents of a value: `Pack`/`Unpack`, `Cbor`/`Uncbor` from items to
heads and back, `ZigZag`, `Varint`. **`Serialization`** adds values within values and the schemas, and a
behaviour that encodes and decodes. A value is the sequence of its items in the order the encoders visit
them, so that the recursion of encoders and decoders is a walk along it: a reader of MessagePack or CBOR
counts the values it has still to read (`Left`), and the Avro encoder and decoder have an agenda of the types
they have still to write or to read. Values that are not of their schema and unions within unions are
excluded (`WellTyped`, `SerialAssumption`); an Avro reader stops after `MaxItems` items. Integers are
doubles (`Doubles`): every one up to 2^53, every second up to 2^54, every fourth beyond, where that there
are fewer still makes no difference to what is modelled. `MinusOneMinus` is `-1 - n` in them, rounded as
they round. An integer that 64 bits do not hold is refused (`Refused`, `EncodeThrows`), and with it the
whole value. A float or a `fixed64` is its bits; what `writeFloatLE` and `readFloatLE` make of the bits of
a `fixed32` is the constant operator `Single`, of which nothing is assumed. `Word`, `Safe` and `Wide` stand
for 2^32, 2^53 and 2^64: TLC has 32-bit integers, so the runs take 2^18, 2^20 and 2^26, which lie in the
same order and, `Word` on, above every bound the code compares with; the theorems are for all that
`WordAssumption` admits, the real ones among them.

**`Subsequences`** is `Array.filter` and `Vec::retain` as a recursive function, `Retain`, by which the
models of the webhook, the bus, the streams, the rate limit, the module cache and the tiered cache filter
what they keep in order; unlike a recursive operator it can be proved about.

**`MCServices`** and **`MCNetwork`** run modules that share nothing side by side: the variable `which`,
chosen at the start, says whose steps a behaviour takes, and the other variables rest at one value.
The state spaces add up and do not multiply; each property of a part says nothing of behaviours of the others.
The other `MC` modules instantiate one system each.

Definitions marked `\* Mutant:` are plausible mistakes in the definition that follows them. Nothing uses
them; they document which error each property would find.

## 3. Runs

All runs pass except the three that refute a document or a test. Sizes are distinct states.

| run | states | shows |
|---|---|---|
| `services` | 164 536 | Six independent parts. The breaker: `BreakerConsistent`, `OpensOnEvidence`, `OpenEventuallyProbes`. The adapters: `OpenShields`, `CallsSettle`. DID resolution: `StalenessBounded`, `InvalidationHolds`. Rate limiting: `RateLimitSound`. Exporters: `ExportAccounted`. Encodings: `RoundTrip`. |
| `network` | 283 817 | Three independent parts. Two calls of the webhook loop, two deliveries, restarts: `NoSilentLoss`, `SendsBounded`, `EveryDeliverySettles`, and until calls overlap the loop implements `RetryJobs` (`KeepsRetryJobs`). Event streams: `StreamComplete`. Governance: `QuorumsShare`, `RotationsSound`, `FlagsMeanQuorums`, `RoundDecides`. |
| `queue_faults` | 207 474 | Two items, two places, saves that reject, one crash: `LimitsKept`, `OneWorkerPerItem`, `NoLostWakeup`, `DurableCompletion`. |
| `queue_refines` | 7 903 | One place and the breaker the queue owns: the queue implements `RetryJobs`, a quiet store agrees with the memory (`StoreAgrees`), and every item settles (`EveryItemSettles`) although refused calls use up attempts. |
| `webhook_maximum` | violation | Two overlapping calls send one delivery more than `1 + maxRetries` times. |
| `cache_races` | 1 171 350 | Two callers, two values, one with a ttl, faulty adapters, restarts: `TiersAgree`, `ReadsSound`. |
| `cache_expiry` | violation | A promoted value loses its ttl and is served after it passed everywhere. |
| `kyc_orchestrator` | 147 169 | Two users, two workflows, limit 1: `ActiveLimit`, `ApprovalExamined`. |
| `event_bus` | 364 215 | Two types, two subscriptions, three events, nesting of two: what handlers may do to the bus inside `emitSync`, and who is called by `emit`. |
| `pool` | 470 118 | Two threads, three modules, a cache of two and a pool of one or two: `HandlesExclusive`, `PoolAccounts`, `CacheSound`. |
| `did_clients` | 304 116 | Two calls of a screen and one of a backend that retries once, on two DIDs: `OutcomesTruthful`, `ScreenTruthful`, `CallSettles`. |
| `msgpack_lists` | violation | A list of up to fifteen items is read as a map. |

Several properties are conjunctions of named parts that belong together:

| property | its parts |
|---|---|
| `BreakerConsistent` | `TypeOK`; `CountersFitState`; `OpenHasClock`: `openedAt` is set exactly while the breaker is not closed; `MonitorMatchesState`: the interval is armed exactly while it is open |
| `LimitsKept` | `ConcurrencyLimit`: `running` is exact and within `concurrency`; `AttemptBudget`: invocations of a task per life of the process |
| `SendsBounded` | types, `AttemptsBounded` and `OverlapBounded` of every state, and of every step the backoff |
| `TiersAgree` | `TiersTypeOK`; `Coherent`: quiet tiers hold the latest write or nothing; `Retained`: no tier below memory loses it before its ttl has passed there |
| `ReadsSound` | `NoResurrection`: what was deleted stays away; `CleanReads`: a read no write overtook returns the latest value |
| `MapSound` | `TypeOK`; `LostOnlyInEmitSync`; `NothingLeftBehind`: no ended subscription and no empty Set stays in the map |
| `HandlesExclusive` | `Exclusive`: one holder; `HeldInUse`: what is held is in the pool and marked |
| `PoolAccounts` | of every state `InUseAccounted`: marks belong to holders, and `StatsBalance`: created minus destroyed is the size; of every step, that the pool does not grow above its limit |
| `CacheSound` | `OrderAgrees`: order and map mention the same modules; `CapacityKept` |
| `OutcomesTruthful` | `TypeOK`; `EffectsKnown`; `RefusalTruthful` |
| `ScreenTruthful` | `ShownIsCurrent`; `SpinnerTells` |
| `RateLimitSound` | `LimitTypeOK`; `BucketBounded`; `WindowBounded`; `RetryTruthful` |
| `OpenShields` | `AdapterTypeOK` of every state, and of every step: nothing reaches the provider while the breaker is open |
| `RotationsSound` | after every step the size is kept (`SizeKept`), and the epoch moves only with an exchange |

Some properties are conditional on purpose, and the condition is what the run teaches:

- `AttemptsBounded`, the backoff and `KeepsRetryJobs` hold until two calls of the delivery loop overlap;
  `OverlapBounded` is what is left after that.
- `TiersAgree` and `ReadsSound` exclude exactly the executions in which a write overtook a `get` that
  promoted (`raced`), or a tier failed. Without the first exclusion they do not hold:
  `cache_manager.ts:211` and `:220` write back what was read before an await.
- `LostOnlyInEmitSync`: without `detached` it is violated in seven steps. The only handler of a type
  unsubscribes itself during `emitSync` (the entry leaves the map) and subscribes again (a new Set);
  `emitSync` then finds its own Set empty and deletes the new entry (`event_bus.ts:141`). No document
  promises otherwise, so it is recorded as a hazard and not as a finding.
- `NoLostWakeup` excepts the item whose `enqueue` rejected: it stays queued with nothing to start it.
- `AttemptBudget` is per life of the process: `recover` sets attempts back to 0.
- `HandlesExclusive` excepts instances released a second time (`taken`): `release` takes an id, and
  cannot tell a second release from the first. `InUseAccounted` excepts handles let go by
  `InstanceHandle::release` (`leaked`), which sets a flag nobody reads (`instance_pool.rs:63`).
- `CapacityKept` allows one place more per load that fell between the halves of a `clear`
  (`modules.rs:160`): such a module is in the map and not in the order, and is never evicted.
- `RefusalTruthful` excepts calls that were retried, and `EffectsKnown` allows one effect per attempt:
  without an idempotency key the server may rotate twice, and answer the second of two
  deactivations with the refusal that is then reported (`client.ts:258`).
- `ShownIsCurrent` excepts overlapping calls of the hook (the last to end decides, `useDID.ts:88`) and
  changes the screen could not know of. `CallSettles` excepts a body that stalls: the timer was cleared
  when the headers came (`client.ts:268`).
- `FlagsMeanQuorums` is a quorum less the messages that should not have been counted: the state counts
  whatever it is given (`consensus.rs:116`), so whoever feeds it must deduplicate.
- `OpenShields` says that a failed probe opens the breaker again only if no success came in while it was
  open: late successes lower the share of failures, and the breaker then stays half-open and lets
  every call pass (`circuitBreaker/index.js:64`). Its `CallsSettle` excepts calls waiting for a token,
  which are fetched without a timer and outside the breaker.
- `InvalidationHolds` speaks of invalidations while no resolution is in flight; one that is in flight
  puts the document it has fetched back (`resolver.ts:89`). An older resolution may overwrite a newer
  document; `StalenessBounded` says how stale that can get.
- `BucketBounded` over one window allows `burstSize + maxRequests`, since the bucket starts full.
- `StreamComplete` excepts a connection whose place was taken by a later one of its `clientId`, or
  deleted by the late close of an earlier one (`sse.ts:89`).
- `ExportAccounted` counts a batch answered with an HTTP error as refused, hence gone; `OTelExporter`
  does not look at the status of the answer (`otel_exporter.ts:208`). A metric is accepted twice only
  if an answer was lost.
- `RoundTrip` names what each format loses (`Lossless`). MessagePack: `undefined`, lists of up to fifteen,
  and integers of 2^64 and more or below -2^63, at which the encoder throws a RangeError (`msgpack.ts:69`,
  `:86`). CBOR: floats, integers of 2^64 and more or of -2^64 and less, which throw (`cbor.ts:82`), and
  every second negative integer between 2^53 and 2^54, which `-1 - value` in doubles moves
  (`cbor.ts:92`, `:152`: -9007199254740994 comes back as -9007199254740992). Avro: numbers and lengths that
  double past 32 bits, nulls of fields and all but the first branch of a union. Protocol Buffers: varints
  that are negative or longer than 31 bits, a `fixed32` that is not a 32-bit float (0.1,
  `protobuf.ts:96`), and field numbers of 29 bits, the largest it has. But for Avro it says that nothing
  else is lost or refused and that those are.

### Findings

1. *Webhook attempts.* `docs/api/README.md:221` says "Retry Policy: Exponential backoff with maximum
   attempts". The interval (`webhook_service.ts:136`) starts a call while another works through its
   snapshot, both post the same delivery, and it is sent more often than the maximum (run
   `webhook_maximum`).
2. *Cache expiry.* `tests/robot/cache.robot:53` says "Verify expired cache entry returns 404".
   Promotion into memory passes no ttl (`cache_manager.ts:211`), so the value outlives its ttl in every
   tier (run `cache_expiry`).
3. *MessagePack lists.* `tests/robot/serialization.robot:56` says "Verify MsgPack serialize and
   deserialize roundtrip". `decodeInternal` tests `(token & 0xe0) === 0x80` before the arrays
   (`msgpack.ts:223`), which the tokens of lists of up to fifteen items satisfy as well: they are read
   as maps (run `msgpack_lists`).

Observed while reading, beside the findings: two tests of the authority set (`authority.rs:191`, `:215`)
expect what `remove` refuses, removal at the minimum, for which `rotate` too fails; `KYCService.review`
changes a status without the table of transitions; the ingress routes `/v1/...` while the services
mount `/api/v1/...`; the response cache keeps errors and `GET /ready` for a minute, and the limit on
requests is keyed by address, because it is mounted before authentication; `uploadFile` and
`deleteFile` of the S3 adapter leave the cached downloads, `getTransactionReceipt` caches the `null` of a
pending transaction for an hour; events replayed by the stream carry no id.

### Bounds, and why they are enough

- *Breaker*: three calls are enough for one outcome older than the opening, one probe and one call
  after closing. `MaxFailureCount` = 3 bounds `onTimeout`, which has no other limit.
- *Queue*: two items (overlapping executions of one item and a second to be started by its
  callbacks); executions of one item overlap already with one id. `maxRetries` = 2 is a first attempt
  and a retry. `MaxCrashes` = 1: a second crash finds nothing a first does not, since a crash leaves only
  the store. The theorems lift all of these.
- *Webhook*: two overlapping calls (a third repeats what the second does), two events so that a
  delivery waits behind another in a snapshot, `maxRetries` = 3 so that two calls can both count.
- *Cache*: two callers and two values, of which one has a ttl. A value is set at most once; a third
  value or caller would only delay what two already race for. At least one adapter: with memory alone
  nothing awaits.
- *KYC*: two workflows at a limit of 1, and a tier that requires one of two verifications. A step is
  given the four declared statuses, none at all, or `other`, which stands for any JSON value: the handler
  passes on what it gets (`handler.ts:69`), and the code compares it with two of the four.
- *Bus*: two types share only the wildcards; two nested `emitSync` calls on one type are needed for
  one to outdate the Set of the other. `emitSync` calls subscriptions added by its handlers, so a handler
  that subscribes each time makes it run for ever: `MaxSubs` cuts that execution off.
- *Pool*: two threads meet in every pair of their steps; three modules overflow a cache of two;
  `MaxCreated` = 2 instances are one to hold and one to evict, in a pool that may shrink from 2 to 1;
  `MaxOverlaps` = 1 load in the middle of a `clear` costs one place. The pool's theorems lift them.
- *Clients*: two calls of the hook to overlap, one of the backend with one retry to repeat; two DIDs for
  two creations.
- *Governance*: three nodes of weights 1 and 2 with limits 1 and 3; four validators, the fewest of whom
  one may be faulty; `MaxRepeats` = 2 messages too many, `MaxResets` = 1. Lifted by the theorems.
- *Adapters*: three calls: a failure that opens, a late outcome, a probe; five outcomes let the
  percentage rise above and fall below the threshold.
- *Resolution*: two requests and one new version, of which one fetch reads the old one and the other
  the new one; limits of 2, 1 and 2 ticks; `Horizon` = 6 is more than their sum. Lifted by the theorems.
- *Rate limit*: a window of six ticks, two requests per window, a burst of three; a second of two
  ticks, so that `Retry-After` is rounded; `MaxSince` = 12 is two windows.
- *Streams*: two connections per behaviour, a buffer of two and three events, so that one is shifted
  out. *Exporters*: two overlapping posts, a buffer of two, three metrics.
- *Encodings*: numbers and lengths on both sides of every bound the code compares with, of `Safe`, of
  twice that and of `Wide`, alone and one level deep; for `Single`, the nearest multiple of
  four up to a largest, and an infinity past it (`MCSingle`); Avro records of two fields and what they nest, within `MaxItems` = 12 items; messages of two
  fields. Lifted by the theorem.
- One `clearCompleted()` runs at a time, ids are not reused, and `recover()` is called first after a
  restart: the protocol the interface suggests, named in the comments of the module.
- A `set()` is shorter than the ttl it gives, so ttls pass tier by tier in the order of writing.
- Symmetry is used for values, callers, users, workflows, types, threads and modules, in runs without
  liveness.

### Fairness

The event loop of Node runs every armed timer and every settled promise: weak fairness of the
monitor, the clocks, the interval of the delivery loop, `RunScheduled`, the timer of a request, the
timer of the race of an adapter, and of the step an execution is suspended at. Tasks of the queue
settle and the persistence answers (the code waits for both without a limit, so without this nothing
could be shown); a `fetch` of the webhooks settles because it is aborted after 10 s; Redis answers or
throws; handlers of events return. Nothing is assumed of a provider, of the registry or of the network:
the calls of adapters and clients end by their own timers. A round decides because the votes of
validators that are not faulty arrive (`HonestVote`). No call of a client is fair, and a protected
function of the breaker alone need not settle. Fairness is per execution, per call and per
delivery, as each is a promise chain of its own.

Where time is counted, a timer that is due goes before the next tick (`AdapterTick`, `ResolutionTick`): a
busy process would be later than the model by as much as its loop is late.

## 4. Proofs

Seven modules of theorems and `DataLemmas`, the lemmas they share. Each theorem is of the specification,
for every value of the constants that satisfies the named assumptions of its modules
(`ThresholdsAssumption`, `MaxFailureCountAssumption`, `QueueAssumption`, `KycAssumption`, `WebhookAssumption`,
`CacheAssumption`, `EventBusAssumption`, `ModuleCacheAssumption`, `InstancePoolAssumption`,
`ApiRequestAssumption`, `DidClientsAssumption`, `AuthoritySetAssumption`, `ConsensusAssumption`,
`ProviderAssumption`, `ResolutionAssumption`, `RateAssumption`, `StreamAssumption`, `ExportAssumption`,
`WordAssumption`, `SerialAssumption`), which the runs evaluate. Bounds such as `MaxSubs` or `MaxCrashes` are constants too: a
theorem is for every one of them, hence for executions of any length. Every safety property of a
passing run is stated by a theorem.

**`DataLemmas`.** Induction over data without an induction rule: a set of natural numbers that is not empty
has a least member (`LeastNatural`), so a set that contains zero and with a number the next contains all
(`Induction`); likewise for sets of sequences (`SequenceInduction`) and of finite sets
(`SubsetInduction`). A property is instantiated as the set of what has it. From these, what `Retain`
keeps, in which order, and how it goes with appending, concatenating and filtering again.

**`ServicesProofs`.**

- *Breaker.* `IInv` is the conjunction of the properties and `FailuresCounted`: while closed, the leaky
  `failureCount` is at most the failures reported since closing. It is needed because
  `OpensOnEvidence` speaks of the reports and the code of the counter.
- *Adapters.* `OpenShields` is about the moment a failed probe opens the breaker again, which depends on a
  percentage. `AdapterInv` therefore keeps the share of failures that opened it (`ShareKept`): late
  successes left out, outcomes that come in while it is open only raise the share. `BreakerShields`.
- *DID resolution.* `RInv` bounds the staleness of each thing that holds a version by its own age: a fetch
  has read since it began, a document was fetched when its age was zero, a response was made of a
  document that was still fresh; and nothing in flight or cached is older than `floor`. From it:
  `StaleWithinLimits`, `InvalidationIsFinal`.
- *Rate limit.* The bound on what was admitted becomes inductive with what the bucket still holds on its
  left-hand side (`BucketAccounts`, from which `AdmitsWithinBurst`). What the sliding window admitted within
  one window is still in its log (`WindowAccounts`); who was refused finds a token, or a place, when the
  announced wait is over (`RetryAccounts`). Together: `LimitsHold`.
- *Exporters.* `ExportInv` says that a metric is in one batch or in the queue, once (`Placed`), that one
  which is in neither was accepted or refused, and accepted twice only if an answer was lost
  (`Answers`), and, while posts do not overlap, that the batch under way goes before the queue in the
  order of pushing (`Ordered`), so that putting it back in front restores that order.
  `MetricsAccounted`.
- *Encodings.* `MessagePackHeads` and `CborHeads` say, for every integer that is a double and every length
  below `Word`, which of them the encoder refuses and what is read from the head of any other;
  `ZigZagExact` says which numbers of 32 bits survive Avro's doubling, `FieldBack` which fields survive
  Protocol Buffers, whatever `Single` is. From these, `EncodingsComeBack` is `RoundTrip` for values of any
  length and depth. `Left`,
  `Agenda`, `AvroBytes` and `AvroRuns` are recursive functions, which the prover knows only as a `CHOOSE`: one
  lemma each shows by induction that a function which unfolds the recursion exists, and hence that the
  chosen one does (`LeftUnfolds` and the others). Then, item by item, a MessagePack or CBOR reader that has
  read the same items has as many values left, so it stops where the writer did; and the Avro reader after
  `k` items has the agenda the writer had and stands behind the bytes it had written. The invariant
  (`SerialInv`) says no more than that the wire is what the encoder made of the value, unless it refuses
  it, and the outcome what the decoder makes of that.

**`RetryQueueProofs`.** `OneWorkerPerItem` is not inductive: executions of one item overlap, and what keeps
their work apart is the attempt they were started with. `QInv` therefore says of every execution that
it is of the current attempt or past its work (`Latest`), that item and attempt identify it (`Distinct`),
that a running status has a worker (`Worked`), and ties invocations to attempts (`Budget`); `Frame` says
which ids may be touched from outside. It is stated of values (`CoreOf`), so that the lemma `Launch`
about `processNext` serves every action that ends in it. On it rest:

- `QueueLimits`, `QueueOneWorker`: with and without a breaker, with saves that reject or reorder, over any
  number of restarts.
- `QueueImplementsRetryJobs`: each step of the queue is a step of `RetryJobs` or changes no job, provided
  saves do not reject and the process is not restarted (a rejected save runs a completed task again,
  a restart forgets attempts: neither is a step of `RetryJobs`). What `processNext` starts is within
  the abstract limit because every running item has an execution of its own (`RunningBacked`, an
  injection).
- `QueueNoLostWakeup`: inductive beside `QInv`, since whatever frees a place or adds an item ends in
  `processNext`, which leaves no room or nothing pending (`LaunchFills`).
- `QueueDurableCompletion`: once the save of a completion has landed, nothing of the item is left to be
  saved or started (`Sealed`). It holds when the save lands (`SealMade`), because saves of an item land in
  order and a completed item has no other worker, and no step breaks it (`SealKept`), restarts included.
- `QueueStoreAgrees`: the outcome of a finished item is still to be saved, or is in the store and nothing
  of the item is to be saved any more (`RecordedOf`, stated of values for the same reason as `CoreOf`).
  The save of an outcome is the last of its item (`OutcomeLast`).

**`KycOrchestratorProofs`.** `KInv` is `TypeOK`, the properties that concern one workflow, and `ActiveLimit`. A step
changes one workflow; only the step that has just counted adds one (`LimitCreate`); the sweep takes
some away (`CountShrinks`). From it: `KycActiveLimit`, `KycApprovalExamined`, `KycCompletedAtAgrees`,
`KycTypes`, `KycStepsStamped`, `KycEndIsFinal`. What a request gives a step as its status is a constant
set of which only the four declared statuses are known (`StepUpdates`), so `KycTypes` claims the eight
statuses of workflows and nothing of those of steps.

**`NetworkProofs`.**

- *Webhook.* While calls do not overlap one is active, what it has still to send is pending and due, and
  every failure was counted (`Alone`); once they overlap, what is left is that a call posts a delivery
  at most once for each time it was put into the map (`StaysBound`). `NoSilentLoss` is inductive beside
  them. `NothingIsLostSilently`, `SendsAreBounded`. `DeliveriesKeepRetryJobs` is the refinement of `RetryJobs`, for
  finitely many events, since the abstract limit is the number of deliveries there can be: each action
  is mapped to one of its steps by where a delivery stands before and after it, and `Alone` gives what
  the abstract guards ask for: no delivery is active when a call starts, one that is answered or fails
  is active, has attempts left and is in no other call, and none is both in flight and in the map.
- *Streams.* The buffer is the end of all emissions (`BufferIsEnd`), which is an induction over the sequence
  of them; what a connection was written is what it was owed up to now, unless it was displaced
  (`Written`, `Displaced`). `BrowsersAreWritten`.
- *Governance.* Of the set: `SetInv` is its types and `SizeKept`; `RotationsStaySound` follows from one
  lemma per operation about what it does to the number of nodes. Of the round: `RoundInv` says that the
  counters count votes and repeats and nothing else; `FlagsMeanQuorumsAlways` follows. `QuorumsFit` and
  `QuorumsShareHonest` are the arithmetic of `quorum_size` and `max_byzantine` for every number of
  validators. `QuorumsAlwaysShare` is the same of weights: that what two sets share and what they have
  together weigh as much as both is an induction over finite sets of nodes.

**`EventBusProofs`.** What makes `emitSync` hard is which Set objects a frame, the map and the handlers'
subscriptions share. `BusInv` says that no Set serves two types and no subscription is in two Sets
(`SetsApart`), that what is in the map has not ended (`MapIsLive`) and what has not ended is in the map,
but for what a deletion took along (`LostOnlyInEmitSync`), that whoever is in a Set
that took the place of the one a frame iterates came during that `emitSync` (`Shadowed`), that a
subscription made with `once` has left its Set once it was called or scheduled (`OnceGone`), and whom a
running `emitSync` has reached or has still ahead (`SyncReaches`). From it: `MapStaysSound`,
`OnceIsOnce`, `EmitSyncReachesAll`.

**`CacheProofs`.**

- *Pool.* `IInv` adds to the properties that numbers of instances do not pass `total_created`, so that the
  next one is new, and that a thread inside `acquire` wants a module. `HandlesAreExclusive`,
  `PoolAccountsHold`, for any number of threads and modules, whatever the cache
  does.
- *Module cache.* `CapacityKept` counts loads in the middle of a `clear`; what makes it inductive is that
  modules the order does not mention are at most those (`CacheInv`). `CacheStaysSound`.
- *Tiered cache.* Writers pass the tiers in the order they began, and none overtakes another. `TiersInv` says
  that the writer with none behind it carries the latest write (`LastWriter`), that a tier no writer is
  still to reach holds it (`Settled`), that a promotion carries it or will be overwritten
  (`Promotes`), and that requests in a channel are served in order (`ServedInOrder`). A `get` that put
  back what a later write had overtaken (`raced`) and an adapter that rejected or answered out of turn
  (`faulted`) break this for good, so the invariant claims it (`Sound`) only without them, and the types
  of everything always. `TiersAlwaysAgree`, `ReadsStaySound`.

**`DidClientsProofs`.** `DidInv` counts: the attempts of a call that are under way and the effects it has had
are together no more than its attempts (`Attempts`), and an answer tells what was done before the call
has settled (`Answers`). While calls of the hook do not overlap, the document on the screen and the one
in an answer under way are current, or a call other than the one that brought it is to blame (`Alone`).
`OutcomesAreTruthful`, `ScreenIsTruthful`.

*Only model-checked*: the seven liveness properties (`OpenEventuallyProbes`, `EveryItemSettles`,
`EveryDeliverySettles`, `EmitReaches`, `CallSettles`, `CallsSettle`, `RoundDecides`), since the proof system
does not handle fairness, and with them the liveness part of the refinements.

## 5. What the models leave out

Values, payloads, signatures, urls, log lines and statistics. Durations where the code does not compare
them: a timer that is armed may fire, which includes every order real durations allow. Listeners of the
queue, whose errors are caught, and of the breaker, which are called after the state has changed and
taken not to throw. The errors a rejected promise carries. The history of webhook attempts, read by one
method only. What an event handler returns or throws: the promise of an async handler is not waited
for, because `emit` waits for an array that is still empty (`event_bus.ts:125`), so its rejection is
observed by nobody. Keys and values of the adapters' cache: a look may find an answer or not. The
rounding of floating-point tokens. In the encodings: whether a zero is negative, texts with lone surrogates,
values other than data (functions, symbols, objects with a prototype of their own), and lengths of
2^31 and more in Protocol Buffers. Keep-alives of the streams. The socket of `DogStatsDExporter`, which
`require` cannot open in an ESM package unless it is bundled: a flush may send or fail.

## 6. Left to do

1. The transition tables of the API's KYC service and of the core crate against the orchestrator's,
   once the routes use the service.
2. The webhook relay, once `emitEvent` works.
