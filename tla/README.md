# A TLA+ verification project for babelqueue-go

babelqueue-go is a polyglot queue SDK: a runtime (`App`) that consumes messages, runs handlers and
settles deliveries, transports for eight brokers behind one small interface, and helpers around it
(outbox, idempotency, redrive). Delivery is at least once; what makes the code hard is what happens
when a call fails, a reservation lapses or a process dies between two calls. This directory models
those parts in TLA+, checks them with TLC and proves the central properties with TLAPS.

Run a check with `tlc -config <run>.cfg <module>` (PROJECT.json lists the pairs) and a proof with
`tlapm <Module>Proofs.tla`.

## 1. Inventory of the system

| Component | State it keeps | Operations | What is hard |
|---|---|---|---|
| App runtime (`app.go`, `transport.go`) | options; nothing per message between deliveries | Publish, Consume/Drain, dispatch and its settle paths | every settle is several fallible calls; the transport's optional interfaces change the path; reservations lapse while a handler runs |
| Redis, default layout (`redis/redis.go`) | ready list, processing list, deadline set | publish, sweep, reserve, gated ack / release / dead-letter | several consumers and clocks, late settles, equal bodies, dead consumers, leftovers of older versions |
| Redis, Laravel layout (`redis/redis.go`) | ready list, `:delayed`, `:reserved`, `:notify` | publish, delayed publish, two migrations, reserve, wait, ack, release, dead-letter | members are recognised by bytes; release is not gated; wake-ups are hints |
| SQS, Azure Service Bus, Pulsar, AMQP, Artemis | client, URL and consumer caches; the broker holds the rest | the Transport interface and capabilities | visibility, locks, redelivery counts, native dead-letter queues, FIFO deduplication |
| Kafka (`kafka/kafka.go`, `retry.go`, `reinject.go`) | one reader per topic, offsets in the broker, partition workers | Pop, cumulative Ack, Rewind, retry tiers, re-injection | a commit passes earlier records; rewind closes a shared reader; bounded channels and cancellation |
| Redrive (`redrive.go`) | the drained batch | drain, redrive, restore, abort | one of many steps fails; what was popped must not be lost |
| Outbox (`outbox/`) | rows; a batch in the relay's memory | Write, Flush, Drain, marks | crash between publish and mark, several relays, failing rows |
| Idempotency (`idempotency*/`) | the set of processed ids | Seen, Remember (an atomic claim), Forget, expiry, Wrap | overlapping deliveries, failing store, dual-write window |
| Codec and poison record (`envelope*.go`, `poison_record.go`) | none | Decode, Encode, Make, dead-letter blocks | duplicate, aliased, forbidden and unknown keys; `data` goes through `map[string]any`; what one hop drops the next cannot restore |
| Schema, GDPR, OpenTelemetry, adapters | none | pure conversions | byte-level rules |

Interactions: the App drives a Transport and asks it for optional interfaces (Releaser, DeadLetterer,
Rewinder, NativeSettler, RoutedPublisher, KeyedRepublisher...); handlers are callbacks, and
`idempotency.Wrap` and `schema.Wrap` decorate them; consumers interact with each other only through
the broker; the outbox relay and redrive publish through the same Transport.

What makes each part correct: a message is never lost (App, redis, outbox, redrive, Kafka); it ends
once unless something failed (App, redis); a late settle changes nothing that belongs to someone
else (redis); no cumulative commit passes an unsettled record (Kafka, re-injector); the body, route,
version gate, counters and replay marker survive every hop (codec, transports, redrive); the
bookkeeping agrees with what really happened (observer, outbox marks, seen ids);
what is due, parked,
abandoned or failing does not stay so for ever (App, redis, outbox, Kafka, re-injector).

## 2. Modules

| Module | Models | Notes |
|---|---|---|
| `App` | `app.go` against a broker that leases copies | one action per call the App makes |
| `Transports` | the capability records of redis, SQS, Azure, Pulsar, AMQP, Artemis | constants of `MCApp` |
| `MCApp`, `AppProofs` | instances for TLC; proofs about `App` | every strategy × DLQ on/off × transport |
| `SortedSets` | ZRANGEBYSCORE with LIMIT | shared by both redis layouts |
| `LeaseQueue` | abstract specification of a leasing queue | implemented by `RedisLegacy` |
| `RedisLegacy`, `MCRedisLegacy`, `RedisLegacyProofs` | redis default layout | one atomic action per Lua script |
| `RedisLaravel`, `RedisLaravelProofs` | redis Laravel layout | |
| `Kafka` | readers, cumulative commits, Rewind, Close and the group coordinator | operators on the broker's state |
| `KafkaRedrive`, `KafkaRedriveProofs` | `App.Consume` and `Redrive` composed on `Kafka` | EXTENDS `Kafka` |
| `Reinjector`, `MCReinjector`, `ReinjectorProofs` | retry tiers (`retry.go`) and the re-injector (`reinject.go`) | |
| `Codec` | the envelope codec, dead-letter block and poison record | operators over abstract JSON |
| `Projection` | what Kafka, Pulsar, SQS, Azure, Artemis and AMQP write beside a body and read back | operators; EXTENDS `Codec` |
| `Wire`, `MCWire`, `WireProofs` | one message through publish, retries, dead-lettering and redrives | EXTENDS `Projection` |
| `Outbox`, `OutboxProofs` | `outbox/outbox.go`, `outbox/relay.go` | |
| `Idempotency`, `IdempotencyProofs` | `idempotency.Wrap` and its stores | |

**App.** A *copy* is one stored message; a re-publish makes a new one. The pair (copy, delivery
count) is a reservation, so a late settle is told from a current one. `cfg` holds the App's options and
the transport's capabilities and is chosen in `Init`. A body is abstracted to its *kind*: what Decode,
the version gate and the poison flag make of it. `Dispatch` and the operators under it follow
`dispatch`, `settleVersionGated`, `routePoison`, `routeUnknown` and `retryOrDeadLetter` up to the
first call; the next call is the worker's `pc`. Each call may succeed, fail, or succeed with its
reply lost; the App's reaction is in the same action. `Lapse`, `BrokerDeadLetter` and `Crash` are the
environment. A reservation nobody works under lapses freely; one that is being worked on lapses only as a
counted fault. A transport that releases in place is assumed to report a delivery count
(`ReleaseAssumption`), as the Releaser interface asks: without one such a release could never reach
WithMaxAttempts. On Artemis the broker's count survives only a real redelivery, not the App's release.

**RedisLegacy.** The processing list is a bag because no script looks at its order. A reservation is a
deadline member `<token>:<raw>`. A poll is a sweep and a reserve at one reading of the consumer's own
clock (`Skew`). Settles are gated on the own member. `Abandon` is a crash or a call that never
reached redis; an `Unreliable` consumer may stay down.

**RedisLaravel.** Members are bodies with their attempts and the codec that wrote them: reserving
re-encodes with cjson, releasing with the SDK, and a body cjson rejects keeps its bytes. `id` and `stale`
are history only. `nullRetry` is which consumers were built WithoutRetryAfter, chosen in `Init`.

**Kafka, KafkaRedrive.** One partition per topic; both topics share one log so that an offset also orders
writes. A process has one reader per topic, opened by the first Pop; a new assignment resumes at the
committed offset, and `committed` moves to whatever the last accepted commit says, which may
be backwards or by a member that has lost the partition. `batch` is what a process popped and did not
settle: one record in the App, the whole drained batch in `Redrive`. `DrainFails` models
the early return when a Pop fails. `PublishRedriven`, `RestoreToDLQ`, `AbortAck` and `RewindBatch`
are the per-record path, the restore and `abortRedrive`. Each write may fail, or be stored with the
reply lost. `stranded` is history: the records a failed drain left behind a reader. A new assignment
starts at the committed offset and takes them off the list, except those a commit has passed or a
record some process still holds may pass (`Overtaken`).

**Reinjector.** A lane is a partition of a retry topic. The fetch loop (`hand`), the bounded channel
(`chan`) and the partition worker (`worker`) are separate steps; a full channel blocks the fetch loop of its
whole topic. Time is relative: a record keeps its age, a worker the rest of its wait. `lead` is how wrong the
producer's clock was, which `waitFor` clamps.

**Codec.** A JSON object is the sequence of its members, duplicates included, because every occurrence is
type-checked and the last one wins. `Decode` gives the error class and the envelope; `Encode`
writes the known fields and the carried unknown ones. Texts are members of small sets; only blank or not
blank matters to the code. `data` is decoded into a `map[string]any` (`AsMap`): a repeated key keeps its last value and
a number becomes the nearest float64; an integer from `Overflow` on, in any occurrence of `data`, makes the
decoding fail. `Floats` are the integers a float64 holds; 2^53 and the range of a float64 are scaled down to 4 and 7
in the run. `data` is modelled one level deep. `Make` puts the caller's data into the envelope as it is, so it may
hold wider integers (`Payloads`) than the first consumer reads.

**Projection, Wire.** A record is a body, four properties (job, version, attempts, replay), a key and the
broker's delivery count. `Projection` has, for each transport package, the projection written on publish, the
merge of out-of-band headers, the headers surfaced by Pop, the version gate and the
reconciliation of attempts. `Wire` follows one copy through `App.Publish` or a foreign producer, `Consume`,
every settle outcome, lapses, and `Redrive` with its restore, bypass and explicit target. Its settles are
atomic: their partial failures are `App`'s and `KafkaRedrive`'s subject. `origin`, `own`, `routes`,
`rejected`, `replay`, `due` and `hidden` are history. The named assumptions of `Wire` say what its constants are: values as a JSON
parser hands them over, properties that are absent, text or numbers, meta entries that Make accepts, integer growth
factors.

**Outbox.** Rows are numbered in the order they commit. A relay's batch and its accepted ids live in its
memory and are lost in a crash. `Refused` rows are those the transport never accepts.
`attempts` stops at `CapSteps`: the backoff is capped, so larger values are indistinguishable.

**Idempotency.** The three stores behave alike behind the interface (membership, an atomic insert whose
result `Remember` discards, eviction), so there is one module; `Evicts` switches eviction on.

Operators named after a definition with a suffix and commented `Mutant:` are plausible bugs; PROJECT.json
lists which property each one breaks when it takes the definition's place.

## 3. Runs

| Run | Checks | Bounds |
|---|---|---|
| `AppSafety` | TypeOK, NoLoss, BodyPreserved, FaultFreeOnce, EventsConfirmedUngated | 2 workers, 1 message, every configuration, 6 copies, 4 deliveries, 2 faults |
| `AppLiveness` | Settles | 1 worker, 2 faults, transports whose abandoned reservations end |
| `RedisLegacy` | TypeOK, Accounting, LeaseHonoured, ImplementsLeaseQueue, Recovered | 2 consumers, skewed clocks, one may die, the other has no retry_after; 2 equal publishes, an old item, batch 1 |
| `RedisLaravelSafety` | TypeOK, NoLoss, OnceUnlessRecovered | 2 consumers, any 2 publishes of a valid, raw or lenient body, batch 1 |
| `RedisLaravelDue` | DueMigrated | one consumer may die |
| `Outbox` | TypeOK, MarkedWasSent, BoundedDuplicates, Relayed | 2 relays, 3 rows, 1 refused, batch 2, 2 faults |
| `OutboxDrained` (violation) | DrainComplete | 1 relay, a batch full of refused rows |
| `Idempotency` | TypeOK, SkippedWasRun, BoundedReruns | 2 consumers, 7 deliveries, a message with and one without id, 2 faults |
| `Kafka` | TypeOK, NoLoss, OnePlace, Progress | 2 processes, 2 messages (one foreign), 1 Redrive run, 1 fault |
| `KafkaStranded` (violation) | NoLossStrict | the same |
| `Reinjector` | TypeOK, CommittedCarried, InOrder, NotEarly, NotStretched, Carried | 2 tiers, 3 lanes, 2 records, channel depth 1, ages up to 4, 2 faults |
| `Wire` | TypeOK, Faithful, RouteStable, GateSound, AttemptsKept, ReplayMarked, BackoffHonoured | 6 transports, some 160 foreign bodies and every property set of a few, 4 attempts, 2 lapses, 2 redrives |

*Why the bounds are enough.* Messages do not interact in the App, so one message and its copies
suffice; two workers and two faults give a lapse under a working worker together with a failed call
or a crash. Six copies are more than two attempts and two faults can create, except for an
unknown URN under StrategyRelease, which circulates by design; there the bound just ends the
behaviour. Four deliveries are two attempts plus two faults. In redis two publishes of equal bytes are
what makes removal by value ambiguous, and a retry window of one or two seconds, a second of skew and a clock of a few seconds let
every deadline pass under a working consumer. In the outbox three rows with batches of two make a second
batch; in the guard seven deliveries exceed the bound on reruns that is checked.
On Kafka two messages are what a cumulative commit needs to pass one while settling the other; one fault is enough for
every single failed call, lost reply, rebalance, Close or crash at every point, and a second is
left out for the size of the state space. In the re-injector a channel of one slot
fills with two records, and a topic with two lanes lets one lane block the other. In `Wire` the numbers are scaled
down (a second is two units, the longest visibility four seconds, the largest integer 31) so that
rounding, the clamp and the overflow of a backoff all happen within four attempts; the foreign bodies
combine every identity form, meta block and remainder the codec distinguishes, among them data with a repeated key
whose last value is no float64 and data with an integer out of range.

CHECK_DEADLOCK is off in every run: the systems poll for ever and stop only because the bounds on
publishes, copies, reservations, redrives or time are used up.

*Fairness.* `App`: a worker's loop goes on and its calls return, and a reservation nobody works
under ends (visibility timeout, lock duration, sweeps). AMQP is left out of `AppLiveness` because there it
ends only with the channel, which nothing in the code bounds. Redis: time passes, a consumer that is up keeps polling
(`Pop` loops, `Consume` calls it again) and its handler returns; in `RedisLaravel` strong fairness of the
second migration says that not every poll of a living consumer fails between its two scripts.
Outbox: Drain is called again and again, as its documentation asks. Kafka: `Consume` polls, calls return, a worker
opens its reader and the coordinator assigns a topic that has members and no owner; a Redrive run, once
started, ends its drain. Re-injector: goroutines run, calls return, time passes and Run is started again; strong
fairness of `Fetch` says that FetchMessage does not ignore one partition for ever while it serves the others.
`Wire` states no liveness.

## 4. What the runs show

Every safety and liveness property of the passing runs holds. Two statements of the repository do
not hold, each shown by a run of its own:

1. `OutboxDrained`: Drain stops with publishable rows left when the oldest batch fails as a whole, and
   every later Drain meets that batch again.
2. `KafkaStranded`: a Pop that fails in the middle of Redrive's drain returns at once; the records popped
   before it are neither restored nor rewound. On Kafka the cached reader stands behind them, and the first
   commit of the next run passes them. `NoLoss` of the passing run excepts exactly those records
   (`stranded`).

Limits that the properties are worded around:

- the DeadLetterObserver is told of a dead-letter although nothing was written, when the gated dead-letter of
  redis finds the reservation gone and returns nil (EventsConfirmedUngated leaves gated transports out);
- the Laravel layout recognises members by bytes and its release is not gated: after an expiry a message may be handled
  and dead-lettered as well (OnceUnlessRecovered speaks of behaviours without an expired reservation);
- overlapping deliveries of one id both run the handler, as the package comment of `idempotency` says
  (BoundedReruns bounds them);
- a version declared only by a property, not by the body, is forgotten when a gated record is redriven on a
  transport other than Pulsar; conversely a body with an unsupported version and no property is gated
  only from its first re-publish on, and Artemis, which writes version "0", gates the retry of a
  body without one (GateSound is worded accordingly);
- the replay marker is not repeated when a replayed message is retried by re-publish, so its effects are not
  bypassed the second time; only a release in place on SQS keeps it (ReplayMarked follows the copy);
- `data` is not kept as it was written but as a `map[string]any` holds it: 9007199254740993 is written and
  9007199254740992 read, and a key repeated in an object keeps its last value only. Faithful and RoundTrip compare
  with what the first reading gives; `DataRead` says that later hops change nothing more. The comment of Redrive (redrive.go:54-55: "job, trace_id,
  data and meta are preserved verbatim") therefore holds for what a consumer reads, not for the bytes: a
  version-gated record, or one a broker moves natively, reaches the dead-letter queue with the data its producer wrote, and a redrive
  re-encodes it, rounded. buildPoisonRecord splices instead of re-encoding for this very reason (poison_record.go:11-15);
- NotEarly says nothing of a producer whose clock is behind, and NotStretched nothing tighter than the tier of one whose
  clock is ahead: that is what the clamp of waitFor gives;
- FaultFreeOnce and OnePlace say nothing once a fault has happened, OnceUnlessRecovered nothing once a reservation has
  expired: at-least-once delivery promises nothing there. What holds after a fault is NoLoss and, where the code
  bounds duplicates, BoundedDuplicates and BoundedReruns;
- a gated record without meta.queue and without a dead-letter block has no queue to be redriven to; the model assumes that a
  broker refuses a publish to the empty name, so the record is restored.

## 5. Proofs

| Theorem | States |
|---|---|
| `AppProofs!TypeCorrect`, `NothingLost`, `BodiesPreserved` | `Spec => []TypeOK`, `[]NoLoss`, `[]BodyPreserved` |
| `AppProofs!EventsConfirmed`, `EndsOnceFaultFree` | `Spec => []EventsConfirmedUngated`, `[]FaultFreeOnce` |
| `RedisLegacyProofs!TypeCorrect`, `ProcessingAccounted`, `LeasesHonoured` | `Spec => []TypeOK`, `[]Accounting`, `[]LeaseHonoured` |
| `RedisLegacyProofs!LeaseQueueImplemented` | `Spec => ImplementsLeaseQueue` (refinement of `LeaseQueue`) |
| `RedisLaravelProofs!TypeCorrect`, `NothingLost`, `DuplicatesOnlyRecovered` | `Spec => []TypeOK`, `[]NoLoss`, `[]OnceUnlessRecovered` |
| `KafkaRedriveProofs!TypeCorrect`, `NothingLost`, `OnePlaceKept` | `Spec => []TypeOK`, `[]NoLoss`, `[]OnePlace` |
| `ReinjectorProofs!TypeCorrect`, `CommitsCarried`, `CarriedInOrder` | `Spec => []TypeOK`, `[]CommittedCarried`, `[]InOrder` |
| `ReinjectorProofs!DelaysKept`, `DelaysBounded` | `Spec => []NotEarly`, `[]NotStretched` |
| `OutboxProofs!TypeCorrect`, `MarkedRowsWereSent`, `DuplicatesBounded` | `Spec => []TypeOK`, `[]MarkedWasSent`, `[]BoundedDuplicates` |
| `WireProofs!RoundTrip` | `Decode(Encode(env))` is `env` with `AsMap(env.data)` for its data, for every writable envelope |
| `WireProofs!DataRead` | what `AsMap` keeps: each key once with its last value, an integer exactly if it is in `Floats`; applied again it changes nothing |
| `WireProofs!TypeCorrect`, `BodiesFaithful`, `RoutesStable`, `GateNeverTurns` | `Spec => []TypeOK`, `[]Faithful`, `[]RouteStable`, `[]GateSound` |
| `WireProofs!AttemptsNeverLost`, `ReplaysMarked`, `BackoffsHonoured` | `Spec => []AttemptsKept`, `[]ReplayMarked`, `[]BackoffHonoured` |
| `IdempotencyProofs!TypeCorrect`, `GuardSkipsOnlyRun`, `RerunsBounded` | `Spec => []TypeOK`, `[]SkippedWasRun`, `[]BoundedReruns` |

They hold for every value of the constants that satisfies the named assumptions (sets of workers and
messages of any size, any bounds, any set of configurations). Every invariant below was checked by TLC on
the run's instance before it was proved.

*App.* NoLoss is not inductive: two workers could each drop a copy because the other copy is still
there. `IInv` strengthens "another copy carries the message" to "a *later* copy does" (`Accounted`),
which cannot go in a circle, and says the same of every worker about to acknowledge
(`AckAccounted`). `KindsKept` and `AttemptsCounted` make the options' permission to drop a message
stable: copies of one message stay of one class, and attempts never run ahead of deliveries.
The assumption `RouteAssumption` (routed deliveries only on transports that publish the route) is needed for the
class of a re-published copy. BodyPreserved rests on `JobsRouted`: when a DLQ can be written no worker
with an undecodable body is on a retry path. EventsConfirmedUngated is inductive with the types.

FaultFreeOnce needs `Quiet`, an invariant of the states before the first fault. `HeldCurrent`: every worker's
reservation is in force and no other worker's. `OneOpen`: a message has at most one *open* copy, one that no
worker is about to acknowledge, and has not ended while it has one; a re-publish hands the
message from the old copy, now to be acknowledged, to the new one. `HandledHeld`: a copy that has a handler is never left reserved
without a worker, so its reservation does not lapse. `DeliveriesCounted`: the attempts of the next delivery are
at least the deliveries so far, whether they are kept in the body (re-publish, rewrite) or in the
broker's count (release in place, by `ReleaseAssumption`). WithMaxAttempts is not clamped, so a limit below one still
means one delivery; the property says so (`Bounded`). `OwnMove` collects what a worker may do to its own copy, and
`OwnStep` proves once that any such step keeps `Quiet`.

*RedisLegacy.* Accounting is inductive together with the types, the finiteness of the deadline set
and `TokensDrawn` (a fresh token is in no deadline), by cardinality of the members per value under a
sweep of any batch. LeaseHonoured needs `OwnTokens`: two working consumers never hold one token, so
no settle of one can remove the other's member. For the refinement a lease is a deadline member that has its copy in the
processing list (`Leases`), and what waits is counted in the ready list (`Waiting`). `OneToken` makes a
token name one member, so a settle drops exactly its own lease. `SweptFound` says that a sweep moves the members it finds and only
those; by counting places each of them is one lapse of the abstract queue, and every other script is one of its
steps or a stutter.

*RedisLaravel.* TypeOK bounds attempts by the reservations drawn; `AttemptsDrawn` also says it of a body a consumer is working on, which
a late, ungated release may put back. NoLoss follows with `Jobs`: the two bodies of a handle are of one message, and an
ack follows a success, so removing a member by its bytes takes a copy of the same message. OnceUnlessRecovered counts: what
ended and what may still end (`InPlay`: list places, delayed members and workers) never exceeds what was
published. A migration of any batch moves as many members as it appends; equal members that merge only lower the count.

*KafkaRedrive.* A commit, a reader's position and a held record only pass records that are `Passable`: handled, continued by a later
record, or stranded. A held record may also pass the ones held before it in the same batch (`HeldPasses`), which is
why Redrive's restores and acknowledgements have to go in order and the rest has to be rewound. That the
carrying record is *later* again keeps two records from vouching for each other; the last record of a message then
shows NoLoss. The proof attempt showed that an earlier bookkeeping of `stranded`, which forgot a stranded record at
every new assignment, was not inductive: a member that has lost the topic may still commit past it. `Overtaken`
is the result. OnePlace needs `Undisturbed`: before a fault only the owner of a topic holds its records, in order and
not yet committed, and a pending record with a successor is about to be acknowledged.

*Reinjector.* Offsets go through the reader, the fetch loop's hand, the channel and the worker; `LaneCovered` says
that whatever comes before an offset was carried or is in front of it in this pipeline. A rebalance
that sends offsets through again keeps this, and `PipelineCovered` drops it for a cancelled run
until Run returned and the pipeline is empty. CommittedCarried and InOrder are
conjuncts of `IInv`. NotEarly needs `WaitCovered`: the tier covers the delay, and what a worker has still to sleep covers the rest of it.
NotStretched is the other half and inductive with it: both waits count down together with the age of the record.

*Outbox.* What is about to be marked was sent (`AcceptedWasSent`). For the duplicates, `CopiesCounted`: faults
apart, a row that is not marked was sent once per relay that is about to mark it, and a marked one is sent again only by
those relays that still hold it; `BatchSplit` keeps a relay from being counted twice.

*Idempotency.* What is or is about to be remembered was run (`RememberedWasRun`). `RerunsCounted` is the same kind of count: since
the last fault an id that is not remembered ran once per consumer about to remember it, and a
remembered one runs again only for consumers that looked it up before.

*Wire, Codec, Projection.* `RoundTrip` is the lemma the rest hangs on: what `Encode` writes, `Decode` reads back, data
through its map, for every envelope that is `Writable` (named, data null or an object of JSON values in range, at most one
dead-letter block, unknown members that carry no reserved key). `DataRead` says what the map keeps, and that what it holds
is `Writable` and read back unchanged; an envelope with such data is `Encodable`, and `Decode(Encode(env))` is `env` itself.
No induction over the body is needed: the encoded members are the known ones followed by a listing of the unknown
ones, and the last occurrence of a key decides its value (`HasMax`, from the well-foundedness of <). Its converse
`DecodedEncodable` says that whatever Decode accepts is encodable, so every hop can be followed by another. On top of it two lemmas
describe a hop once for all six transports: `Popped` (a record comes back gated, poison, or as a run under its one URN with the
reconciled counter `Due`) and `Written` (a republish keeps key, route and rejected version and projects the counter anew, or on
Kafka restores the record as it was).

Faithful, RouteStable, GateSound, AttemptsKept and ReplayMarked speak of what has happened; none is inductive, because nothing in
them says what the stored record will be taken for at its next delivery. `IInv` says that: the record stands for the body first
published and lies on a queue that body names (`Carries`), its next delivery has the route of the last (`SameRoute`) and the
same verdict of the gate (`SameGate`), its marker and its counter agree with the history (`ReplayInv`, `Counted`), and a running
delivery is the one this record gives (`RunInv`). An undecodable body is the first one or, only among the dead letters, a
poison record with that body `Inside`; that a splice never makes an undecodable object decodable is `PoisonKept`.
`ReleaseInv` adds that releases in place were made at rising attempts, none ahead of the counter; with `DelayOf`, `Rounded` and
`WaitsRise` (the arithmetic of ComputeRetryDelay and VisibilitySeconds, overflow included) BackoffHonoured and TypeOK follow.
`IInv` and `ReleaseInv` were checked as invariants of the run before they were proved.

The proof changed two definitions. TypeOK had the record on "q" or "dlq" only, which the run's bodies do not refute but
others would: a redrive without a target goes to the queue named in the dead-letter block or in meta.queue, both of
which a producer may choose (`QueuesNamed`). And the reference `Backoff` did not say that a negative base means no backoff.

The assumptions on the constants, and why the code justifies them: `TransportAssumption` lists the packages that project;
`ForeignAssumption`: bodies are values of a JSON parser, properties are of the kinds the client libraries deliver, and a producer
does not itself write the replay marker, which only Redrive does; `MetaAssumption`: WithMeta refuses reserved keys and a Go map
has a key once; `PayloadAssumption`: what a caller hands to Publish is nil or JSON values in the range of a float64; `FloatAssumption`: zero is a
float64 and every float64 is in range; `LimitAssumption` and `BackoffAssumption`: integers of either sign; `DurationAssumption`: a time.Duration holds
twelve hours and a second; `PowerAssumption`: powers of the growth factor are naturals that do not decrease. The last is
arithmetic of integers that the SMT backend has no theory of; TLC evaluates it, like the others, for the values of the run.

Only model-checked: liveness (`Settles`, `Recovered`, `DueMigrated`, `Relayed`, `Progress`, `Carried`) and
everything that needs ENABLED, which the prover does not handle. Every invariant of a passing run is a theorem, and so is the
refinement. The two violation runs refute `DrainComplete` and `NoLossStrict`.

## 6. Not modelled, and the plan

PROJECT.json lists every component with its status. Left out of the modelled parts:

- the client, URL, producer, consumer and link caches of the SQS, Azure, Pulsar and Artemis packages, connection
  set-up and queue declaration;
- SQS FIFO deduplication: the deduplication id is meta.id, so a redrive within the window is swallowed by the
  broker; the window is the service's and nothing in the code depends on it;
- jitter and fractional growth factors of the retry delay, the observer's panic recovery, trace context, log texts and codec warnings;
- objects and arrays nested in `data` (their numbers and repeated keys are converted like those of `data` itself), the spelling of
  a number (1.0, 1e2), fractions, which of two equally near floats a number becomes (ties go to even), and unpaired surrogate
  escapes, which become U+FFFD;
- of the headers: the trimming of white space around Pulsar's route, the upper bound on `bq-attempts`, SQS's limit of ten
  attributes, and trace headers, which are forwarded and read by nothing here; no property depends on them;
- in the default redis layout, deadline members without a processing item, which only the ungated ack of an older version would leave: a sweep drops such a member
  and, should an equal body be in the processing list as a leftover of an older version, takes that copy for its own;
- several partitions of a Kafka work topic (commits of different partitions are independent);
- in `Wire`, several copies of the message at once and partial failures.

Left out for good: encryption, schema validation, tracing and the adapters to other task libraries, which keep no
state and change no delivery, and the in-memory transport, which exists for tests.

Next, in the order of importance: action properties and lemmas of `LeaseQueue` itself (a lease is granted once, what
waits is never lost), which the refinement then carries over to `RedisLegacy`; then the transport caches.
