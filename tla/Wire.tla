-------------------------------- MODULE Wire --------------------------------
(***************************************************************************)
(* The life of one message on the wire: published by this SDK or by a      *)
(* foreign producer, popped, retried, dead-lettered and redriven, on one   *)
(* of the transports that project the envelope onto properties.  What is   *)
(* followed is what each hop does to the body, the properties, the route   *)
(* and the counters.  The App runs with dead-lettering on and the default  *)
(* fail strategy; a settle is one step here, its failures are in App and   *)
(* KafkaRedrive.                                                           *)
(***************************************************************************)
EXTENDS Projection, FiniteSets

CONSTANTS
  Transport,       \* the transports: kafka, pulsar, sqs, azure, artemis, amqp
  Foreign,         \* the [body, props] another producer may publish, by transport
  Payloads,        \* the data a caller of Make may pass
  Meta,            \* the meta entries a caller of Make may add
  Handlers,        \* the URNs with a handler
  MaxAttempts,     \* WithMaxAttempts
  Backoffs,        \* the [base, multiplier, max] retry backoffs, in ticks
  Second,          \* the ticks of a second
  MaxVisibility,   \* MaxVisibilityTimeoutSeconds
  MaxInt64,        \* the largest duration, in ticks
  MaxLapses,       \* bound on the reservations that lapse
  MaxRedrives      \* bound on the redrive runs

ASSUME TransportAssumption ==
  Transport \subseteq {"kafka", "pulsar", "sqs", "azure", "artemis", "amqp"}

IsSequence(s) == s \in Seq(Range(s))

\* A value as a JSON parser hands it over: an object has a sequence of members.
JsonValue(v) ==
  /\ v.is = "number" => v.of \in Int
  /\ IsSequence(Members(v))

\* A body whose members, and theirs, are such values; those of data are not objects again.
JsonBody(body) ==
  /\ JsonValue(body)
  /\ \A i \in DOMAIN Members(body) :
       LET v == Members(body)[i].val
       IN /\ JsonValue(v)
          /\ \A j \in DOMAIN Members(v) :
               /\ JsonValue(Members(v)[j].val)
               /\ Members(body)[i].key = "data" => Members(v)[j].val.is # "object"

\* Data that Encode writes and Decode accepts.
Payload(v) ==
  /\ v.is \in {"object", "null"}
  /\ IsSequence(Members(v)) /\ InRange(Members(v))
  /\ \A i \in DOMAIN Members(v) : JsonValue(Members(v)[i].val) /\ Members(v)[i].val.is # "object"

\* A caller's map is written as an object of numbers in range and other values.
ASSUME PayloadAssumption == \A data \in Payloads : Payload(data)

\* The properties of a record: each absent, text or a number, the job absent or a string.
PropsOK(props) ==
  /\ props = [k \in PropertyNames |-> props[k]]
  /\ \A k \in PropertyNames : props[k].is \in {"null", "string", "text", "number", "array"}
  /\ props.attempts.is = "text" => props.attempts.of \in Int
  /\ props.job = Null \/ props.job.is = "string"

\* Only a redrive marks a replay.
ASSUME ForeignAssumption ==
  \A u \in Transport : \A f \in Foreign[u] :
    JsonBody(f.body) /\ PropsOK(f.props) /\ f.props.replay = Null

\* Members that Encode can carry along: finitely many, one for a key, none reserved.
Carried(S, reserved) ==
  /\ IsFiniteSet(S)
  /\ \A e \in S : e = Member(e.key, e.val) /\ e.key \notin reserved
  /\ \A e, f \in S : e.key = f.key => e = f

MetaKeys == DOMAIN MetaTypes \cup ForbiddenMetaKeys

\* Make refuses the other entries (WithMeta).
ASSUME MetaAssumption == \A meta \in Meta : Carried(meta, MetaKeys)

\* WithMaxAttempts takes any number.
ASSUME LimitAssumption == MaxAttempts \in Int

\* A duration can hold the longest visibility timeout and one second more.
ASSUME DurationAssumption ==
  /\ Second \in Nat \ {0} /\ MaxVisibility \in Nat /\ MaxInt64 \in Nat
  /\ (MaxVisibility + 1) * Second <= MaxInt64

ASSUME BackoffAssumption ==
  \A b \in Backoffs : b.base \in Int /\ b.max \in Int

\* The growth factor between two retries is never below 1.
Growth(b) == Max({b.multiplier, 1})

\* Powers of a growth factor are whole and do not decrease: the arithmetic of ^ that the
\* proofs of Wire use.
ASSUME PowerAssumption ==
  \A b \in Backoffs : \A i \in 0 .. MaxAttempts :
    /\ Growth(b)^i \in Nat
    /\ \A j \in i .. MaxAttempts : Growth(b)^i <= Growth(b)^j

VARIABLES
  t, backoff,      \* the transport and the backoff in use
  pc,              \* "start", "queued", "running", "done"
  msg,             \* the stored record: its queue at, body, props, key, and the
                   \* earlier deliveries of this copy
  job,             \* the delivery the App or the redrive holds
  lapses, redrives,
  origin, own,     \* history: the body first published, and whether by Make
  routes,          \* history: the <<urn, key>> handed to a handler or to routeUnknown
  rejected,        \* history: a delivery from the queue was version-gated
  replay,          \* history: this copy was written by a bypass redrive
  due,             \* history: the least attempts the next delivery may have
  hidden           \* history: the <<n, seconds>> of each release in place since the last redrive

vars == <<t, backoff, pc, msg, job, lapses, redrives, origin, own, routes, rejected, replay, due, hidden>>
history == <<origin, own, routes, rejected, replay, due, hidden>>

Record(at, body, props, key) ==
  [at |-> at, body |-> body, props |-> props, key |-> key, count |-> 0]

NoJob == [body |-> Null, route |-> Null, deliveries |-> 0, replay |-> FALSE, attempts |-> 0]

ReplayBypass == [NoProps EXCEPT !.replay = Str("1")]

-----------------------------------------------------------------------------
(* The transport in use.                                                    *)

\* PublishWithHeaders: the projection of the body and the out-of-band headers.
PublishWithHeaders(body, extra) ==
  CASE t = "kafka"   -> AppendOutOfBand(Projected(body, KafkaHeaders(Env(body))), extra)
    [] t = "pulsar"  -> PulsarMerge(PulsarMessage(body, Null), extra)
    [] t = "sqs"     -> SqsMerge(Projected(body, SqsAttributes(Env(body))), extra)
    [] t = "azure"   -> AzureMerge(Projected(body, AzureProperties(Env(body))), extra)
    [] t = "artemis" -> ArtemisMerge(Projected(body, ArtemisProperties(Env(body))), extra)
    [] t = "amqp"    -> AmqpPublishing(body, extra)

Pop ==
  CASE t = "kafka"   -> KafkaPop(msg)
    [] t = "pulsar"  -> PulsarPop(msg, msg.count)
    [] t = "sqs"     -> SqsPop(msg, msg.count)
    [] t = "azure"   -> AzurePop(msg, msg.count)
    [] t = "artemis" -> ArtemisPop(msg, msg.count)
    [] t = "amqp"    -> AmqpPop(msg)

Headers ==
  CASE t = "kafka"   -> OutOfBandFromRecord(msg.props)
    [] t = "pulsar"  -> PulsarOutOfBand(msg.props)
    [] t = "sqs"     -> SqsHeaders(msg.props)
    [] t = "azure"   -> AzureOutOfBand(msg.props)
    [] t = "artemis" -> ArtemisOutOfBand(msg.props)
    [] t = "amqp"    -> AmqpHeadersFromTable(msg.props)

\* Mutant: any write to the record's own topic is taken for a restore.
PublishFromVerbatim(queue, body, from) ==
  IF queue = msg.at THEN Record(queue, msg.body, msg.props, msg.key)
  ELSE Record(queue, body, PublishWithHeaders(body, NoProps), msg.key)

\* PublishFrom of Kafka: the record as it is when it goes back unchanged to its own
\* topic, else a new projection under its key.
PublishFrom(queue, body, from) ==
  IF queue = msg.at /\ body = from.body THEN Record(queue, msg.body, msg.props, msg.key)
  ELSE Record(queue, body, PublishWithHeaders(body, NoProps), msg.key)

\* republishFrom, App.republish: KeyedRepublisher, else RoutedPublisher, else Publish.
Republish(queue, body, from) ==
  CASE t = "kafka"  -> PublishFrom(queue, body, from)
    [] t = "pulsar" -> Record(queue, body, PulsarMessage(body, from.route), msg.key)
    [] OTHER        -> Record(queue, body, PublishWithHeaders(body, NoProps), msg.key)

\* PublishFromWithHeaders: Kafka keeps the key, Pulsar the route; elsewhere the bare
\* PublishWithHeaders.
PublishFromWithHeaders(queue, body, from, extra) ==
  IF t = "pulsar" THEN Record(queue, body, PulsarMerge(PulsarMessage(body, from.route), extra), msg.key)
  ELSE Record(queue, body, PublishWithHeaders(body, extra), msg.key)

\* Mutant: the marker is stamped through a bare PublishWithHeaders everywhere.
PublishRedrivenBare(queue, body, bypass, from) ==
  IF bypass THEN Record(queue, body, PublishWithHeaders(body, ReplayBypass), "")
  ELSE Republish(queue, body, from)

PublishRedriven(queue, body, bypass, from) ==
  IF bypass THEN PublishFromWithHeaders(queue, body, from, ReplayBypass)
  ELSE Republish(queue, body, from)

-----------------------------------------------------------------------------
(* Retry delays.                                                            *)

ComputeRetryDelay(n) ==
  LET d == backoff.base * Growth(backoff)^(Max({n, 1}) - 1)
  IN CASE backoff.base <= 0                    -> 0
       [] backoff.max > 0 /\ d > backoff.max   -> backoff.max
       [] OTHER                                -> Min({d, MaxInt64})

\* Duration arithmetic wraps around at the width of its integer.
Wrap(d) == ((d + MaxInt64 + 1) % (2 * (MaxInt64 + 1))) - (MaxInt64 + 1)

\* Mutant: the clamp only follows the rounding.
VisibilitySecondsLate(delay) ==
  IF delay <= 0 THEN 0 ELSE Min({Wrap(delay + Second - 1) \div Second, MaxVisibility})

\* visibilitySeconds: rounded up and clamped, the clamp first so that the sum stays in range.
VisibilitySeconds(delay) ==
  CASE delay <= 0                       -> 0
    [] delay >= MaxVisibility * Second  -> MaxVisibility
    [] OTHER -> Min({Wrap(delay + Second - 1) \div Second, MaxVisibility})

-----------------------------------------------------------------------------
(* The App's side.                                                          *)

Init ==
  /\ t \in Transport
  /\ backoff \in Backoffs
  /\ t # "sqs" => backoff = CHOOSE b \in Backoffs : TRUE
  /\ pc = "start"
  /\ msg = Record("q", Null, NoProps, "")
  /\ job = NoJob
  /\ lapses = 0 /\ redrives = 0
  /\ origin = Null /\ own = FALSE /\ routes = {} /\ rejected = FALSE
  /\ replay = FALSE /\ due = -1 /\ hidden = <<>>

\* App.Publish through Make and Encode, with an out-of-band header that may collide
\* with the version the transport projects.
Produce(data, meta, version) ==
  /\ pc = "start"
  /\ LET body == Encode(Make("A", "q", data, meta))
     IN /\ msg' = Record("q", body, PublishWithHeaders(body, [NoProps EXCEPT !.version = version]), "")
        /\ origin' = body
  /\ own' = TRUE
  /\ pc' = "queued"
  /\ UNCHANGED <<t, backoff, job, lapses, redrives, routes, rejected, replay, due, hidden>>

\* Another SDK or tool publishes body with its own properties; a Kafka record may have a key.
ForeignPublish(f) ==
  /\ pc = "start"
  /\ msg' = Record("q", f.body, f.props, IF t = "kafka" THEN "k" ELSE "")
  /\ origin' = f.body
  /\ pc' = "queued"
  /\ UNCHANGED <<t, backoff, job, lapses, redrives, own, routes, rejected, replay, due, hidden>>

Gated(d)  == d.route.is = "gate"
Poison(d) == ~Gated(d) /\ Decode(d.body).err # "none"
Runs(d)   == ~Gated(d) /\ ~Poison(d)

\* The route named by the transport overrides the body's identity.
URN(d) == IF d.route.is = "string" THEN d.route.of ELSE Decode(d.body).env.job

\* Consume and the first half of dispatch: the count reported by the transport is a
\* floor of the attempts, the replay marker comes from the headers.
Consume ==
  /\ pc = "queued" /\ msg.at = "q"
  /\ \E d \in {Pop} :
        /\ job' = [ body |-> d.body, route |-> d.route, deliveries |-> d.deliveries,
                    replay |-> "replay" \in DOMAIN Headers /\ Headers["replay"] # Null,
                    attempts |-> Max({OwnAttempts(d.body), d.deliveries - 1}) ]
        /\ routes' = IF Runs(d) THEN routes \cup {<<URN(d), msg.key>>} ELSE routes
        /\ rejected' = (rejected \/ Gated(d))
  /\ pc' = "running"
  /\ UNCHANGED <<t, backoff, msg, lapses, redrives, origin, own, replay, due, hidden>>

Settled(record) ==
  /\ msg' = record
  /\ pc' = "queued"
  /\ job' = NoJob
  /\ UNCHANGED <<t, backoff, lapses, redrives, origin, own, routes, rejected>>

\* settleVersionGated: the body as it came, undecoded.
DeadLetterGated ==
  /\ pc = "running" /\ Gated(job)
  /\ Settled(Republish("dlq", job.body, job))
  /\ replay' = FALSE
  /\ UNCHANGED <<due, hidden>>

\* settleRawPoison, with the attempts of poisonDeadLetterBody.
DeadLetterPoison ==
  /\ pc = "running" /\ Poison(job)
  /\ Settled(Republish("dlq", PoisonRecord(job.body, "q", Max({job.deliveries - 1, 0})), job))
  /\ replay' = FALSE
  /\ UNCHANGED <<due, hidden>>

\* The handler succeeds and the delivery is acknowledged.
HandlerOk ==
  /\ pc = "running" /\ Runs(job) /\ URN(job) \in Handlers
  /\ pc' = "done"
  /\ UNCHANGED <<t, backoff, msg, job, lapses, redrives, history>>

\* retryOrDeadLetter below the limit: SQS releases the message in place, any other
\* transport gets the envelope again with its attempts raised.
Retry ==
  /\ pc = "running" /\ Runs(job)
  /\ LET n == job.attempts + 1
         env == [Decode(job.body).env EXCEPT !.attempts = n]
     IN /\ n < MaxAttempts
        /\ IF t = "sqs"
           THEN /\ Settled([msg EXCEPT !.count = @ + 1])
                /\ hidden' = Append(hidden, <<n, VisibilitySeconds(ComputeRetryDelay(n))>>)
                /\ due' = job.attempts
                /\ UNCHANGED replay
           ELSE /\ Settled(Republish("q", Encode(env), job))
                /\ due' = n
                /\ replay' = FALSE
                /\ UNCHANGED hidden

\* writeDeadLetter: original_queue is meta.queue, else the queue of the delivery.
DeadLetterFailed ==
  /\ pc = "running" /\ Runs(job)
  /\ LET n   == job.attempts + 1
         env == [Decode(job.body).env EXCEPT !.attempts = n]
     IN /\ n >= MaxAttempts
        /\ Settled(Republish("dlq",
             Encode(Annotate(env, IF env.queue = "" THEN "q" ELSE env.queue, n)), job))
  /\ replay' = FALSE
  /\ UNCHANGED <<due, hidden>>

\* A crash or an expiry before the settle: the broker delivers the same copy again.
Lapse ==
  /\ pc = "running" /\ lapses < MaxLapses
  /\ msg' = [msg EXCEPT !.count = @ + 1]
  /\ due' = IF Runs(job) THEN job.attempts ELSE due
  /\ job' = NoJob
  /\ pc' = "queued"
  /\ lapses' = lapses + 1
  /\ UNCHANGED <<t, backoff, redrives, origin, own, routes, rejected, replay, hidden>>

\* The same for a record drained by a redrive run that ended before its turn.
DrainLapse ==
  /\ pc = "queued" /\ msg.at = "dlq" /\ lapses < MaxLapses
  /\ msg' = [msg EXCEPT !.count = @ + 1]
  /\ lapses' = lapses + 1
  /\ UNCHANGED <<t, backoff, pc, job, redrives, history>>

-----------------------------------------------------------------------------
(* Redrive.                                                                 *)

SourceQueueOf(env) ==
  IF env.dead # <<>> /\ env.dead[1].queue # "" THEN env.dead[1].queue ELSE env.queue

\* restoreToDLQ: not decodable, not selected, a dry run, or a target without a name.
Restore(selected) ==
  /\ pc = "queued" /\ msg.at = "dlq" /\ redrives < MaxRedrives
  /\ \E d \in {Pop} : \E decoded \in {Decode(d.body)} :
        /\ decoded.err # "none" \/ ~selected \/ SourceQueueOf(decoded.env) = ""
        /\ msg' = Republish("dlq", d.body, d)
  /\ redrives' = redrives + 1
  /\ UNCHANGED <<t, backoff, pc, job, lapses, history>>

\* The record is reset and published to the queue it came from or to the one asked for.
Redrive(toQueue, bypass) ==
  /\ pc = "queued" /\ msg.at = "dlq" /\ redrives < MaxRedrives
  /\ \E d \in {Pop} : \E decoded \in {Decode(d.body)} :
       LET reset == [decoded.env EXCEPT !.dead = <<>>, !.attempts = 0]
           target == IF toQueue = "" THEN SourceQueueOf(decoded.env) ELSE toQueue
       IN /\ decoded.err = "none" /\ target # ""
          /\ msg' = PublishRedriven(target, Encode(reset), bypass, d)
  /\ redrives' = redrives + 1
  /\ replay' = bypass
  /\ due' = 0
  /\ hidden' = <<>>
  /\ UNCHANGED <<t, backoff, pc, job, lapses, origin, own, routes, rejected>>

Next ==
  \/ \E data \in Payloads, meta \in Meta, version \in {Null, Str("2")} : Produce(data, meta, version)
  \/ \E f \in Foreign[t] : ForeignPublish(f)
  \/ Consume \/ DeadLetterGated \/ DeadLetterPoison \/ HandlerOk \/ Retry
  \/ DeadLetterFailed \/ Lapse \/ DrainLapse
  \/ \E selected \in BOOLEAN : Restore(selected)
  \/ \E toQueue \in {"", "q"}, bypass \in BOOLEAN : Redrive(toQueue, bypass)

Spec == Init /\ [][Next]_vars

-----------------------------------------------------------------------------
(* Properties.                                                              *)

\* The queue, its dead-letter queue and the queues that the first body names.
QueuesNamed(first) ==
  {"q", "dlq", Env(first).queue} \cup {Env(first).dead[i].queue : i \in DOMAIN Env(first).dead}

\* The record is on a queue that is in use or that the message itself names, each of its
\* properties is absent, text or a number, and every release in place was counted below
\* the limit of the attempts and asked for a time that SQS allows.
TypeOK ==
  /\ pc \in {"start", "queued", "running", "done"}
  /\ msg.at \in QueuesNamed(origin) /\ msg.key \in {"", "k"} /\ msg.count \in Nat
  /\ DOMAIN msg.props = PropertyNames
  /\ \A k \in PropertyNames : msg.props[k].is \in {"null", "string", "text", "number", "array"}
  /\ job.attempts \in Int /\ job.deliveries \in Nat
  /\ job.route.is \in {"null", "string", "gate"}
  /\ \A i \in DOMAIN hidden : hidden[i] \in (1 .. MaxAttempts) \X (0 .. MaxVisibility)

Core(env) == [env EXCEPT !.attempts = 0, !.dead = <<>>]

\* Whatever retries, dead-letter writes and redrives a message goes through, its stored
\* body still decodes to the envelope first published, attempts and the dead_letter block
\* apart, and can be encoded again; a body that never decoded is kept as it came, or whole
\* inside a poison record that nothing redrives.
Faithful ==
  LET first == Decode(origin)
      now   == Decode(msg.body)
  IN pc # "start" =>
       IF first.err = "none"
       THEN now.err = "none" /\ Core(now.env) = Core(first.env) /\ CheckExtras(now.env)
       ELSE \/ msg.body = origin
            \/ /\ msg.at = "dlq" /\ now.err # "none"
               /\ \/ Value(Members(msg.body), "raw") = Str(origin)
                  \/ /\ origin.is = "object"
                     /\ Front(msg.body.of) = origin.of
                     /\ Cardinality({i \in DOMAIN msg.body.of : msg.body.of[i].key = "dead_letter"}) = 1

\* One identity for life: retries, dead-lettering, plain and bypass redrives hand the
\* message to the handlers under the same URN and, on Kafka, the same key.
RouteStable == Cardinality(routes) <= 1

\* The version gate never rejects what this SDK published, whatever headers its caller
\* added, and what it rejected once it rejects again after dead-lettering and redrive: on
\* Pulsar always, elsewhere as long as the body itself declares the unsupported version.
GateSound ==
  /\ own => ~rejected
  /\ pc = "running" /\ rejected
       /\ (t = "pulsar" \/ Decode(origin).env.version \notin {0, SchemaVersion}) => Gated(job)

\* The retry counter of a delivery, put together from body, header and broker count,
\* never falls behind the earlier deliveries of the message and starts over at 0 on a redrive.
AttemptsKept ==
  pc = "running" /\ Runs(job) =>
    /\ job.attempts >= due
    /\ redrives > 0 /\ msg.count = 0 /\ due = 0 => job.attempts = 0

\* A delivery is marked as a replay exactly when its copy was written by a bypass redrive:
\* the marker passes every transport's header filters, redeliveries and in-place releases.
ReplayMarked == pc = "running" => (job.replay <=> replay)

\* The reference of the backoff: the exact product, capped; without a base there is none.
Backoff(n) ==
  LET exact == Max({backoff.base, 0}) * Growth(backoff)^(n - 1)
  IN IF backoff.max > 0 THEN Min({exact, backoff.max}) ELSE exact

\* A release in place hides the message for the configured backoff rounded up to a
\* second, or for the longest time SQS has, and the waits never get shorter.
BackoffHonoured ==
  /\ \A i \in DOMAIN hidden :
       LET n == hidden[i][1]
           secs == hidden[i][2]
       IN \/ secs = MaxVisibility /\ Backoff(n) > (secs - 1) * Second
          \/ secs * Second >= Backoff(n) /\ secs * Second < Backoff(n) + Second
  /\ \A i, j \in DOMAIN hidden : i < j => hidden[i][2] <= hidden[j][2]
=============================================================================
