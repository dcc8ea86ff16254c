----------------------------- MODULE Projection -----------------------------
(***************************************************************************)
(* What each transport package writes beside an envelope and what it reads *)
(* back.  A record on the wire is its body, its properties (record         *)
(* headers, message attributes, application properties) and its key.  The  *)
(* properties that no Pop reads back are left out: trace and message id,   *)
(* language, created_at, the native type and correlation fields.           *)
(***************************************************************************)
EXTENDS Codec

\* A property is absent (Null), a string, the decimal text of an integer, a native
\* integer (Num) or a value of another type (Array).
Txt(n) == [is |-> "text", of |-> n]

PropertyNames == {"job", "version", "attempts", "replay"}
NoProps       == [k \in PropertyNames |-> Null]

Blank(v) == v = Null \/ (v.is = "string" /\ IsBlankASCII(v.of))

\* A projection of an envelope applies to a body that decodes; any other has none.
Projected(body, props) == IF Decode(body).err = "none" THEN props ELSE NoProps

Env(body) == Decode(body).env

OwnAttempts(body) == Env(body).attempts

\* The body with its attempts replaced, re-encoded only when that changes it.
WithAttempts(body, n) ==
  LET d   == Decode(body)
      env == [d.env EXCEPT !.attempts = n]
  IN IF d.err # "none" \/ d.env.attempts = n \/ ~CheckExtras(env) THEN body ELSE Encode(env)

\* The reserved route of a version-gated delivery: the rejected version and, on
\* Pulsar, the bq-job property beside it.
GateRoute(version, job) == [is |-> "gate", of |-> <<version, job>>]

\* A delivery as Pop hands it over; deliveries is 0 when the transport has no count.
Delivery(body, route, deliveries) ==
  [body |-> body, route |-> route, deliveries |-> deliveries]

\* The out-of-band headers extra are added to the properties of a publish under the
\* names that are neither the package's own nor already there.
Overlay(own, props, extra) ==
  [k \in PropertyNames |-> IF k \in own \/ props[k] # Null THEN props[k] ELSE extra[k]]

\* The headers that Pop surfaces: all but the package's own names.
Surface(own, props) == [k \in PropertyNames \ own |-> props[k]]

-----------------------------------------------------------------------------
(* Kafka: the bq-attempts header is authoritative, the key is carried.      *)

KafkaHeaders(env) ==
  [ job      |-> Str(env.job),
    version  |-> IF env.version = 0 THEN Null ELSE Txt(env.version),
    attempts |-> Txt(env.attempts),
    replay   |-> Null ]

ContractHeaders == {"job", "version", "attempts"}

AppendOutOfBand(props, extra) == Overlay(ContractHeaders, props, extra)

\* Mutant: every bq- header is taken for a contract header.
OutOfBandFromRecordPrefix(props) == Surface(PropertyNames, props)

OutOfBandFromRecord(props) == Surface(ContractHeaders, props)

KafkaRejects(v) == ~Blank(v) /\ v # Txt(SchemaVersion)

\* headerAttempts: the count reported for a gated record.
HeaderAttempts(props) ==
  IF props.attempts.is = "text" /\ props.attempts.of > 0 THEN props.attempts.of ELSE 0

KafkaReconcile(body, props) ==
  IF props.attempts.is = "text" THEN WithAttempts(body, props.attempts.of) ELSE body

KafkaPop(r) ==
  IF KafkaRejects(r.props.version)
  THEN Delivery(r.body, GateRoute(r.props.version, Null), HeaderAttempts(r.props) + 1)
  ELSE Delivery(KafkaReconcile(r.body, r.props), Null, 0)

-----------------------------------------------------------------------------
(* Pulsar: bq-job routes and bq-attempts counts; a gate survives republish. *)

PulsarProperties(env) ==
  [ job      |-> Str(env.job),
    version  |-> IF env.version = 0 THEN Null ELSE Txt(env.version),
    attempts |-> Txt(env.attempts),
    replay   |-> Null ]

\* Mutant: a gated record is projected from its body like any other.
PulsarMessageReprojected(body, route) ==
  LET props == Projected(body, PulsarProperties(Env(body)))
  IN IF route.is = "string" /\ props # NoProps THEN [props EXCEPT !.job = route] ELSE props

\* message: the projection, then the rejected version and its bq-job, or the route.
PulsarMessage(body, route) ==
  LET props == Projected(body, PulsarProperties(Env(body)))
  IN CASE route.is = "gate" ->
            [props EXCEPT !.version = route.of[1],
                          !.job     = IF route.of[2] = Null THEN @ ELSE route.of[2]]
       [] route.is = "string" /\ props # NoProps -> [props EXCEPT !.job = route]
       [] OTHER -> props

PulsarContract == {"job", "version", "attempts"}

PulsarMerge(props, extra) == Overlay(PulsarContract, props, extra)

PulsarOutOfBand(props) == Surface(PulsarContract, props)

PulsarRejects(v) == ~Blank(v) /\ v # Txt(SchemaVersion)

\* parseAttempts: digits only, so neither a sign nor any other text.
ParseAttempts(v) == IF v.is = "text" /\ v.of >= 0 THEN {v.of} ELSE {}

PulsarReconcile(body, props, count) ==
  LET declared == ParseAttempts(props.attempts)
      attempts == IF declared = {} THEN OwnAttempts(body) ELSE Max(declared)
  IN WithAttempts(body, Max({attempts, count}))

PulsarPop(r, count) ==
  IF PulsarRejects(r.props.version)
  THEN Delivery(r.body, GateRoute(r.props.version, r.props.job), 0)
  ELSE Delivery(PulsarReconcile(r.body, r.props, count),
                IF Blank(r.props.job) \/ Decode(r.body).err # "none" THEN Null ELSE r.props.job,
                Max(ParseAttempts(r.props.attempts) \cup {count}) + 1)

-----------------------------------------------------------------------------
(* SQS: the receive count is a floor and is reported for every message.     *)

SqsAttributes(env) ==
  [NoProps EXCEPT !.job = Str(env.job),
                  !.version = IF env.version = 0 THEN Null ELSE Txt(env.version)]

\* mergeAttributes: no name is reserved, an existing attribute wins.
SqsMerge(props, extra) == Overlay({}, props, extra)

\* headersFromAttributes: the contract attributes surface too.
SqsHeaders(props) == Surface({}, props)

SqsRejects(v) == ~Blank(v) /\ v # Txt(SchemaVersion)

\* receiveCount is 1 on the first delivery.
SqsReconcile(body, receiveCount) ==
  IF receiveCount <= 1 \/ receiveCount - 1 <= OwnAttempts(body) THEN body
  ELSE WithAttempts(body, receiveCount - 1)

SqsPop(r, count) ==
  IF SqsRejects(r.props.version)
  THEN Delivery(r.body, GateRoute(r.props.version, Null), count + 1)
  ELSE Delivery(SqsReconcile(r.body, count + 1), Null, count + 1)

-----------------------------------------------------------------------------
(* Azure Service Bus: a native integer version, a delivery count from 1.    *)

AzureProperties(env) ==
  [NoProps EXCEPT !.version = IF env.version = 0 THEN Null ELSE Num(env.version)]

AzureContract == {"version", "attempts"}

AzureMerge(props, extra) == Overlay(AzureContract, props, extra)

\* Only text values are surfaced.
AzureOutOfBand(props) == Surface(AzureContract, props)

AzureRejects(v) == ~Blank(v) /\ v \notin {Txt(SchemaVersion), Num(SchemaVersion)}

AzureReconcile(body, deliveryCount) ==
  IF deliveryCount <= 1 \/ deliveryCount - 1 <= OwnAttempts(body) THEN body
  ELSE WithAttempts(body, deliveryCount - 1)

AzurePop(r, count) ==
  IF AzureRejects(r.props.version)
  THEN Delivery(r.body, GateRoute(r.props.version, Null), count + 1)
  ELSE Delivery(AzureReconcile(r.body, count + 1), Null, 0)

-----------------------------------------------------------------------------
(* Artemis: a version is always written, a delivery count from 0.           *)

ArtemisProperties(env) ==
  [NoProps EXCEPT !.version = Txt(env.version), !.attempts = Txt(env.attempts)]

ArtemisContract == {"version", "attempts"}

ArtemisMerge(props, extra) == Overlay(ArtemisContract, props, extra)

ArtemisOutOfBand(props) == Surface(ArtemisContract, props)

\* Only the text of the supported version is accepted, never a native number.
ArtemisRejects(v) == ~Blank(v) /\ v # Txt(SchemaVersion)

ArtemisReconcile(body, deliveryCount) ==
  IF deliveryCount = 0 \/ deliveryCount <= OwnAttempts(body) THEN body
  ELSE WithAttempts(body, deliveryCount)

ArtemisPop(r, count) ==
  IF ArtemisRejects(r.props.version)
  THEN Delivery(r.body, GateRoute(r.props.version, Null), count + 1)
  ELSE Delivery(ArtemisReconcile(r.body, count), Null, 0)

-----------------------------------------------------------------------------
(* AMQP 0-9-1: the headers are written and not read back.                   *)

AmqpHeaders(env) ==
  [NoProps EXCEPT !.version = IF env.version = 0 THEN Null ELSE Num(env.version),
                  !.attempts = Num(env.attempts)]

\* publishing: the caller's headers first, the contract's over them.
AmqpPublishing(body, extra) ==
  LET props == Projected(body, AmqpHeaders(Env(body)))
  IN [k \in PropertyNames |-> IF props[k] = Null THEN extra[k] ELSE props[k]]

\* headersFromTable: every header, as text.
AmqpHeadersFromTable(props) == Surface({}, props)

AmqpPop(r) == Delivery(r.body, Null, 0)
=============================================================================
