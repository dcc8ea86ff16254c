----------------------------- MODULE Transports -----------------------------
(***************************************************************************)
(* The optional interfaces each transport package implements, as the App   *)
(* finds them by type assertion, and the kinds of delivery its Pop hands   *)
(* over.  Kafka, whose acknowledgement is a cumulative offset commit, and  *)
(* the Laravel layout of redis, whose release is not gated, do not settle  *)
(* copy by copy and are not described here.                                *)
(***************************************************************************)

\* A list with gated settles; Pop flags every body it cannot decode as poison.
Redis ==
  [ release |-> "rewrite", counts |-> "none", deadLetterer |-> TRUE, rewinder |-> "none",
    native |-> "none", keepsRoute |-> FALSE,
    kinds |-> {"known", "unknown", "poison"} ]

\* Visibility timeout and receive count; the native settle does nothing.
SQS ==
  [ release |-> "inPlace", counts |-> "all", deadLetterer |-> FALSE, rewinder |-> "none",
    native |-> "noop", keepsRoute |-> FALSE,
    kinds |-> {"known", "unknown", "noident", "garbage", "gated"} ]

\* A client without ChangeMessageVisibility: Release is ErrReleaseUnsupported.
SQSNoVisibility == [SQS EXCEPT !.release = "none"]

\* Message locks: abandon is the rewind, DeadLetterMessage the native settle.
AzureServiceBus ==
  [ release |-> "none", counts |-> "decoded", deadLetterer |-> FALSE, rewinder |-> "counted",
    native |-> "deadLetter", keepsRoute |-> FALSE,
    kinds |-> {"known", "unknown", "noident", "garbage", "gated"} ]

\* Negative acknowledgement is the rewind; the bq-job property routes.
Pulsar ==
  [ release |-> "none", counts |-> "all", deadLetterer |-> FALSE, rewinder |-> "counted",
    native |-> "none", keepsRoute |-> TRUE,
    kinds |-> {"known", "unknown", "routed", "noident", "garbage", "gated"} ]

\* An AMQP 1.0 receiver: releasing the delivery is the rewind.
Artemis ==
  [ release |-> "none", counts |-> "decoded", deadLetterer |-> FALSE, rewinder |-> "uncounted",
    native |-> "none", keepsRoute |-> FALSE,
    kinds |-> {"known", "unknown", "noident", "garbage", "gated"} ]

\* basic.get and basic.ack only.
AMQP ==
  [ release |-> "none", counts |-> "none", deadLetterer |-> FALSE, rewinder |-> "none",
    native |-> "none", keepsRoute |-> FALSE,
    kinds |-> {"known", "unknown", "noident", "garbage"} ]
=============================================================================
