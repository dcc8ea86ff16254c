------------------------------- MODULE MCApp -------------------------------
(* Instances of App for TLC: every combination of options on the transports *)
(* that settle copy by copy.                                                *)
EXTENDS App, Transports

ConfigsOn(transports, attempts) ==
  [ strategy : Strategies, deadLetter : BOOLEAN, maxAttempts : attempts,
    transport : transports ]

\* Every transport whose dead-letter write is not gated.
UngatedTransports == {SQS, SQSNoVisibility, AzureServiceBus, Pulsar, Artemis, AMQP}

AllConfigs    == ConfigsOn(UngatedTransports \cup {Redis}, {2})
LeasedConfigs == ConfigsOn({SQS, SQSNoVisibility, AzureServiceBus, Pulsar, Artemis, Redis}, {2})
=============================================================================
