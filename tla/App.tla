-------------------------------- MODULE App --------------------------------
(***************************************************************************)
(* The consumer runtime of app.go: the consume loop, the routing of one    *)
(* delivery (dispatch) and the ways it is settled (ack, retry, release,    *)
(* dead-letter, native settle, rewind), run by several workers against one *)
(* queue of a broker that redelivers what is not settled.                  *)
(*                                                                         *)
(* A copy is one physical message in the broker: a re-publish creates a    *)
(* new one.  A reservation is the pair (copy, delivery count), so a late   *)
(* settle of a reservation that lapsed is told from a current one.         *)
(* What the application may configure and what the transport offers is the *)
(* record cfg, chosen once in Init and never changed.                      *)
(***************************************************************************)
EXTENDS Naturals

CONSTANTS
  Worker,         \* goroutines or processes running App.Consume on the queue
  Msg,            \* the messages producers put on the queue
  Configs,        \* application options and transport capabilities to check
  MaxCopies,      \* bound: copies the broker ever holds
  MaxDeliveries,  \* bound: deliveries of one copy; also the native brokers' limit
  MaxFaults       \* bound: failed calls, lost replies, early lapses and crashes

\* What a body is, as Decode, the version gate and the poison flag see it.
Kinds ==
  { "known",      \* decodes, a handler owns its URN
    "unknown",    \* decodes, no handler owns the URN it is routed on
    "routed",     \* decodes, only the transport's route (RouteURN) names a handler
    "noident",    \* decodes without identity (ErrNoIdentity)
    "garbage",    \* does not decode
    "gated",      \* the transport's version gate rejected it
    "poison" }    \* the transport flagged it (ReceivedMessage.Poison)

Strategies == {"fail", "delete", "release", "dead_letter"}

\* The optional Transport interfaces, as far as settling tells them apart.
Capabilities ==
  [ release      : {"none", "inPlace", "rewrite"},
    counts       : {"none", "decoded", "all"},   \* bodies Pop applies the broker's count to
    deadLetterer : BOOLEAN,
    rewinder     : {"none", "counted", "uncounted"},   \* does the broker count a rewound delivery
    native       : {"none", "noop", "deadLetter"},
    keepsRoute   : BOOLEAN,   \* re-publishes keep the routing property
    kinds        : SUBSET Kinds ]

Config ==
  [ strategy : Strategies, deadLetter : BOOLEAN, maxAttempts : Nat, transport : Capabilities ]

ASSUME ConfigsAssumption == Configs \subseteq Config

\* Only a transport that can publish a route hands over routed deliveries.
ASSUME RouteAssumption ==
  \A f \in Configs : "routed" \in f.transport.kinds => f.transport.keepsRoute

\* A transport that releases in place reports the broker's count, which counts the
\* attempts then (Releaser).
ASSUME ReleaseAssumption ==
  \A f \in Configs : f.transport.release = "inPlace" => f.transport.counts # "none"

ASSUME BoundsAssumption ==
  MaxCopies \in Nat \ {0} /\ MaxDeliveries \in Nat /\ MaxFaults \in Nat

ASSUME MsgAssumption == Msg # {}

VARIABLES
  cfg,         \* the App's options and its transport's capabilities
  at,          \* where each copy is: free, ready, reserved, gone
  copy,        \* the contents of each copy
  pc,          \* what each worker does next with its delivery
  job,         \* the delivery each worker holds
  faults,      \* faults that have happened
  deliveries,  \* history: deliveries of each message
  handled,     \* history: successful handler runs of each message
  dlq,         \* history: records the App wrote to the BabelQueue DLQ
  native,      \* history: moves to the broker's own dead-letter queue
  events       \* history: DeadLetterObserver calls

broker  == <<at, copy>>
history == <<deliveries, handled, dlq, native, events>>
vars    == <<cfg, at, copy, pc, job, faults, deliveries, handled, dlq, native, events>>

Cid == 1..MaxCopies

\* A stored message.  intact: the body still carries what the producer sent.
Copy == [msg : Msg, kind : Kinds, intact : BOOLEAN, attempts : Nat, count : Nat]

\* A delivery: the reservation (c, count) and env.Attempts after the floor.
Job == [c : Cid, count : Nat \ {0}, attempts : Nat]

Steps == {"idle", "handle", "ack", "native", "dlq", "retry", "requeue", "rewind"}

T == cfg.transport

TypeOK ==
  /\ cfg \in Configs
  /\ at \in [Cid -> {"free", "ready", "reserved", "gone"}]
  /\ copy \in [Cid -> Copy]
  /\ pc \in [Worker -> Steps]
  /\ job \in [Worker -> Job]
  /\ faults \in Nat
  /\ deliveries \in [Msg -> Nat]
  /\ handled \in [Msg -> Nat]
  /\ dlq \in [Msg -> Nat]
  /\ native \in [Msg -> Nat]
  /\ events \in [Msg -> Nat]

Zero == [m \in Msg |-> 0]

\* Placeholders: a copy that is free, a delivery no worker holds.
NoCopy == [msg |-> CHOOSE m \in Msg : TRUE, kind |-> "known", intact |-> TRUE,
           attempts |-> 0, count |-> 0]

NoJob == [c |-> 1, count |-> 1, attempts |-> 0]

Init ==
  /\ cfg \in Configs
  /\ at = [c \in Cid |-> "free"]
  /\ copy = [c \in Cid |-> NoCopy]
  /\ pc = [w \in Worker |-> "idle"]
  /\ job = [w \in Worker |-> NoJob]
  /\ faults = 0
  /\ deliveries = Zero /\ handled = Zero /\ dlq = Zero /\ native = Zero /\ events = Zero

-----------------------------------------------------------------------------
(* Routing: what dispatch decides for a delivery, before any call.          *)

\* The App may write to its DLQ for a message no handler will ever own.
DeadLetterWritable == cfg.deadLetter \/ cfg.strategy = "dead_letter"

\* settleVersionGated: never decoded, never retried.
SettleVersionGated ==
  IF cfg.strategy = "delete" THEN "ack"
  ELSE IF DeadLetterWritable THEN "dlq"
  ELSE IF T.native # "none" THEN "native" ELSE "ack"

\* retryOrDeadLetter, with the attempts the envelope carries before the increment.
RetryOrDeadLetter(attempts) ==
  IF attempts + 1 < cfg.maxAttempts THEN "retry"
  ELSE IF cfg.deadLetter THEN "dlq" ELSE "ack"

\* routeUnknown: the unknown-URN strategy.
RouteUnknown(attempts) ==
  IF cfg.strategy = "delete" THEN "ack"
  ELSE IF cfg.strategy = "release" THEN "requeue"
  ELSE IF cfg.strategy = "dead_letter" THEN "dlq" ELSE RetryOrDeadLetter(attempts)

\* Mutant: the poison routes are forgotten, such a body is retried like a known one.
RoutePoisonRetried(attempts) == RetryOrDeadLetter(attempts)

\* Mutant: StrategyRelease also applies to bodies nobody can ever handle.
RoutePoisonReleased(attempts) ==
  IF cfg.strategy # "delete" /\ DeadLetterWritable THEN "dlq"
  ELSE IF cfg.strategy # "delete" /\ T.native # "none" THEN "native"
  ELSE RouteUnknown(attempts)

\* routePoison: an undecodable or identity-less body.
RoutePoison(attempts) ==
  IF cfg.strategy # "delete" /\ DeadLetterWritable THEN "dlq"
  ELSE IF cfg.strategy # "delete" /\ T.native # "none" THEN "native"
  ELSE IF cfg.strategy # "release" THEN RouteUnknown(attempts) ELSE RetryOrDeadLetter(attempts)

\* dispatch, up to the first call it makes.
Dispatch(kind, attempts) ==
  IF kind = "gated" THEN SettleVersionGated
  ELSE IF kind = "poison" THEN "dlq"
  ELSE IF kind \in {"noident", "garbage"} THEN RoutePoison(attempts)
  ELSE IF kind = "unknown" THEN RouteUnknown(attempts) ELSE "handle"

\* The count reaches the App in DeliveryCount, or only inside a body that decodes.
Counted(kind) ==
  T.counts = "all" \/ (T.counts = "decoded" /\ kind \in {"known", "unknown", "routed"})

\* Mutant: the count replaces the attempts, also where the transport reports none.
FloorReplaced(kind, attempts, count) == (IF Counted(kind) THEN count ELSE 0) - 1

\* Mutant: the delivery count is ignored.
FloorIgnored(kind, attempts, count) == attempts

\* The broker's delivery count is a floor for the attempts of the envelope.
Floor(kind, attempts, count) ==
  IF Counted(kind) /\ count > attempts + 1 THEN count - 1 ELSE attempts

-----------------------------------------------------------------------------
(* Calls on the broker.                                                     *)

\* Copies are numbered in the order they are created.
Fresh(c) ==
  /\ at[c] = "free"
  /\ \A x \in Cid : (at[x] # "free") <=> (x < c)

\* The worker's reservation has not lapsed.
Current(w) ==
  /\ at[job[w].c] = "reserved"
  /\ copy[job[w].c].count = job[w].count

MsgOf(w) == copy[job[w].c].msg

\* Add one to m's counter when the condition holds.
Bump(counter, m, condition) ==
  IF condition THEN [counter EXCEPT ![m] = @ + 1] ELSE counter

\* A settling call takes its copy to place, if the reservation is still held.
Settle(w, place) ==
  at' = IF Current(w) THEN [at EXCEPT ![job[w].c] = place] ELSE at

Goto(w, step) == pc' = [pc EXCEPT ![w] = step]

\* A call fails, or its reply is lost.
Fault ==
  /\ faults < MaxFaults
  /\ faults' = faults + 1

NoFault == UNCHANGED faults

\* Mutant: a message whose write failed is acknowledged all the same.
UnsettledAcked == "ack"

\* leaveUnsettled: not acknowledged; handed back when the transport can.
Unsettled == IF T.rewinder # "none" THEN "rewind" ELSE "idle"

\* A producer's message, or one from a foreign producer, reaches the queue.
Publish(m, kind) ==
  \E c \in Cid :
    /\ Fresh(c)
    /\ \A x \in Cid : at[x] # "free" => copy[x].msg # m
    /\ at' = [at EXCEPT ![c] = "ready"]
    /\ copy' = [copy EXCEPT ![c] =
         [msg |-> m, kind |-> kind, intact |-> TRUE, attempts |-> 0, count |-> 0]]
    /\ NoFault
    /\ UNCHANGED <<cfg, pc, job, history>>

\* Consume: Pop reserves a copy and dispatch routes it.
Consume(w, c) ==
  LET n == copy[c].count + 1
      a == Floor(copy[c].kind, copy[c].attempts, n)
  IN /\ pc[w] = "idle"
     /\ at[c] = "ready"
     /\ copy[c].count < MaxDeliveries
     /\ at' = [at EXCEPT ![c] = "reserved"]
     /\ copy' = [copy EXCEPT ![c].count = n]
     /\ job' = [job EXCEPT ![w] = [c |-> c, count |-> n, attempts |-> a]]
     /\ Goto(w, Dispatch(copy[c].kind, a))
     /\ deliveries' = [deliveries EXCEPT ![copy[c].msg] = @ + 1]
     /\ NoFault
     /\ UNCHANGED <<cfg, handled, dlq, native, events>>

\* The handler returns: nil, or an error.
Handle(w) ==
  /\ pc[w] = "handle"
  /\ \/ /\ handled' = [handled EXCEPT ![MsgOf(w)] = @ + 1]
        /\ Goto(w, "ack")
     \/ /\ Goto(w, RetryOrDeadLetter(job[w].attempts))
        /\ UNCHANGED handled
  /\ NoFault
  /\ UNCHANGED <<cfg, broker, job, deliveries, dlq, native, events>>

\* ack: a failure is reported, never retried.
Ack(w) ==
  /\ pc[w] = "ack"
  /\ \/ Settle(w, "gone") /\ NoFault
     \/ UNCHANGED at /\ Fault
  /\ Goto(w, "idle")
  /\ UNCHANGED <<cfg, copy, job, history>>

\* release, on a transport that has it; any error still counts as handled.
Release(w) ==
  /\ pc[w] \in {"retry", "requeue"}
  /\ T.release # "none"
  /\ \/ /\ Settle(w, "ready")
        /\ copy' = IF Current(w) /\ T.release = "rewrite"
                   THEN [copy EXCEPT ![job[w].c].attempts = job[w].attempts + 1]
                   ELSE copy
        /\ NoFault \/ Fault
     \/ UNCHANGED broker /\ Fault
  /\ Goto(w, "idle")
  /\ UNCHANGED <<cfg, job, history>>

\* The body a retry encodes: an undecodable one is an empty envelope, and a routed
\* body keeps its handler only if the route is published with it.
Reencode(kind) ==
  IF kind = "garbage" THEN "noident"
  ELSE IF kind = "routed" /\ ~T.keepsRoute THEN "unknown" ELSE kind

\* republish puts a new copy on the queue on behalf of w's delivery.
Republish(w, attempts) ==
  LET old == copy[job[w].c]
  IN \E c \in Cid :
       /\ Fresh(c)
       /\ at' = [at EXCEPT ![c] = "ready"]
       /\ copy' = [copy EXCEPT ![c] =
            [msg |-> old.msg, kind |-> Reencode(old.kind), attempts |-> attempts, count |-> 0,
             intact |-> old.intact /\ old.kind # "garbage"]]

\* Re-publish and ack, where the transport cannot release in place.
RepublishCopy(w) ==
  /\ pc[w] \in {"retry", "requeue"}
  /\ T.release = "none"
  /\ LET attempts == IF pc[w] = "retry" THEN job[w].attempts + 1 ELSE job[w].attempts
     IN \/ Republish(w, attempts) /\ NoFault /\ Goto(w, "ack")
        \/ Republish(w, attempts) /\ Fault /\ Goto(w, Unsettled)
        \/ UNCHANGED broker /\ Fault /\ Goto(w, Unsettled)
  /\ UNCHANGED <<cfg, job, history>>

\* deadLetterRaw on a DeadLetterer: one gated step that also settles the message.
DeadLetterGated(w) ==
  /\ pc[w] = "dlq"
  /\ T.deadLetterer
  /\ \/ /\ Settle(w, "gone")
        /\ dlq' = Bump(dlq, MsgOf(w), Current(w))
        /\ \/ NoFault /\ events' = Bump(events, MsgOf(w), TRUE) /\ Goto(w, "idle")
           \/ Fault /\ UNCHANGED events /\ Goto(w, Unsettled)
     \/ UNCHANGED <<at, dlq, events>> /\ Fault /\ Goto(w, Unsettled)
  /\ UNCHANGED <<cfg, copy, job, deliveries, handled, native>>

\* Mutant: the observer is called before the outcome of the write is known.
DeadLetterNotifyFirst(w) ==
  /\ pc[w] = "dlq"
  /\ ~T.deadLetterer
  /\ events' = Bump(events, MsgOf(w), TRUE)
  /\ \/ dlq' = Bump(dlq, MsgOf(w), TRUE) /\ NoFault /\ Goto(w, "ack")
     \/ UNCHANGED dlq /\ Fault /\ Goto(w, Unsettled)
  /\ UNCHANGED <<cfg, broker, job, deliveries, handled, native>>

\* deadLetterRaw elsewhere: the record is re-published, the ack follows.
DeadLetterRepublish(w) ==
  /\ pc[w] = "dlq"
  /\ ~T.deadLetterer
  /\ \/ /\ dlq' = Bump(dlq, MsgOf(w), TRUE)
        /\ \/ NoFault /\ events' = Bump(events, MsgOf(w), TRUE) /\ Goto(w, "ack")
           \/ Fault /\ UNCHANGED events /\ Goto(w, Unsettled)
     \/ UNCHANGED <<dlq, events>> /\ Fault /\ Goto(w, Unsettled)
  /\ UNCHANGED <<cfg, broker, job, deliveries, handled, native>>

\* settleNative: nothing (SQS), or an explicit move to the native DLQ (Azure), which
\* the broker refuses when the lock is lost.
SettleNative(w) ==
  LET moved == T.native = "deadLetter" /\ Current(w)
  IN /\ pc[w] = "native"
     /\ \/ /\ at' = IF moved THEN [at EXCEPT ![job[w].c] = "gone"] ELSE at
           /\ native' = Bump(native, MsgOf(w), moved)
           /\ \/ NoFault /\ events' = Bump(events, MsgOf(w), moved)
              \/ moved /\ Fault /\ UNCHANGED events
        \/ T.native = "deadLetter" /\ UNCHANGED <<at, native, events>> /\ Fault
     /\ Goto(w, "idle")
     /\ UNCHANGED <<cfg, copy, job, deliveries, handled, dlq>>

\* Rewind hands the unacknowledged message back; a failure leaves it reserved.  Only
\* the holder of the last count can take it back, so counts still name reservations.
Rewind(w) ==
  /\ pc[w] = "rewind"
  /\ \/ /\ Settle(w, "ready")
        /\ copy' = IF Current(w) /\ T.rewinder = "uncounted"
                   THEN [copy EXCEPT ![job[w].c].count = job[w].count - 1]
                   ELSE copy
        /\ NoFault
     \/ UNCHANGED broker /\ Fault
  /\ Goto(w, "idle")
  /\ UNCHANGED <<cfg, job, history>>

-----------------------------------------------------------------------------
(* The broker and the environment.                                          *)

\* A worker is still working under this copy's reservation.
Held(c) == \E w \in Worker : pc[w] # "idle" /\ job[w].c = c /\ Current(w)

\* The broker gives up on a copy its native limit is reached for.
Exhausted(c) == T.native # "none" /\ copy[c].count >= MaxDeliveries

\* A reservation lapses (visibility, lock, retry_after, connection): an abandoned
\* one always does in the end, one that is being worked on only by a fault.
Lapse(c) ==
  /\ at[c] = "reserved"
  /\ ~Exhausted(c)
  /\ at' = [at EXCEPT ![c] = "ready"]
  /\ IF Held(c) THEN Fault ELSE NoFault
  /\ UNCHANGED <<cfg, copy, pc, job, history>>

\* RedrivePolicy / MaxDeliveryCount: the broker dead-letters on its own.
BrokerDeadLetter(c) ==
  /\ at[c] \in {"ready", "reserved"}
  /\ Exhausted(c)
  /\ at' = [at EXCEPT ![c] = "gone"]
  /\ native' = [native EXCEPT ![copy[c].msg] = @ + 1]
  /\ IF Held(c) THEN Fault ELSE NoFault
  /\ UNCHANGED <<cfg, copy, pc, job, deliveries, handled, dlq, events>>

\* A worker dies between two of its calls.
Crash(w) ==
  /\ pc[w] # "idle"
  /\ Goto(w, "idle")
  /\ Fault
  /\ UNCHANGED <<cfg, broker, job, history>>

Work(w) ==
  \/ \E c \in Cid : Consume(w, c)
  \/ Handle(w)
  \/ Ack(w)
  \/ Release(w)
  \/ RepublishCopy(w)
  \/ DeadLetterGated(w)
  \/ DeadLetterRepublish(w)
  \/ SettleNative(w)
  \/ Rewind(w)

Next ==
  \/ \E m \in Msg : \E kind \in T.kinds : Publish(m, kind)
  \/ \E w \in Worker : Work(w)
  \/ \E c \in Cid : Lapse(c) \/ BrokerDeadLetter(c)
  \/ \E w \in Worker : Crash(w)

Spec == Init /\ [][Next]_vars

\* The loop keeps polling and every call returns; an abandoned reservation ends.
Fairness ==
  /\ \A w \in Worker : WF_vars(Work(w))
  /\ \A c \in Cid : WF_vars((Lapse(c) \/ BrokerDeadLetter(c)) /\ ~Held(c))

FairSpec == Spec /\ Fairness

-----------------------------------------------------------------------------
(* Properties.                                                              *)

Live(c) == at[c] \in {"ready", "reserved"}

\* A handler succeeded, or a record of the message is in a dead-letter queue.
Done(m) == handled[m] > 0 \/ dlq[m] > 0 \/ native[m] > 0

\* What the options allow to disappear after n deliveries: what delete drops, a gated
\* message when there is no DLQ of any kind, and a retried one after maxAttempts.
Droppable(kind, n) ==
  \/ cfg.strategy = "delete" /\ kind \in {"unknown", "noident", "garbage", "gated"}
  \/ kind = "gated" /\ ~DeadLetterWritable /\ T.native = "none"
  \/ /\ ~cfg.deadLetter
     /\ n >= cfg.maxAttempts
     /\ \/ kind \in {"known", "routed"}
        \/ kind = "unknown" /\ cfg.strategy = "fail"
        \/ kind \in {"noident", "garbage"} /\ cfg.strategy \in {"fail", "release"}

MayDrop(c) == Droppable(copy[c].kind, deliveries[copy[c].msg])

\* x still carries the message of c.
Carries(x, c) == Live(x) /\ copy[x].msg = copy[c].msg

(* No message is lost, whatever call fails and whenever a worker dies: a    *)
(* copy is gone only if its message was handled or dead-lettered, if        *)
(* another copy of it is still in the queue, or if the options say it may   *)
(* be dropped (app.go: "Never ack a message whose dead-letter record was    *)
(* not written"; a failed re-publish is not acknowledged).                  *)
NoLoss ==
  \A c \in Cid : at[c] = "gone" =>
    \/ Done(copy[c].msg)
    \/ MayDrop(c)
    \/ \E x \in Cid : Carries(x, c)

(* When a DLQ can be written, no body in the system was replaced by the     *)
(* empty envelope a retry of an undecodable body would publish              *)
(* (routePoison: "a retry could only re-publish an empty envelope and lose  *)
(* the body").                                                              *)
BodyPreserved ==
  DeadLetterWritable => \A c \in Cid : at[c] # "free" => copy[c].intact

\* Where a message ended: handled, or in a dead-letter queue.
Ended(m) == handled[m] + dlq[m] + native[m]

HasHandler(c) == at[c] # "free" /\ copy[c].kind \in {"known", "routed"}

\* The first delivery always happens, WithMaxAttempts bounds the others.
Bounded(c) == deliveries[copy[c].msg] <= 1 \/ deliveries[copy[c].msg] <= cfg.maxAttempts

(* Without faults a message ends at most once, in one place, and one that   *)
(* has a handler is delivered at most WithMaxAttempts times, however many   *)
(* workers compete for it.                                                  *)
FaultFreeOnce ==
  faults = 0 =>
    /\ \A m \in Msg : Ended(m) <= 1
    /\ \A c \in Cid : HasHandler(c) => Bounded(c)

(* Every DeadLetterObserver call stands for a dead-letter that happened     *)
(* ("called once per dead-letter the App itself carried out, after it is    *)
(* confirmed"), on every transport whose dead-letter write is a re-publish, *)
(* or whose native dead-letter fails once the lock is lost: a late settle   *)
(* of a lapsed reservation and a lost reply never produce a call without    *)
(* its dead-letter.  (A gated DeadLetterer answers nil when it missed.)     *)
EventsConfirmedUngated ==
  ~T.deadLetterer => \A m \in Msg : events[m] <= dlq[m] + native[m]

(* Every copy leaves the queue in the end, once faults stop: in-place       *)
(* releases, redeliveries and rewinds do not go round for ever.  Only an    *)
(* unknown URN under StrategyRelease circulates, by design.                 *)
Settles ==
  \A c \in Cid :
    Live(c) /\ ~(cfg.strategy = "release" /\ copy[c].kind = "unknown") ~> at[c] = "gone"

-----------------------------------------------------------------------------
(* The inductive invariant behind NoLoss.                                   *)

\* NoLoss of one copy, with the other copy a later one: following later copies
\* ends, so two workers cannot each drop a copy on account of the other's.
Accounted(c) ==
  \/ Done(copy[c].msg)
  \/ MayDrop(c)
  \/ \E x \in Cid : x > c /\ Carries(x, c)

GoneAccounted == \A c \in Cid : at[c] = "gone" => Accounted(c)

\* A worker about to acknowledge may do so.
AckAccounted == \A w \in Worker : pc[w] = "ack" => Accounted(job[w].c)

\* Retries turn an undecodable body into an identity-less one, nothing else.
SameClass(k, l) == k = l \/ {k, l} \subseteq {"noident", "garbage"}

KindsKept ==
  /\ \A c, x \in Cid :
       at[c] # "free" /\ at[x] # "free" /\ copy[c].msg = copy[x].msg
         => SameClass(copy[c].kind, copy[x].kind)
  /\ \A c \in Cid : at[c] # "free" /\ copy[c].kind = "routed" => T.keepsRoute

\* What a worker's step says about the body it holds.
JobsRouted ==
  \A w \in Worker :
    /\ pc[w] # "idle" => at[job[w].c] # "free"
    /\ pc[w] = "handle" => copy[job[w].c].kind \in {"known", "routed"}
    /\ pc[w] \in {"retry", "requeue"} /\ DeadLetterWritable => copy[job[w].c].kind # "garbage"

\* Attempts and broker counts never run ahead of the deliveries.
AttemptsCounted ==
  /\ \A c \in Cid : at[c] # "free" =>
       copy[c].attempts <= deliveries[copy[c].msg] /\ copy[c].count <= deliveries[copy[c].msg]
  /\ \A w \in Worker : pc[w] # "idle" => job[w].attempts < deliveries[copy[job[w].c].msg]

IInv ==
  /\ TypeOK
  /\ KindsKept
  /\ JobsRouted
  /\ AttemptsCounted
  /\ BodyPreserved
  /\ GoneAccounted
  /\ AckAccounted

-----------------------------------------------------------------------------
(* The inductive invariant behind FaultFreeOnce: what holds before a fault. *)

\* Every worker's reservation is in force, and no other worker's.
HeldCurrent ==
  /\ \A w \in Worker : pc[w] # "idle" => Current(w) /\ pc[w] # "rewind"
  /\ \A w, v \in Worker : w # v /\ pc[w] # "idle" /\ pc[v] # "idle" => job[w].c # job[v].c

\* A copy whose outcome is still open: not one a worker is about to acknowledge.
Open(c) == Live(c) /\ \A w \in Worker : pc[w] = "ack" => job[w].c # c

\* A message has one open copy until it ended.
OneOpen ==
  /\ \A c, x \in Cid : Open(c) /\ Open(x) /\ copy[c].msg = copy[x].msg => c = x
  /\ \A c \in Cid : Open(c) => Ended(copy[c].msg) = 0
  /\ \A m \in Msg : Ended(m) <= 1

\* Nothing happened to a message nobody published.
NothingBefore ==
  \A m \in Msg :
    (\A c \in Cid : at[c] # "free" => copy[c].msg # m) => Ended(m) = 0 /\ deliveries[m] = 0

\* A worker lets go of a message with a handler only by settling it.
HandledHeld ==
  /\ \A c \in Cid : HasHandler(c) /\ at[c] = "reserved"
       => \E w \in Worker : pc[w] # "idle" /\ job[w].c = c
  /\ \A w \in Worker : pc[w] \in {"native", "requeue"} => ~HasHandler(job[w].c)

\* The attempts the next delivery of c will have.
NextAttempts(c) == Floor(copy[c].kind, copy[c].attempts, copy[c].count + 1)

\* No delivery goes uncounted, so the limit is noticed.
DeliveriesCounted ==
  /\ T.release = "inPlace" => \A c \in Cid : at[c] # "free" => copy[c].attempts = 0
  /\ \A c \in Cid : HasHandler(c) => Bounded(c)
  /\ \A c \in Cid : HasHandler(c) /\ at[c] = "ready" =>
       /\ deliveries[copy[c].msg] <= NextAttempts(c)
       /\ deliveries[copy[c].msg] = 0 \/ NextAttempts(c) < cfg.maxAttempts
  /\ \A w \in Worker : pc[w] \in {"handle", "retry"} /\ HasHandler(job[w].c) =>
       /\ job[w].attempts = Floor(copy[job[w].c].kind, copy[job[w].c].attempts, job[w].count)
       /\ deliveries[MsgOf(w)] <= job[w].attempts + 1
       /\ pc[w] = "retry" => job[w].attempts + 1 < cfg.maxAttempts

Quiet == HeldCurrent /\ OneOpen /\ NothingBefore /\ HandledHeld /\ DeliveriesCounted

FaultFree == faults = 0 => Quiet
=============================================================================
