---------------------------- MODULE RedisLaravel ----------------------------
(***************************************************************************)
(* The Laravel layout of the redis transport: the ready list, the delayed  *)
(* and reserved sorted sets and the notify list, shared by consumers that  *)
(* poll (migrate delayed, migrate reserved, reserve, wait) and settle as   *)
(* the App tells them.  Members of a sorted set are bytes: equal members   *)
(* are one member, and a reservation is recognised by its bytes alone.     *)
(***************************************************************************)
EXTENDS Naturals, Sequences, FiniteSets, FiniteSetsExt, SortedSets

CONSTANTS
  Consumer,
  MayNull,           \* consumers that may be built with WithoutRetryAfter
  Unreliable,        \* consumers that may die for good
  Msg,
  Raw,               \* messages whose body cjson cannot decode or re-encode
  Lenient,           \* messages cjson accepts and the SDK's Decode rejects
  Never,             \* the score +inf
  RetryAfter,        \* the reservation window, whole seconds
  Delay,             \* the delay of a release, whole seconds
  Batch,             \* WithMigrationBatchSize; 0 stands for -1, all
  MaxAttempts,       \* the App's WithMaxAttempts
  MaxPublished,      \* bound: publishes, of all messages together
  MaxReservations,   \* bound: reservations
  MaxClock           \* bound: seconds that pass

ASSUME ConsumersAssumption == MayNull \subseteq Consumer /\ Unreliable \subseteq Consumer

ASSUME MsgAssumption ==
  Msg # {} /\ Raw \subseteq Msg /\ Lenient \subseteq Msg /\ Raw \cap Lenient = {}

ASSUME LimitsAssumption ==
  /\ RetryAfter \in Nat /\ Delay \in Nat /\ Batch \in Nat /\ MaxAttempts \in Nat
  /\ MaxPublished \in Nat /\ MaxReservations \in Nat /\ MaxClock \in Nat

ASSUME NeverAssumption ==
  Never \in Nat /\ MaxClock + RetryAfter < Never /\ MaxClock + Delay < Never

\* A body: its message, its attempts and which codec wrote its bytes.
Body == [msg : Msg, attempts : Nat, by : {"sdk", "cjson"}]

VARIABLES
  nullRetry,   \* consumers built with WithoutRetryAfter, chosen once
  ready,       \* the list <prefix><queue>
  delayed,     \* the sorted set :delayed
  reserved,    \* the sorted set :reserved
  notify,      \* the length of the list :notify
  pc,          \* idle, migrate, reserve, wait, working, ack, down
  pinned,      \* the clock reading of the consumer's current poll
  job,         \* the handle {job, reserved} the consumer works on
  now,         \* the time, in whole seconds
  drawn,       \* how many reservations were made
  published,   \* history: publishes of each message
  handled,     \* history: successful handler runs
  dlq,         \* history: dead-letter records written
  recovered    \* history: an expired reservation was made ready again

vars == <<nullRetry, ready, delayed, reserved, notify, pc, pinned, job, now, drawn,
          published, handled, dlq, recovered>>
keys     == <<ready, delayed, reserved, notify>>
outcomes == <<published, handled, dlq, recovered>>

Zero == [m \in Msg |-> 0]

NoBody == [msg |-> CHOOSE m \in Msg : TRUE, attempts |-> 0, by |-> "sdk"]

NoJob == [head |-> NoBody, member |-> NoBody]

Init ==
  /\ nullRetry \in SUBSET MayNull
  /\ ready = <<>> /\ delayed = {} /\ reserved = {} /\ notify = 0
  /\ pc = [c \in Consumer |-> "idle"]
  /\ pinned = [c \in Consumer |-> 0]
  /\ job = [c \in Consumer |-> NoJob]
  /\ now = 0 /\ drawn = 0
  /\ published = Zero /\ handled = Zero /\ dlq = Zero
  /\ recovered = FALSE

Goto(c, step) == pc' = [pc EXCEPT ![c] = step]

-----------------------------------------------------------------------------
(* Producers and time.                                                      *)

\* Room within the bound for one more publish.
Unpublished == MapThenSumSet(LAMBDA m : published[m], Msg) < MaxPublished

\* Publish or PublishWithHeaders, which drops the headers here: pushScript.
Publish(m) ==
  /\ Unpublished
  /\ ready' = Append(ready, [msg |-> m, attempts |-> 0, by |-> "sdk"])
  /\ notify' = notify + 1
  /\ published' = [published EXCEPT ![m] = @ + 1]
  /\ UNCHANGED <<nullRetry, delayed, reserved, pc, pinned, job, now, drawn, handled, dlq,
                 recovered>>

\* ZADD: a member that is there only gets the new score.
ZAdd(zset, e) == {x \in zset : x.member # e.member} \cup {e}

\* PublishDelayed: no notify token, the migrate writes one.
PublishDelayed(m) ==
  /\ Unpublished
  /\ delayed' = ZAdd(delayed, [member |-> [msg |-> m, attempts |-> 0, by |-> "sdk"],
                               score |-> now + Delay])
  /\ published' = [published EXCEPT ![m] = @ + 1]
  /\ UNCHANGED <<nullRetry, ready, reserved, notify, pc, pinned, job, now, drawn, handled, dlq,
                 recovered>>

Tick ==
  /\ now < MaxClock
  /\ now' = now + 1
  /\ UNCHANGED <<nullRetry, keys, pc, pinned, job, drawn, outcomes>>

-----------------------------------------------------------------------------
(* Pop: migrate both sets, reserve, wait, at one reading of the clock.      *)

\* migrateScript pushes what it takes, with a notify token each.
Pushed(s) ==
  /\ ready' = ready \o [i \in 1..Len(s) |-> s[i].member]
  /\ notify' = notify + Len(s)

\* Mutant: the members are pushed and not removed.
MigrateDelayedKept(c) ==
  /\ pc[c] = "idle"
  /\ pinned' = [pinned EXCEPT ![c] = now]
  /\ \E s \in ZRangeByScore(delayed, now, Batch) : Pushed(s)
  /\ Goto(c, "migrate")
  /\ UNCHANGED <<nullRetry, delayed, reserved, job, now, drawn, outcomes>>

MigrateDelayed(c) ==
  /\ pc[c] = "idle"
  /\ pinned' = [pinned EXCEPT ![c] = now]
  /\ \E s \in ZRangeByScore(delayed, now, Batch) :
       /\ Pushed(s)
       /\ delayed' = delayed \ {s[i] : i \in 1..Len(s)}
  /\ Goto(c, "migrate")
  /\ UNCHANGED <<nullRetry, reserved, job, now, drawn, outcomes>>

\* Mutant: a batch is pushed, everything due is removed.
MigrateReservedAll(c) ==
  /\ pc[c] = "migrate"
  /\ \/ /\ c \in nullRetry
        /\ UNCHANGED <<keys, recovered>>
     \/ /\ c \notin nullRetry
        /\ \E s \in ZRangeByScore(reserved, pinned[c], Batch) :
             /\ Pushed(s)
             /\ reserved' = reserved \ Due(reserved, pinned[c])
             /\ recovered' = (recovered \/ Len(s) > 0)
        /\ UNCHANGED delayed
  /\ Goto(c, "reserve")
  /\ UNCHANGED <<nullRetry, pinned, job, now, drawn, published, handled, dlq>>

\* Skipped when retry_after is null.
MigrateReserved(c) ==
  /\ pc[c] = "migrate"
  /\ \/ /\ c \in nullRetry
        /\ UNCHANGED <<keys, recovered>>
     \/ /\ c \notin nullRetry
        /\ \E s \in ZRangeByScore(reserved, pinned[c], Batch) :
             /\ Pushed(s)
             /\ reserved' = reserved \ {s[i] : i \in 1..Len(s)}
             /\ recovered' = (recovered \/ Len(s) > 0)
        /\ UNCHANGED delayed
  /\ Goto(c, "reserve")
  /\ UNCHANGED <<nullRetry, pinned, job, now, drawn, published, handled, dlq>>

DeadlineArg(c) == IF c \in nullRetry THEN Never ELSE pinned[c] + RetryAfter

\* A body encoded again with one more attempt.
Advance(body, codec) == [msg |-> body.msg, attempts |-> body.attempts + 1, by |-> codec]

\* A raw body is reserved as it is; any other is re-encoded with attempts + 1.
Reencoded(body) ==
  IF body.msg \in Raw THEN body
  ELSE Advance(body, "cjson")

\* reserveScript: LPOP the head, ZADD the member, take a notify token unless raw.
Reserve(c) ==
  /\ pc[c] = "reserve"
  /\ Len(ready) > 0 /\ drawn < MaxReservations
  /\ LET body == Head(ready)
         r    == [head |-> body, member |-> Reencoded(body)]
     IN /\ reserved' = ZAdd(reserved,
             [member |-> r.member, score |-> DeadlineArg(c)])
        /\ job' = [job EXCEPT ![c] = r]
        /\ notify' = IF body.msg \in Raw \/ notify = 0 THEN notify ELSE notify - 1
  /\ ready' = Tail(ready)
  /\ drawn' = drawn + 1
  /\ Goto(c, "working")
  /\ UNCHANGED <<nullRetry, delayed, pinned, now, outcomes>>

\* The queue is empty (or the bound on reservations is reached).
ReserveEmpty(c) ==
  /\ pc[c] = "reserve"
  /\ Len(ready) = 0 \/ drawn >= MaxReservations
  /\ Goto(c, "wait")
  /\ UNCHANGED <<nullRetry, keys, pinned, job, now, drawn, outcomes>>

\* Mutant: the wait ends only with a notify token.
WakeNotified(c) ==
  /\ pc[c] = "wait"
  /\ notify > 0
  /\ notify' = notify - 1
  /\ Goto(c, "idle")
  /\ UNCHANGED <<nullRetry, ready, delayed, reserved, pinned, job, now, drawn, outcomes>>

\* BLPOP takes a notify token; the slice of at most a second ends without one too.
Wake(c) ==
  /\ pc[c] = "wait"
  /\ notify' \in {notify, IF notify > 0 THEN notify - 1 ELSE 0}
  /\ Goto(c, "idle")
  /\ UNCHANGED <<nullRetry, ready, delayed, reserved, pinned, job, now, drawn, outcomes>>

-----------------------------------------------------------------------------
(* Settling.                                                                *)

Mine(c) == {e \in reserved : e.member = job[c].member}

\* isPoisonHead: only ever dead-lettered.
Poison(c) == job[c].head.msg \in Raw \cup Lenient

\* The handler succeeds.
Handle(c) ==
  /\ pc[c] = "working"
  /\ ~Poison(c)
  /\ handled' = [handled EXCEPT ![job[c].head.msg] = @ + 1]
  /\ Goto(c, "ack")
  /\ UNCHANGED <<nullRetry, keys, pinned, job, now, drawn, published, dlq, recovered>>

\* Ack: ZREM of the member.
Ack(c) ==
  /\ pc[c] = "ack"
  /\ reserved' = reserved \ Mine(c)
  /\ Goto(c, "idle")
  /\ UNCHANGED <<nullRetry, ready, delayed, notify, pinned, job, now, drawn, outcomes>>

\* Mutant: the reserved body, which counts this attempt already, is advanced again.
ReleaseReserved(c) ==
  /\ pc[c] = "working"
  /\ ~Poison(c) /\ job[c].head.attempts + 1 < MaxAttempts
  /\ reserved' = reserved \ Mine(c)
  /\ delayed' = ZAdd(delayed,
       [member |-> Advance(job[c].member, "sdk"), score |-> now + Delay])
  /\ Goto(c, "idle")
  /\ UNCHANGED <<nullRetry, ready, notify, pinned, job, now, drawn, outcomes>>

\* The handler fails and attempts are left.  releaseScript: ZREM, then ZADD of the
\* body the SDK encodes, whether or not ZREM found the member.
Release(c) ==
  /\ pc[c] = "working"
  /\ ~Poison(c) /\ job[c].head.attempts + 1 < MaxAttempts
  /\ reserved' = reserved \ Mine(c)
  /\ delayed' = ZAdd(delayed,
       [member |-> Advance(job[c].head, "sdk"), score |-> now + Delay])
  /\ Goto(c, "idle")
  /\ UNCHANGED <<nullRetry, ready, notify, pinned, job, now, drawn, outcomes>>

\* Poison, or no attempts left.  zsetDeadLetterScript: the record is written only if
\* ZREM found the member.
DeadLetter(c) ==
  /\ pc[c] = "working"
  /\ Poison(c) \/ job[c].head.attempts + 1 >= MaxAttempts
  /\ reserved' = reserved \ Mine(c)
  /\ dlq' = IF Mine(c) = {} THEN dlq ELSE [dlq EXCEPT ![job[c].head.msg] = @ + 1]
  /\ Goto(c, "idle")
  /\ UNCHANGED <<nullRetry, ready, delayed, notify, pinned, job, now, drawn, published, handled,
                 recovered>>

\* The process dies, or a call fails before it reaches redis.
Abandon(c) ==
  /\ pc[c] \notin {"idle", "down"}
  /\ \/ Goto(c, "idle")
     \/ c \in Unreliable /\ Goto(c, "down")
  /\ UNCHANGED <<nullRetry, keys, pinned, job, now, drawn, outcomes>>

Poll(c) == MigrateDelayed(c) \/ MigrateReserved(c) \/ Reserve(c) \/ ReserveEmpty(c) \/ Wake(c)

Finish(c) == Handle(c) \/ Ack(c) \/ Release(c) \/ DeadLetter(c)

Next ==
  \/ \E m \in Msg : Publish(m) \/ PublishDelayed(m)
  \/ Tick
  \/ \E c \in Consumer : Poll(c) \/ Finish(c) \/ Abandon(c)

Spec == Init /\ [][Next]_vars

\* Time passes; a consumer that is up keeps polling, its handler returns, and not
\* every one of its polls fails between the two migrations.
Fairness ==
  /\ WF_vars(Tick)
  /\ \A c \in Consumer :
       WF_vars(Poll(c)) /\ SF_vars(MigrateReserved(c)) /\ WF_vars(Finish(c))

FairSpec == Spec /\ Fairness

-----------------------------------------------------------------------------
(* Properties.                                                              *)

TypeOK ==
  /\ nullRetry \subseteq Consumer
  /\ ready \in Seq(Body)
  /\ \A e \in delayed : e.member \in Body /\ e.score \in Nat
  /\ \A e \in reserved : e.member \in Body /\ e.score \in Nat
  /\ \A e \in delayed \cup reserved : e.member.attempts <= drawn
  /\ notify \in Nat
  /\ \A c \in Consumer : job[c].head \in Body /\ job[c].member \in Body
  /\ now \in 0..MaxClock /\ drawn \in 0..MaxReservations

Stored(m) ==
  \/ \E i \in 1..Len(ready) : ready[i].msg = m
  \/ \E e \in delayed \cup reserved : e.member.msg = m

(* No message is lost: what was published is in one of the three keys until *)
(* a handler succeeded or a dead-letter record was written, although acks   *)
(* are not gated, equal members merge, releases and migrations interleave   *)
(* and consumers die.                                                       *)
NoLoss == \A m \in Msg : published[m] > 0 => Stored(m) \/ handled[m] + dlq[m] > 0

(* As long as no reservation expired, each publish ends at most once, in    *)
(* one place: duplicates come from recovery alone.                          *)
OnceUnlessRecovered ==
  ~recovered => \A m \in Msg : handled[m] + dlq[m] <= published[m]

\* Someone who stays up migrates expired reservations.
Watched == Consumer \ (Unreliable \cup nullRetry) # {}

Overdue(m) ==
  \E e \in delayed \cup (IF Watched THEN reserved ELSE {}) : e.member.msg = m /\ e.score <= now

(* A member whose time has come leaves its sorted set, although no notify   *)
(* token announces it and other consumers may be dead ("a message that      *)
(* falls due during a wait is delivered within one slice"); an expired      *)
(* reservation waits for a consumer that was not built without retry_after. *)
DueMigrated == \A m \in Msg : Overdue(m) ~> ~Overdue(m)

-----------------------------------------------------------------------------
(* The inductive invariants behind TypeOK, NoLoss and OnceUnlessRecovered.  *)

Step == {"idle", "migrate", "reserve", "wait", "working", "ack", "down"}

\* The state TypeOK does not speak of.
Shape ==
  /\ pc \in [Consumer -> Step]
  /\ pinned \in [Consumer -> Nat]
  /\ job \in [Consumer -> [head : Body, member : Body]]
  /\ published \in [Msg -> Nat] /\ handled \in [Msg -> Nat] /\ dlq \in [Msg -> Nat]
  /\ recovered \in BOOLEAN
  /\ IsFiniteSet(delayed) /\ IsFiniteSet(reserved)

\* Every attempt a waiting or a worked-on body counts was a reservation.
AttemptsDrawn ==
  /\ \A i \in 1..Len(ready) : ready[i].attempts <= drawn
  /\ \A c \in Consumer : pc[c] = "working" => job[c].head.attempts < drawn

\* A handle's two bodies are of one message, and an ack follows a success.
Jobs ==
  /\ \A c \in Consumer : job[c].member.msg = job[c].head.msg
  /\ \A c \in Consumer : pc[c] = "ack" => handled[job[c].head.msg] > 0

TypeInv == TypeOK /\ Shape /\ AttemptsDrawn /\ Jobs

Kind(m) == {b \in Body : b.msg = m}

\* Where a copy of m may still end from: the ready list, the delayed set, a worker.
ReadyOf(m)   == {i \in 1..Len(ready) : ready[i] \in Kind(m)}
DelayedOf(m) == {e \in delayed : e.member \in Kind(m)}
WorkersOf(m) == {c \in Consumer : pc[c] = "working" /\ job[c].head.msg = m}

InPlay(m) == Cardinality(ReadyOf(m)) + Cardinality(DelayedOf(m)) + Cardinality(WorkersOf(m))

\* While nothing was recovered, a copy in play or ended was published.
OnceInv ==
  /\ \A m \in Msg : IsFiniteSet(WorkersOf(m))
  /\ ~recovered => \A m \in Msg : handled[m] + dlq[m] + InPlay(m) <= published[m]
=============================================================================
