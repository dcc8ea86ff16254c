----------------------------- MODULE Reinjector -----------------------------
(***************************************************************************)
(* Kafka's delayed delivery: retry.go parks a record in the retry topic of *)
(* a tier, and the Reinjector of reinject.go carries it back to its work   *)
(* topic.  One fetch loop per retry topic feeds one worker per partition   *)
(* through a bounded channel; a worker waits, writes and commits.          *)
(*                                                                         *)
(* Time is relative: a record keeps the time since it was written, up to   *)
(* the age at which no wait is left whatever its timestamp says.           *)
(***************************************************************************)
EXTENDS Integers, Sequences, FiniteSets

CONSTANTS
  Tiers,       \* WithRetryTiers: the delay of each tier, ascending
  Partitions,  \* the partitions of each tier's retry topic
  Delays,      \* the delays callers ask for
  Leads,       \* how far a producer's clock may be ahead of the broker's
  Depth,       \* reinjectQueueDepth
  MaxAge,      \* bound: the age at which no wait is left
  MaxRecords,  \* bound: parked records
  MaxFaults    \* bound: wrong clocks, failed calls, lost replies, rebalances, stops, crashes

Tier == 1..Len(Tiers)

\* A partition of a retry topic: the unit that is carried in order.
Lane == UNION {{t} \X Partitions[t] : t \in Tier}

ASSUME TiersAssumption ==
  /\ Tiers \in Seq(Nat \ {0}) /\ Tiers # <<>>
  /\ \A i, j \in Tier : i < j => Tiers[i] <= Tiers[j]

ASSUME DelaysAssumption == Delays \subseteq Nat /\ Leads \subseteq Int /\ 0 \in Leads

ASSUME AgeAssumption ==
  MaxAge \in Nat /\ \A t \in Tier, lead \in Leads : Tiers[t] + lead <= MaxAge

ASSUME ReinjectorBounds == Depth \in Nat \ {0} /\ MaxRecords \in Nat /\ MaxFaults \in Nat

VARIABLES
  log,        \* the records of each lane
  committed,  \* the next offset the group reads after a restart
  pos,        \* the next offset the reader fetches
  hand,       \* the record a fetch loop is sending to a worker's channel
  chan,       \* the channel of each partition worker
  worker,     \* what each partition worker does, with which offset
  run,        \* the state of Reinjector.Run
  carried,    \* history: offsets whose record was written to the work topic
  faults      \* faults that have happened

vars == <<log, committed, pos, hand, chan, worker, run, carried, faults>>

\* delay: what the caller asked for; lead: record.timestamp minus the time of the write.
Record == [delay : Nat, lead : Leads, age : 0..MaxAge]

WorkerState == [step : {"idle", "carry", "commit"}, o : Nat, left : Nat]

Idle == [step |-> "idle", o |-> 0, left |-> 0]

TypeOK ==
  /\ log \in [Lane -> Seq(Record)]
  /\ committed \in [Lane -> Nat] /\ pos \in [Lane -> Nat]
  /\ \A l \in Lane : committed[l] \in 1..Len(log[l]) + 1 /\ pos[l] \in 1..Len(log[l]) + 1
  /\ hand \in [Tier -> Seq(Lane \X Nat)]
  /\ chan \in [Lane -> Seq(Nat)]
  /\ worker \in [Lane -> WorkerState]
  /\ run \in {"running", "stopping", "stopped"}
  /\ carried \in [Lane -> SUBSET Nat]
  /\ faults \in Nat

Init ==
  /\ log = [l \in Lane |-> <<>>]
  /\ committed = [l \in Lane |-> 1]
  /\ pos = [l \in Lane |-> 1]
  /\ hand = [t \in Tier |-> <<>>]
  /\ chan = [l \in Lane |-> <<>>]
  /\ worker = [l \in Lane |-> Idle]
  /\ run = "running"
  /\ carried = [l \in Lane |-> {}]
  /\ faults = 0

Fault ==
  /\ faults < MaxFaults
  /\ faults' = faults + 1

NoFault == UNCHANGED faults

-----------------------------------------------------------------------------
(* The publish side.                                                        *)

\* Mutant: the largest tier that is not above the delay.
RetryTopicForBelow(delay, t) ==
  /\ Tiers[t] <= delay
  /\ \A u \in Tier : Tiers[u] <= delay => u <= t

\* retryTopicFor: the smallest tier that covers the delay; none if it exceeds them all.
RetryTopicFor(delay, t) ==
  /\ Tiers[t] >= delay
  /\ \A u \in 1..t - 1 : Tiers[u] < delay

\* retryTierForAttempt: tier min(attempts, N - 1) + 1.
RetryTierForAttempt(attempts) ==
  IF attempts > Len(Tiers) - 1 THEN Len(Tiers) ELSE attempts + 1

\* retryRecord: the timestamp is the publish time by the producer's clock.
Park(l, delay, lead) ==
  /\ Cardinality(UNION {{l2} \X DOMAIN log[l2] : l2 \in Lane}) < MaxRecords
  /\ log' = [log EXCEPT ![l] = Append(@, [delay |-> delay, lead |-> lead, age |-> 0])]
  /\ IF lead = 0 THEN NoFault ELSE Fault
  /\ UNCHANGED <<committed, pos, hand, chan, worker, run, carried>>

\* PublishDelayed and PublishRetry.
PublishDelayed(l, delay, lead) ==
  /\ RetryTopicFor(delay, l[1])
  /\ Park(l, delay, lead)

\* PublishRetryForAttempt: the delay is the tier's own.
PublishRetryForAttempt(l, attempts, lead) ==
  /\ l[1] = RetryTierForAttempt(attempts)
  /\ Park(l, Tiers[l[1]], lead)

-----------------------------------------------------------------------------
(* The fetch loop and the partition workers.                                *)

\* Mutant: one record too many.
FetchPast(l) ==
  /\ run = "running"
  /\ hand[l[1]] = <<>>
  /\ pos[l] <= Len(log[l]) + 1
  /\ hand' = [hand EXCEPT ![l[1]] = <<<<l, pos[l]>>>>]
  /\ pos' = [pos EXCEPT ![l] = @ + 1]
  /\ NoFault
  /\ UNCHANGED <<log, committed, chan, worker, run, carried>>

\* consumeTier: FetchMessage returns the next record of one of the partitions.
Fetch(l) ==
  /\ run = "running"
  /\ hand[l[1]] = <<>>
  /\ pos[l] <= Len(log[l])
  /\ hand' = [hand EXCEPT ![l[1]] = <<<<l, pos[l]>>>>]
  /\ pos' = [pos EXCEPT ![l] = @ + 1]
  /\ NoFault
  /\ UNCHANGED <<log, committed, chan, worker, run, carried>>

\* Mutant: off by one at the bound of the channel.
EnqueueBelow(t) ==
  /\ run = "running"
  /\ hand[t] # <<>>
  /\ LET l == Head(hand[t])[1]
     IN /\ Len(chan[l]) < Depth - 1
        /\ chan' = [chan EXCEPT ![l] = Append(@, Head(hand[t])[2])]
  /\ hand' = [hand EXCEPT ![t] = <<>>]
  /\ NoFault
  /\ UNCHANGED <<log, committed, pos, worker, run, carried>>

\* The record goes to its worker's channel; the loop blocks while that is full.
Enqueue(t) ==
  /\ run = "running"
  /\ hand[t] # <<>>
  /\ LET l == Head(hand[t])[1]
     IN /\ Len(chan[l]) < Depth
        /\ chan' = [chan EXCEPT ![l] = Append(@, Head(hand[t])[2])]
  /\ hand' = [hand EXCEPT ![t] = <<>>]
  /\ NoFault
  /\ UNCHANGED <<log, committed, pos, worker, run, carried>>

\* Mutant: the wait has no upper bound.
WaitForUnclamped(record, tier) ==
  LET left == tier + record.lead - record.age
  IN IF left < 0 THEN 0 ELSE left

\* waitFor: until timestamp + tier, clamped to [now, now + tier].
WaitFor(record, tier) ==
  LET left == tier + record.lead - record.age
  IN IF left < 0 THEN 0 ELSE IF left > tier THEN tier ELSE left

\* partitionWorker: the next record of the channel, and its wait.
Take(l) ==
  /\ run = "running"
  /\ worker[l].step = "idle" /\ chan[l] # <<>>
  /\ LET o == Head(chan[l])
     IN worker' = [worker EXCEPT ![l] =
          [step |-> "carry", o |-> o, left |-> WaitFor(log[l][o], Tiers[l[1]])]]
  /\ chan' = [chan EXCEPT ![l] = Tail(@)]
  /\ NoFault
  /\ UNCHANGED <<log, committed, pos, hand, run, carried>>

\* The sleep of the record's wait is over.
Awake(l) == worker[l].step = "carry" /\ worker[l].left = 0

Stored(l) == carried' = [carried EXCEPT ![l] = @ \cup {worker[l].o}]

\* Mutant: a record whose write failed is committed all the same.
WriteOnce(l) ==
  /\ Awake(l)
  /\ \/ Stored(l) /\ NoFault
     \/ UNCHANGED carried /\ Fault
  /\ worker' = [worker EXCEPT ![l].step = "commit"]
  /\ UNCHANGED <<log, committed, pos, hand, chan, run>>

\* Mutant: the worker goes on to the next record when a write fails.
WriteSkips(l) ==
  /\ Awake(l)
  /\ \/ Stored(l) /\ NoFault /\ worker' = [worker EXCEPT ![l].step = "commit"]
     \/ UNCHANGED carried /\ Fault /\ worker' = [worker EXCEPT ![l] = Idle]
  /\ UNCHANGED <<log, committed, pos, hand, chan, run>>

\* retryUntilDone of the write: repeated until it is acknowledged.
Write(l) ==
  /\ Awake(l)
  /\ \/ Stored(l) /\ NoFault /\ worker' = [worker EXCEPT ![l].step = "commit"]
     \/ Stored(l) /\ Fault /\ UNCHANGED worker
     \/ UNCHANGED <<carried, worker>> /\ Fault
  /\ UNCHANGED <<log, committed, pos, hand, chan, run>>

\* retryUntilDone of the commit, which is cumulative in the lane.
Commit(l) ==
  /\ worker[l].step = "commit"
  /\ \/ /\ committed' = [committed EXCEPT ![l] = worker[l].o + 1]
        /\ \/ NoFault /\ worker' = [worker EXCEPT ![l] = Idle]
           \/ Fault /\ UNCHANGED worker
     \/ UNCHANGED <<committed, worker>> /\ Fault
  /\ UNCHANGED <<log, pos, hand, chan, run, carried>>

-----------------------------------------------------------------------------
(* Cancellation, failure and the environment.                               *)

\* ctx is cancelled, or a reader fails: every fetch loop of the Run returns.
Cancel ==
  /\ run = "running"
  /\ run' = "stopping"
  /\ Fault
  /\ UNCHANGED <<log, committed, pos, hand, chan, worker, carried>>

\* A worker sees the cancellation, in its sleep or between two calls.
WorkerReturns(l) ==
  /\ run = "stopping"
  /\ worker[l] # Idle
  /\ worker' = [worker EXCEPT ![l] = Idle]
  /\ NoFault
  /\ UNCHANGED <<log, committed, pos, hand, chan, run, carried>>

\* What was fetched and not committed is forgotten.
Forget ==
  /\ hand' = [t \in Tier |-> <<>>]
  /\ chan' = [l \in Lane |-> <<>>]
  /\ worker' = [l \in Lane |-> Idle]

\* Run returns once every worker has.
RunReturns ==
  /\ run = "stopping"
  /\ \A l \in Lane : worker[l] = Idle
  /\ run' = "stopped"
  /\ Forget
  /\ NoFault
  /\ UNCHANGED <<log, committed, pos, carried>>

\* The process dies.
Crash ==
  /\ run = "running"
  /\ run' = "stopped"
  /\ Forget
  /\ Fault
  /\ UNCHANGED <<log, committed, pos, carried>>

\* The next Run: new readers, which resume at the committed offsets.
Restart ==
  /\ run = "stopped"
  /\ run' = "running"
  /\ pos' = committed
  /\ NoFault
  /\ UNCHANGED <<log, committed, hand, chan, worker, carried>>

\* The lane is taken away and given back: the reader resumes at the committed
\* offset, the worker still has what it was sent.
Rebalance(l) ==
  /\ run = "running"
  /\ pos' = [pos EXCEPT ![l] = committed[l]]
  /\ Fault
  /\ UNCHANGED <<log, committed, hand, chan, worker, run, carried>>

Older(record) == [record EXCEPT !.age = IF @ < MaxAge THEN @ + 1 ELSE @]

\* Time passes.
Tick ==
  /\ log' = [l \in Lane |-> [o \in DOMAIN log[l] |-> Older(log[l][o])]]
  /\ worker' = [l \in Lane |->
       [worker[l] EXCEPT !.left = IF @ > 0 THEN @ - 1 ELSE 0]]
  /\ <<log, worker>>' # <<log, worker>>
  /\ NoFault
  /\ UNCHANGED <<committed, pos, hand, chan, run, carried>>

Next ==
  \/ \E l \in Lane, lead \in Leads :
       \/ \E delay \in Delays : PublishDelayed(l, delay, lead)
       \/ \E attempts \in 0..Len(Tiers) : PublishRetryForAttempt(l, attempts, lead)
  \/ \E l \in Lane :
       \/ Fetch(l) \/ Take(l) \/ Write(l) \/ Commit(l)
       \/ WorkerReturns(l) \/ Rebalance(l)
  \/ \E t \in Tier : Enqueue(t)
  \/ Cancel \/ RunReturns \/ Crash \/ Restart \/ Tick

Spec == Init /\ [][Next]_vars

\* Goroutines run, calls return, time passes, and a deployment keeps a Reinjector
\* running ("a deployment that configures WithRetryTiers MUST run one").
Fairness ==
  /\ \A l \in Lane :
       /\ SF_vars(Fetch(l))
       /\ WF_vars(Take(l) \/ Write(l) \/ Commit(l))
       /\ WF_vars(WorkerReturns(l))
  /\ \A t \in Tier : WF_vars(Enqueue(t))
  /\ WF_vars(RunReturns) /\ WF_vars(Restart) /\ WF_vars(Tick)

FairSpec == Spec /\ Fairness

-----------------------------------------------------------------------------
(* Properties.                                                              *)

(* A commit never passes a record that was not written back to its work     *)
(* topic, whatever was buffered when a run was cancelled, crashed or lost   *)
(* the partition (partitionWorker: "Commit only after the broker            *)
(* acknowledged the write").                                                *)
CommittedCarried == \A l \in Lane : \A o \in 1..committed[l] - 1 : o \in carried[l]

(* Records of one partition are carried in offset order: none is written    *)
(* back before an earlier one of its lane was.                              *)
InOrder == \A l \in Lane : \A o \in carried[l] : \A x \in 1..o - 1 : x \in carried[l]

(* A record is not written back before the delay its caller asked for has   *)
(* passed, from the tier retryTopicFor picks to the wait waitFor computes:  *)
(* only a producer clock that is behind shortens the wait.                  *)
NotEarly ==
  \A l \in Lane : \A o \in carried[l] :
    log[l][o].lead >= 0 => log[l][o].age >= log[l][o].delay

(* No delay is stretched without bound (waitFor's clamp): what a worker has *)
(* still to sleep is at most its tier, however far ahead the producer's     *)
(* clock was, and ends with the tier that began when the record was written *)
(* unless that clock was ahead.                                             *)
NotStretched ==
  \A l \in Lane : worker[l].step = "carry" /\ worker[l].left > 0 =>
    LET record == log[l][worker[l].o]
    IN /\ worker[l].left <= Tiers[l[1]]
       /\ record.lead <= 0 => record.age + worker[l].left <= Tiers[l[1]]

(* Once producers stop, everything that was parked is carried back: a full  *)
(* channel of one partition, a sleeping worker, failed calls, rebalances,   *)
(* stale commits and restarts delay the others, none stops them.            *)
Carried == []<>(\A l \in Lane : carried[l] = DOMAIN log[l])

-----------------------------------------------------------------------------
(* The inductive invariant.  Offsets pass the reader, the hand of the fetch *)
(* loop, the channel and the worker in this order, and a rebalance may send *)
(* some of them through again: whatever comes before an offset was carried  *)
(* or is in front of it.                                                    *)

\* Offsets in flight refer to records of their lane.
InFlight ==
  /\ \A l \in Lane :
       /\ worker[l].step # "idle" => worker[l].o \in 1..Len(log[l])
       /\ \A i \in 1..Len(chan[l]) : chan[l][i] \in 1..Len(log[l])
       /\ carried[l] \subseteq 1..Len(log[l])
  /\ \A t \in Tier : hand[t] # <<>> =>
       \E l \in Lane : \E o \in 1..Len(log[l]) : l[1] = t /\ hand[t] = <<<<l, o>>>>

Busy(l) == IF worker[l].step = "idle" THEN {} ELSE {worker[l].o}

\* The first n offsets of the channel.
Queued(l, n) == {chan[l][i] : i \in 1..n}

InHand(l) ==
  IF hand[l[1]] # <<>> /\ Head(hand[l[1]])[1] = l THEN {Head(hand[l[1]])[2]} ELSE {}

\* Every record before o was carried or is one of the given ones.
Covered(l, o, ahead) == \A x \in 1..o - 1 : x \in carried[l] \/ x \in ahead

WorkerCovered ==
  \A l \in Lane :
    /\ worker[l].step # "idle" => Covered(l, worker[l].o, {})
    /\ worker[l].step = "commit" => worker[l].o \in carried[l]

LaneCovered(l) ==
  /\ \A i \in 1..Len(chan[l]) : Covered(l, chan[l][i], Busy(l) \cup Queued(l, i - 1))
  /\ \A o \in InHand(l) : Covered(l, o, Busy(l) \cup Queued(l, Len(chan[l])))
  /\ Covered(l, pos[l], Busy(l) \cup Queued(l, Len(chan[l])) \cup InHand(l))

\* What a cancelled run holds back is dropped before the next one starts.
PipelineCovered ==
  /\ run = "running" => \A l \in Lane : LaneCovered(l)
  /\ run = "stopped" =>
       /\ \A l \in Lane : worker[l] = Idle /\ chan[l] = <<>>
       /\ \A t \in Tier : hand[t] = <<>>

IInv == TypeOK /\ InFlight /\ WorkerCovered /\ PipelineCovered /\ CommittedCarried /\ InOrder

\* Behind NotEarly: the tier covers the delay, and what a worker has still to sleep
\* covers the rest of it.
WaitCovered ==
  /\ \A l \in Lane : \A o \in 1..Len(log[l]) : log[l][o].delay <= Tiers[l[1]]
  /\ \A l \in Lane : worker[l].step = "carry" =>
       LET record == log[l][worker[l].o]
       IN record.lead >= 0 => record.age + worker[l].left >= record.delay
=============================================================================
