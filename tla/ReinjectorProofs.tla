-------------------------- MODULE ReinjectorProofs --------------------------
(***************************************************************************)
(* Proofs about Reinjector: type correctness, that no commit passes a      *)
(* record that was not carried back, that each partition is carried in     *)
(* order, and that no delay is cut short.                                  *)
(***************************************************************************)
EXTENDS Reinjector, TLAPS

LEMMA LaneTier == \A l \in Lane : l[1] \in Tier /\ Tiers[l[1]] \in Nat /\ Tiers[l[1]] > 0
<1>1. \A t \in Tier : Tiers[t] \in Nat /\ Tiers[t] > 0
  BY TiersAssumption DEF Tier
<1>2. \A l \in Lane : l[1] \in Tier
  BY DEF Lane
<1>3. QED BY <1>1, <1>2

LEMMA IdleType == Idle \in WorkerState /\ Idle.step = "idle"
BY DEF Idle, WorkerState

LEMMA InitIInv == Init => IInv
<1> SUFFICES ASSUME Init PROVE IInv
  OBVIOUS
<1> USE LaneTier DEF Init
<1>1. TypeOK
  BY ReinjectorBounds, IdleType DEF TypeOK
<1>2. InFlight /\ WorkerCovered
  BY DEF InFlight, WorkerCovered, Idle
<1>3. PipelineCovered
  BY DEF PipelineCovered, LaneCovered, Covered, InHand
<1>4. CommittedCarried /\ InOrder
  BY DEF CommittedCarried, InOrder
<1>5. QED BY <1>1, <1>2, <1>3, <1>4 DEF IInv

(* The wait is a number of time units within the tier.                      *)
LEMMA WaitType ==
  ASSUME NEW record \in Record, NEW tier \in Nat
  PROVE  /\ WaitFor(record, tier) \in 0..tier
         /\ record.lead >= 0 => record.age + WaitFor(record, tier) >= tier
<1>0. record.lead \in Leads /\ record.age \in 0..MaxAge
  BY DEF Record
<1>a. record.lead \in Int
  BY <1>0, DelaysAssumption
<1>b. record.age \in Nat
  BY <1>0, AgeAssumption
<1>1. record.lead \in Int /\ record.age \in Nat
  BY <1>a, <1>b
<1>2. tier + record.lead - record.age \in Int
  BY <1>1
<1>3. QED BY <1>1, <1>2 DEF WaitFor

LEMMA OlderType ==
  ASSUME NEW record \in Record
  PROVE  /\ Older(record) \in Record
         /\ Older(record).lead = record.lead /\ Older(record).delay = record.delay
         /\ Older(record).age >= record.age
         /\ record.age < MaxAge => Older(record).age = record.age + 1
BY AgeAssumption DEF Older, Record

-----------------------------------------------------------------------------
(* Types, and the ranges of the offsets in flight.                          *)

LEMMA ParkTypes ==
  ASSUME IInv, NEW l \in Lane, NEW delay \in Nat, NEW lead \in Leads, Park(l, delay, lead)
  PROVE  /\ TypeOK' /\ InFlight'
         /\ \A k \in Lane : /\ Len(log'[k]) \in Nat /\ Len(log[k]) <= Len(log'[k])
                            /\ \A o \in 1..Len(log[k]) : log'[k][o] = log[k][o]
<1> DEFINE r == [delay |-> delay, lead |-> lead, age |-> 0]
<1>1. r \in Record
  BY AgeAssumption DEF Record
<1>2. log \in [Lane -> Seq(Record)] /\ log' = [log EXCEPT ![l] = Append(@, r)]
  BY DEF Park, IInv, TypeOK
<1> HIDE DEF r
<1>3. log' \in [Lane -> Seq(Record)]
  BY <1>1, <1>2
<1>4. \A k \in Lane : /\ Len(log'[k]) \in Nat /\ Len(log[k]) \in Nat /\ Len(log[k]) <= Len(log'[k])
                      /\ \A o \in 1..Len(log[k]) : log'[k][o] = log[k][o]
  BY <1>1, <1>2
<1>5. TypeOK'
  BY <1>3, <1>4, ReinjectorBounds DEF Park, IInv, TypeOK, Fault, NoFault
<1>6. InFlight'
  BY <1>4 DEF Park, IInv, InFlight
<1>7. QED BY <1>4, <1>5, <1>6

(* Offsets stay in range when the logs keep their lengths.                  *)
LEMMA RangesKept ==
  ASSUME TypeOK, InFlight, \A l \in Lane : Len(log'[l]) = Len(log[l]), UNCHANGED hand,
         \A l \in Lane :
           /\ worker'[l].step # "idle" => worker'[l].o \in 1..Len(log[l])
           /\ \A i \in 1..Len(chan'[l]) : chan'[l][i] \in 1..Len(log[l])
           /\ carried'[l] \subseteq 1..Len(log[l])
  PROVE  InFlight'
<1>1. \A t \in Tier : hand[t] # <<>> =>
        \E l \in Lane : \E o \in 1..Len(log'[l]) : l[1] = t /\ hand[t] = <<<<l, o>>>>
  BY DEF InFlight
<1>2. QED BY <1>1 DEF InFlight

LEMMA NextTypes == IInv /\ [Next]_vars => TypeOK' /\ InFlight'
<1> SUFFICES ASSUME IInv, [Next]_vars PROVE TypeOK' /\ InFlight'
  OBVIOUS
<1> USE ReinjectorBounds, LaneTier
<1>0. TypeOK /\ InFlight
  BY DEF IInv
<1>1. ASSUME NEW l \in Lane, NEW lead \in Leads, NEW delay \in Delays, PublishDelayed(l, delay, lead)
      PROVE  TypeOK' /\ InFlight'
  BY <1>1, ParkTypes, DelaysAssumption DEF PublishDelayed
<1>2. ASSUME NEW l \in Lane, NEW lead \in Leads, NEW attempts \in 0..Len(Tiers),
             PublishRetryForAttempt(l, attempts, lead)
      PROVE  TypeOK' /\ InFlight'
  BY <1>2, ParkTypes DEF PublishRetryForAttempt
<1>3. ASSUME NEW l \in Lane, Fetch(l) PROVE TypeOK' /\ InFlight'
  <2>1. pos[l] \in 1..Len(log[l])
    BY <1>0, <1>3 DEF Fetch, TypeOK
  <2>2. TypeOK'
    BY <1>0, <1>3, <2>1 DEF Fetch, TypeOK, NoFault
  <2>3. InFlight'
    BY <1>0, <1>3, <2>1 DEF Fetch, TypeOK, InFlight
  <2>4. QED BY <2>2, <2>3
<1>4. ASSUME NEW t \in Tier, Enqueue(t) PROVE TypeOK' /\ InFlight'
  <2>0. PICK l \in Lane : \E o \in 1..Len(log[l]) : l[1] = t /\ hand[t] = <<<<l, o>>>>
    BY <1>0, <1>4 DEF Enqueue, InFlight
  <2>1. PICK o \in 1..Len(log[l]) : l[1] = t /\ hand[t] = <<<<l, o>>>>
    BY <2>0
  <2>2. Head(hand[t])[1] = l /\ Head(hand[t])[2] = o /\ o \in Nat
    BY <1>0, <2>1 DEF TypeOK
  <2>3. /\ chan' = [chan EXCEPT ![l] = Append(@, o)] /\ hand' = [hand EXCEPT ![t] = <<>>]
        /\ UNCHANGED <<log, committed, pos, worker, run, carried, faults>>
    BY <1>4, <2>2 DEF Enqueue, NoFault
  <2>4. chan' \in [Lane -> Seq(Nat)] /\ hand' \in [Tier -> Seq(Lane \X Nat)]
    BY <1>0, <2>2, <2>3 DEF TypeOK
  <2>5. TypeOK'
    BY <1>0, <2>3, <2>4 DEF TypeOK
  <2>6. \A k \in Lane : \A i \in 1..Len(chan'[k]) : chan'[k][i] \in 1..Len(log[k])
    <3> SUFFICES ASSUME NEW k \in Lane, NEW i \in 1..Len(chan'[k]) PROVE chan'[k][i] \in 1..Len(log[k])
      OBVIOUS
    <3>1. chan[k] \in Seq(Nat) /\ \A j \in 1..Len(chan[k]) : chan[k][j] \in 1..Len(log[k])
      BY <1>0 DEF TypeOK, InFlight
    <3>2. chan'[k] = IF k = l THEN Append(chan[k], o) ELSE chan[k]
      BY <1>0, <2>3 DEF TypeOK
    <3>3. CASE k = l
      <4>1. Len(chan'[k]) = Len(chan[k]) + 1 /\ Len(chan[k]) \in Nat
        BY <2>2, <3>1, <3>2, <3>3
      <4>2. CASE i <= Len(chan[k])
        BY <2>2, <3>1, <3>2, <3>3, <4>1, <4>2
      <4>3. CASE i = Len(chan[k]) + 1
        BY <2>1, <2>2, <3>1, <3>2, <3>3, <4>1, <4>3
      <4>4. QED BY <4>1, <4>2, <4>3
    <3>4. QED BY <3>1, <3>2, <3>3
  <2>7. \A u \in Tier : hand'[u] # <<>> => hand'[u] = hand[u]
    BY <1>0, <2>3 DEF TypeOK
  <2>8. InFlight'
    BY <1>0, <2>3, <2>6, <2>7 DEF InFlight
  <2>9. QED BY <2>5, <2>8
<1>5. ASSUME NEW l \in Lane, Take(l) PROVE TypeOK' /\ InFlight'
  <2> DEFINE o == Head(chan[l])
             w == [step |-> "carry", o |-> o, left |-> WaitFor(log[l][o], Tiers[l[1]])]
  <2>0. chan[l] \in Seq(Nat) /\ chan[l] # <<>> /\ log[l] \in Seq(Record)
    BY <1>0, <1>5 DEF Take, TypeOK
  <2>1. /\ o \in 1..Len(log[l])
        /\ \A i \in 1..Len(Tail(chan[l])) : Tail(chan[l])[i] \in 1..Len(log[l])
        /\ Tail(chan[l]) \in Seq(Nat)
    <3>1. \A i \in 1..Len(chan[l]) : chan[l][i] \in 1..Len(log[l])
      BY <1>0 DEF InFlight
    <3>2. QED BY <2>0, <3>1
  <2>2. log[l][o] \in Record
    BY <2>0, <2>1
  <2>3. WaitFor(log[l][o], Tiers[l[1]]) \in Nat
    BY <2>2, WaitType
  <2>4. w \in WorkerState /\ w.o = o
    BY <2>1, <2>3 DEF WorkerState
  <2>5. worker' = [worker EXCEPT ![l] = w] /\ chan' = [chan EXCEPT ![l] = Tail(@)]
        /\ UNCHANGED <<log, committed, pos, hand, run, carried, faults>>
    BY <1>5 DEF Take, NoFault
  <2> HIDE DEF w, o
  <2>6. TypeOK'
    BY <1>0, <2>1, <2>4, <2>5 DEF TypeOK
  <2>7. \A k \in Lane : /\ worker'[k].step # "idle" => worker'[k].o \in 1..Len(log[k])
                        /\ \A i \in 1..Len(chan'[k]) : chan'[k][i] \in 1..Len(log[k])
    BY <1>0, <2>1, <2>4, <2>5 DEF TypeOK, InFlight
  <2>8. InFlight'
    BY <1>0, <2>5, <2>7, RangesKept DEF InFlight
  <2>9. QED BY <2>6, <2>8
<1>6. ASSUME NEW l \in Lane, Write(l) PROVE TypeOK' /\ InFlight'
  <2>1. worker[l].o \in 1..Len(log[l])
    BY <1>0, <1>6 DEF Write, Awake, InFlight
  <2>2. /\ UNCHANGED <<log, committed, pos, hand, chan, run>>
        /\ carried' = carried \/ carried' = [carried EXCEPT ![l] = @ \cup {worker[l].o}]
        /\ worker' = worker \/ worker' = [worker EXCEPT ![l].step = "commit"]
        /\ faults' = faults \/ faults' = faults + 1
    BY <1>6 DEF Write, Stored, Fault, NoFault
  <2>a. worker' \in [Lane -> WorkerState] /\ \A k \in Lane : worker'[k].o = worker[k].o
    <3>1. CASE worker' = worker
      BY <1>0, <3>1 DEF TypeOK
    <3>2. CASE worker' = [worker EXCEPT ![l].step = "commit"]
      BY <1>0, <3>2 DEF TypeOK, WorkerState
    <3>3. QED BY <2>2, <3>1, <3>2
  <2>b. /\ carried' \in [Lane -> SUBSET Nat]
        /\ \A k \in Lane : carried'[k] \subseteq 1..Len(log[k])
    <3>1. CASE carried' = carried
      BY <1>0, <3>1 DEF TypeOK, InFlight
    <3>2. CASE carried' = [carried EXCEPT ![l] = @ \cup {worker[l].o}]
      BY <1>0, <2>1, <3>2 DEF TypeOK, InFlight
    <3>3. QED BY <2>2, <3>1, <3>2
  <2>3. TypeOK'
    BY <1>0, <2>2, <2>a, <2>b DEF TypeOK
  <2>4. \A k \in Lane : worker'[k].step # "idle" => worker'[k].step = worker[k].step \/ k = l
    BY <1>0, <2>2 DEF TypeOK
  <2>5. QED BY <1>0, <2>1, <2>2, <2>a, <2>b, <2>3, <2>4, RangesKept DEF InFlight
<1>7. ASSUME NEW l \in Lane, Commit(l) PROVE TypeOK' /\ InFlight'
  <2>1. worker[l].o \in 1..Len(log[l])
    BY <1>0, <1>7 DEF Commit, InFlight
  <2>2. /\ UNCHANGED <<log, pos, hand, chan, run, carried>>
        /\ committed' = committed \/ committed' = [committed EXCEPT ![l] = worker[l].o + 1]
        /\ worker' = worker \/ worker' = [worker EXCEPT ![l] = Idle]
        /\ faults' = faults \/ faults' = faults + 1
    BY <1>7 DEF Commit, Fault, NoFault
  <2>a. worker' \in [Lane -> WorkerState]
    BY <1>0, <2>2, IdleType DEF TypeOK
  <2>b. /\ committed' \in [Lane -> Nat]
        /\ \A k \in Lane : committed'[k] \in 1..Len(log[k]) + 1
    <3>1. CASE committed' = committed
      BY <1>0, <3>1 DEF TypeOK
    <3>2. CASE committed' = [committed EXCEPT ![l] = worker[l].o + 1]
      BY <1>0, <2>1, <3>2 DEF TypeOK
    <3>3. QED BY <2>2, <3>1, <3>2
  <2>3. TypeOK'
    BY <1>0, <2>2, <2>a, <2>b DEF TypeOK
  <2>4. \A k \in Lane : worker'[k].step # "idle" => worker'[k] = worker[k]
    BY <1>0, <2>2, IdleType DEF TypeOK
  <2>5. QED BY <1>0, <2>2, <2>3, <2>4, RangesKept DEF InFlight
<1>8. ASSUME NEW l \in Lane, WorkerReturns(l) PROVE TypeOK' /\ InFlight'
  <2>1. TypeOK'
    BY <1>0, <1>8, IdleType DEF WorkerReturns, TypeOK, NoFault
  <2>2. \A k \in Lane : worker'[k].step # "idle" => worker'[k] = worker[k]
    BY <1>0, <1>8, IdleType DEF WorkerReturns, TypeOK
  <2>3. QED BY <1>0, <1>8, <2>1, <2>2, RangesKept DEF WorkerReturns, InFlight
<1>9. ASSUME NEW l \in Lane, Rebalance(l) PROVE TypeOK' /\ InFlight'
  <2>1. TypeOK'
    BY <1>0, <1>9 DEF Rebalance, TypeOK, Fault
  <2>2. QED BY <1>0, <1>9, <2>1, RangesKept DEF Rebalance, InFlight
<1>10. CASE RunReturns \/ Crash
  <2>a. /\ Forget /\ UNCHANGED <<log, committed, pos, carried>>
        /\ run' = "stopped" /\ faults' \in Nat
    BY <1>0, <1>10 DEF RunReturns, Crash, TypeOK, Fault, NoFault
  <2>b. /\ hand' \in [Tier -> Seq(Lane \X Nat)] /\ chan' \in [Lane -> Seq(Nat)]
        /\ worker' \in [Lane -> WorkerState]
    BY <2>a, IdleType DEF Forget
  <2>1. TypeOK'
    BY <1>0, <2>a, <2>b DEF TypeOK
  <2>2. InFlight'
    BY <1>0, <2>a, IdleType DEF Forget, InFlight
  <2>3. QED BY <2>1, <2>2
<1>11. CASE Cancel \/ Restart \/ UNCHANGED vars
  <2>a. ASSUME Cancel \/ UNCHANGED vars PROVE TypeOK'
    BY <1>0, <2>a DEF Cancel, TypeOK, Fault, NoFault, vars
  <2>b. ASSUME Restart PROVE TypeOK'
    BY <1>0, <2>b DEF Restart, TypeOK, Fault, NoFault, vars
  <2>1. TypeOK'
    BY <1>11, <2>a, <2>b
  <2>2. UNCHANGED <<log, hand, chan, worker, carried>>
    BY <1>11 DEF Cancel, Restart, vars
  <2>3. QED BY <1>0, <2>1, <2>2, RangesKept DEF InFlight
<1>12. CASE Tick
  <2>1. \A l \in Lane : log'[l] \in Seq(Record) /\ Len(log'[l]) = Len(log[l])
    <3> SUFFICES ASSUME NEW l \in Lane PROVE log'[l] \in Seq(Record) /\ Len(log'[l]) = Len(log[l])
      OBVIOUS
    <3>1. log[l] \in Seq(Record) /\ log'[l] = [o \in 1..Len(log[l]) |-> Older(log[l][o])]
      BY <1>0, <1>12 DEF Tick, TypeOK
    <3>2. \A o \in 1..Len(log[l]) : Older(log[l][o]) \in Record
      BY <3>1, OlderType
    <3>3. QED BY <3>1, <3>2
  <2>2. log' \in [Lane -> Seq(Record)]
    BY <1>12, <2>1 DEF Tick
  <2>3. \A l \in Lane : /\ worker'[l] \in WorkerState
                        /\ worker'[l].step = worker[l].step /\ worker'[l].o = worker[l].o
    <3> SUFFICES ASSUME NEW l \in Lane
                 PROVE  /\ worker'[l] \in WorkerState
                        /\ worker'[l].step = worker[l].step /\ worker'[l].o = worker[l].o
      OBVIOUS
    <3>1. /\ worker[l] \in WorkerState
          /\ worker'[l] = [worker[l] EXCEPT !.left = IF @ > 0 THEN @ - 1 ELSE 0]
      BY <1>0, <1>12 DEF Tick, TypeOK
    <3>2. QED BY <3>1 DEF WorkerState
  <2>4. worker' \in [Lane -> WorkerState]
    BY <1>12, <2>3 DEF Tick
  <2>5. UNCHANGED <<committed, pos, hand, chan, run, carried, faults>>
    BY <1>12 DEF Tick, NoFault
  <2>6. TypeOK'
    BY <1>0, <2>1, <2>2, <2>4, <2>5 DEF TypeOK
  <2>7. QED BY <1>0, <2>1, <2>3, <2>5, <2>6, RangesKept DEF InFlight
<1>13. QED BY <1>1, <1>2, <1>3, <1>4, <1>5, <1>6, <1>7, <1>8, <1>9, <1>10, <1>11, <1>12 DEF Next

-----------------------------------------------------------------------------
(* What comes before an offset was carried or is in front of it.            *)

Order == WorkerCovered /\ PipelineCovered /\ CommittedCarried /\ InOrder

(* Neither parking a record nor the passing of time moves an offset.        *)
LEMMA StillOrder ==
  ASSUME Order, UNCHANGED <<committed, pos, hand, chan, run, carried>>,
         \A l \in Lane : worker'[l].step = worker[l].step /\ worker'[l].o = worker[l].o,
         \A l \in Lane : worker[l] = Idle => worker'[l] = Idle
  PROVE  Order'
<1> USE DEF Order
<1>1. CommittedCarried' /\ InOrder'
  BY DEF CommittedCarried, InOrder
<1>2. WorkerCovered'
  BY DEF WorkerCovered, Covered
<1>3. \A l \in Lane : Busy(l)' = Busy(l)
  BY DEF Busy
<1>4. PipelineCovered'
  BY <1>3 DEF PipelineCovered, LaneCovered, Covered, Queued, InHand
<1>5. QED BY <1>1, <1>2, <1>4

LEMMA FetchOrder == ASSUME IInv, NEW l \in Lane, Fetch(l) PROVE Order'
<1>0. /\ TypeOK /\ InFlight /\ WorkerCovered /\ PipelineCovered /\ CommittedCarried /\ InOrder
      /\ run = "running" /\ hand[l[1]] = <<>>
      /\ hand' = [hand EXCEPT ![l[1]] = <<<<l, pos[l]>>>>]
      /\ pos' = [pos EXCEPT ![l] = @ + 1]
      /\ UNCHANGED <<log, committed, chan, worker, run, carried>>
  BY DEF Fetch, IInv
<1>1. WorkerCovered' /\ CommittedCarried' /\ InOrder'
  BY <1>0 DEF WorkerCovered, Covered, CommittedCarried, InOrder
<1>2. ASSUME NEW k \in Lane PROVE LaneCovered(k)'
  <2>0. LaneCovered(k) /\ pos[k] \in Nat
    BY <1>0 DEF PipelineCovered, TypeOK
  <2>1. Busy(k)' = Busy(k) /\ \A i : Queued(k, i)' = Queued(k, i)
    BY <1>0 DEF Busy, Queued
  <2>2. k # l => InHand(k)' = InHand(k) /\ pos'[k] = pos[k]
    <3>1. CASE k[1] = l[1]
      <4>1. hand'[k[1]] = <<<<l, pos[l]>>>>
        BY <1>0, <3>1, LaneTier DEF TypeOK
      <4>2. Head(hand'[k[1]])[1] = l
        BY <4>1
      <4>3. QED BY <1>0, <3>1, <4>2 DEF InHand, TypeOK
    <3>2. CASE k[1] # l[1]
      BY <1>0, <3>2, LaneTier DEF InHand, TypeOK
    <3>3. QED BY <3>1, <3>2
  <2>3. k = l => InHand(k) = {} /\ InHand(k)' = {pos[k]} /\ pos'[k] = pos[k] + 1
    BY <1>0, LaneTier DEF InHand, TypeOK
  <2>4. CASE k # l
    BY <1>0, <2>0, <2>1, <2>2, <2>4 DEF LaneCovered, Covered
  <2>5. CASE k = l
    BY <1>0, <2>0, <2>1, <2>3, <2>5 DEF LaneCovered, Covered
  <2>6. QED BY <2>4, <2>5
<1>3. QED BY <1>0, <1>1, <1>2 DEF PipelineCovered, Order

LEMMA EnqueueOrder == ASSUME IInv, NEW t \in Tier, Enqueue(t) PROVE Order'
<1>0. /\ TypeOK /\ InFlight /\ WorkerCovered /\ PipelineCovered /\ CommittedCarried /\ InOrder
      /\ run = "running" /\ hand[t] # <<>>
  BY DEF Enqueue, IInv
<1>a. PICK l \in Lane : \E o \in 1..Len(log[l]) : l[1] = t /\ hand[t] = <<<<l, o>>>>
  BY <1>0 DEF InFlight
<1>b. PICK o \in 1..Len(log[l]) : l[1] = t /\ hand[t] = <<<<l, o>>>>
  BY <1>a
<1>c. Head(hand[t])[1] = l /\ Head(hand[t])[2] = o
  BY <1>b
<1>d. /\ chan' = [chan EXCEPT ![l] = Append(@, o)] /\ hand' = [hand EXCEPT ![t] = <<>>]
      /\ UNCHANGED <<log, committed, pos, worker, run, carried>>
  BY <1>c DEF Enqueue
<1>1. WorkerCovered' /\ CommittedCarried' /\ InOrder'
  BY <1>0, <1>d DEF WorkerCovered, Covered, CommittedCarried, InOrder
<1>2. ASSUME NEW k \in Lane PROVE LaneCovered(k)'
  <2> DEFINE n == Len(chan[k])
  <2>0. LaneCovered(k) /\ chan[k] \in Seq(Nat) /\ n \in Nat /\ pos'[k] = pos[k]
    BY <1>0, <1>d DEF PipelineCovered, TypeOK
  <2>1. Busy(k)' = Busy(k) /\ carried'[k] = carried[k]
    BY <1>d DEF Busy
  <2>2. CASE k # l
    <3>1. InHand(k)' = InHand(k)
      <4>1. CASE k[1] = t
        BY <1>0, <1>c, <1>d, <2>2, <4>1, LaneTier DEF InHand, TypeOK
      <4>2. CASE k[1] # t
        BY <1>0, <1>d, <4>2, LaneTier DEF InHand, TypeOK
      <4>3. QED BY <4>1, <4>2
    <3>2. chan'[k] = chan[k]
      BY <1>0, <1>d, <2>2 DEF TypeOK
    <3>3. \A i : Queued(k, i)' = Queued(k, i)
      BY <3>2 DEF Queued
    <3>4. QED BY <2>0, <2>1, <3>1, <3>2, <3>3 DEF LaneCovered, Covered
  <2>3. CASE k = l
    <3>1. InHand(k) = {o} /\ InHand(k)' = {}
      BY <1>0, <1>b, <1>c, <1>d, <2>3, LaneTier DEF InHand, TypeOK
    <3>2. chan'[k] = Append(chan[k], o)
      BY <1>0, <1>d, <2>3 DEF TypeOK
    <3>3. /\ Len(chan'[k]) = n + 1
          /\ \A i \in 1..n : chan'[k][i] = chan[k][i]
          /\ chan'[k][n + 1] = o
      BY <2>0, <3>2
    <3>4. ASSUME NEW i \in 0..n PROVE Queued(k, i)' = Queued(k, i)
      <4>1. \A j \in 1..i : chan'[k][j] = chan[k][j]
        BY <2>0, <3>3
      <4>2. \A x : x \in Queued(k, i)' <=> x \in Queued(k, i)
        BY <4>1 DEF Queued
      <4>3. QED BY <4>2
    <3>5. PICK m \in Nat : m = n
      BY <2>0
    <3>6. Queued(k, m + 1)' = Queued(k, m) \cup {o}
      <4>1. 1..m + 1 = (1..m) \cup {m + 1}
        OBVIOUS
      <4>2. \A x : x \in Queued(k, m + 1)' <=> x \in Queued(k, m) \cup {o}
        BY <3>3, <3>5, <4>1 DEF Queued
      <4>3. QED BY <4>2
    <3> HIDE DEF n
    <3>7. ASSUME NEW i \in 1..m + 1 PROVE Covered(k, chan[k][i], Busy(k) \cup Queued(k, i - 1))'
      <4>1. Queued(k, i - 1)' = Queued(k, i - 1)
        BY <3>4, <3>5
      <4>2. Covered(k, chan'[k][i], Busy(k) \cup Queued(k, i - 1))
        <5>1. CASE i \in 1..m
          BY <2>0, <3>3, <3>5, <5>1 DEF LaneCovered, n
        <5>2. CASE i = m + 1
          <6>1. i - 1 = m /\ chan'[k][i] = o
            BY <3>3, <3>5, <5>2
          <6>2. QED BY <2>0, <3>1, <3>5, <6>1 DEF LaneCovered, n
        <5>3. QED BY <5>1, <5>2
      <4>3. QED BY <2>1, <4>1, <4>2 DEF Covered
    <3>8. Len(chan'[k]) = m + 1
      BY <3>3, <3>5
    <3>9. Covered(k, pos[k], Busy(k) \cup Queued(k, m) \cup {o})
      BY <2>0, <3>1, <3>5 DEF LaneCovered, n
    <3>10. Covered(k, pos[k], Busy(k) \cup Queued(k, Len(chan[k])) \cup InHand(k))'
      BY <2>0, <2>1, <3>1, <3>6, <3>8, <3>9 DEF Covered
    <3>11. QED BY <3>1, <3>7, <3>8, <3>10 DEF LaneCovered
  <2>4. QED BY <2>2, <2>3
<1>3. QED BY <1>0, <1>1, <1>2, <1>d DEF PipelineCovered, Order

LEMMA TakeOrder == ASSUME IInv, NEW l \in Lane, Take(l) PROVE Order'
<1>0. /\ TypeOK /\ InFlight /\ WorkerCovered /\ PipelineCovered /\ CommittedCarried /\ InOrder
      /\ run = "running" /\ worker[l].step = "idle" /\ chan[l] # <<>>
      /\ UNCHANGED <<log, committed, pos, hand, run, carried>>
      /\ chan' = [chan EXCEPT ![l] = Tail(@)]
  BY DEF Take, IInv
<1> DEFINE o == Head(chan[l])
<1>1. chan[l] \in Seq(Nat) /\ Len(chan[l]) \in Nat /\ Len(chan[l]) > 0 /\ o = chan[l][1]
  BY <1>0 DEF TypeOK
<1>2. /\ worker'[l].step = "carry" /\ worker'[l].o = o
      /\ \A k \in Lane \ {l} : worker'[k] = worker[k]
  BY <1>0 DEF Take, TypeOK
<1>3. Busy(l) = {} /\ Busy(l)' = {o}
  BY <1>0, <1>2 DEF Busy
<1>4. Covered(l, o, {})
  <2>1. Covered(l, chan[l][1], Busy(l) \cup Queued(l, 1 - 1))
    <3>1. LaneCovered(l) /\ 1 \in 1..Len(chan[l])
      BY <1>0, <1>1 DEF PipelineCovered
    <3>2. \A i \in 1..Len(chan[l]) : Covered(l, chan[l][i], Busy(l) \cup Queued(l, i - 1))
      BY <3>1 DEF LaneCovered
    <3>3. QED BY <3>1, <3>2
  <2>2. Queued(l, 1 - 1) = {}
    BY DEF Queued
  <2>3. QED BY <1>1, <1>3, <2>1, <2>2
<1> HIDE DEF o
<1>5. CommittedCarried' /\ InOrder'
  BY <1>0 DEF CommittedCarried, InOrder
<1>6. WorkerCovered'
  BY <1>0, <1>2, <1>4 DEF WorkerCovered, Covered
<1>7. ASSUME NEW k \in Lane PROVE LaneCovered(k)'
  <2>0. LaneCovered(k) /\ pos'[k] = pos[k] /\ carried'[k] = carried[k]
    BY <1>0 DEF PipelineCovered
  <2>1. InHand(k)' = InHand(k)
    BY <1>0 DEF InHand
  <2>2. CASE k # l
    <3>1. Busy(k)' = Busy(k) /\ chan'[k] = chan[k]
      BY <1>0, <1>2, <2>2 DEF Busy, TypeOK
    <3>2. \A i : Queued(k, i)' = Queued(k, i)
      BY <3>1 DEF Queued
    <3>3. QED BY <2>0, <2>1, <3>1, <3>2 DEF LaneCovered, Covered
  <2>3. CASE k = l
    <3>1. PICK n \in Nat : n + 1 = Len(chan[k])
      BY <1>1, <2>3
    <3>2. /\ Len(chan'[k]) = n /\ \A i \in 1..n : chan'[k][i] = chan[k][i + 1]
      <4>1. chan'[k] = Tail(chan[k])
        BY <1>0, <2>3 DEF TypeOK
      <4>2. Len(Tail(chan[k])) = n /\ \A i \in 1..n : Tail(chan[k])[i] = chan[k][i + 1]
        BY <1>1, <2>3, <3>1
      <4>3. QED BY <4>1, <4>2
    <3>3. ASSUME NEW i \in 0..n
          PROVE  Queued(k, i + 1) \subseteq Busy(k)' \cup Queued(k, i)'
      <4> SUFFICES ASSUME NEW j \in 1..i + 1 PROVE chan[k][j] \in Busy(k)' \cup Queued(k, i)'
        BY DEF Queued
      <4>1. CASE j = 1
        BY <1>1, <1>3, <2>3, <4>1
      <4>2. CASE j # 1
        <5>1. j - 1 \in 1..i /\ j - 1 \in 1..n /\ j - 1 + 1 = j
          BY <4>2
        <5>2. chan'[k][j - 1] = chan[k][j]
          BY <3>2, <5>1
        <5>3. QED BY <5>1, <5>2 DEF Queued
      <4>3. QED BY <4>1, <4>2
    <3>4. Busy(k) = {}
      BY <1>3, <2>3
    <3>5. ASSUME NEW i \in 1..n PROVE Covered(k, chan[k][i], Busy(k) \cup Queued(k, i - 1))'
      <4>1. i + 1 \in 1..Len(chan[k]) /\ i - 1 \in 0..n /\ i + 1 - 1 = i - 1 + 1
        BY <3>1
      <4>2. Covered(k, chan[k][i + 1], Queued(k, i - 1 + 1))
        BY <2>0, <3>4, <4>1 DEF LaneCovered
      <4>3. Covered(k, chan'[k][i], Busy(k)' \cup Queued(k, i - 1)')
        BY <3>2, <3>3, <4>1, <4>2 DEF Covered
      <4>4. QED BY <2>0, <4>3 DEF Covered
    <3>6. Queued(k, n + 1) \subseteq Busy(k)' \cup Queued(k, n)'
      BY <3>3
    <3>7. \A x \in InHand(k) : Covered(k, x, Queued(k, n + 1))
      BY <2>0, <3>1, <3>4 DEF LaneCovered
    <3>8. Covered(k, pos[k], Queued(k, n + 1) \cup InHand(k))
      BY <2>0, <3>1, <3>4 DEF LaneCovered
    <3>9. \A x \in InHand(k)' : Covered(k, x, Busy(k) \cup Queued(k, n))'
      BY <2>0, <2>1, <3>6, <3>7 DEF Covered
    <3>10. Covered(k, pos[k], Busy(k) \cup Queued(k, n) \cup InHand(k))'
      BY <2>0, <2>1, <3>6, <3>8 DEF Covered
    <3>11. QED BY <3>2, <3>5, <3>9, <3>10 DEF LaneCovered
  <2>4. QED BY <2>2, <2>3
<1>8. QED BY <1>0, <1>5, <1>6, <1>7 DEF PipelineCovered, Order

(* What was carried stays carried, and what a worker lets go of was carried. *)
LEMMA CarriedOrder ==
  ASSUME IInv, UNCHANGED <<hand, chan, run, pos>>,
         \A k \in Lane : carried[k] \subseteq carried'[k] /\ Busy(k) \subseteq Busy(k)' \cup carried'[k]
  PROVE  PipelineCovered' \/ run # "running"
<1>1. SUFFICES ASSUME run = "running" PROVE PipelineCovered'
  OBVIOUS
<1>2. \A k \in Lane : LaneCovered(k)
  BY <1>1 DEF IInv, PipelineCovered
<1>3. \A k \in Lane : InHand(k)' = InHand(k) /\ \A i : Queued(k, i)' = Queued(k, i)
  BY DEF InHand, Queued
<1>4. \A k \in Lane : LaneCovered(k)'
  BY <1>2, <1>3 DEF LaneCovered, Covered
<1>5. QED BY <1>1, <1>4 DEF PipelineCovered

LEMMA WriteOrder == ASSUME IInv, NEW l \in Lane, Write(l) PROVE Order'
<1>0. /\ TypeOK /\ InFlight /\ WorkerCovered /\ PipelineCovered /\ CommittedCarried /\ InOrder
      /\ worker[l].step = "carry"
      /\ UNCHANGED <<log, committed, pos, hand, chan, run>>
  BY DEF Write, Awake, IInv
<1>1. \/ carried' = [carried EXCEPT ![l] = @ \cup {worker[l].o}]
           /\ (worker' = worker \/ worker' = [worker EXCEPT ![l].step = "commit"])
      \/ UNCHANGED <<carried, worker>>
  BY DEF Write, Stored
<1>2. CASE UNCHANGED <<carried, worker>>
  BY <1>0, <1>2, StillOrder DEF Order
<1>3. CASE /\ carried' = [carried EXCEPT ![l] = @ \cup {worker[l].o}]
           /\ worker' = worker \/ worker' = [worker EXCEPT ![l].step = "commit"]
  <2>1. /\ \A k \in Lane \ {l} : carried'[k] = carried[k] /\ worker'[k] = worker[k]
        /\ carried'[l] = carried[l] \cup {worker[l].o}
        /\ worker'[l].o = worker[l].o /\ worker'[l].step # "idle"
    BY <1>0, <1>3 DEF TypeOK, WorkerState
  <2>2. \A k \in Lane : carried[k] \subseteq carried'[k] /\ Busy(k)' = Busy(k)
    BY <1>0, <2>1 DEF Busy
  <2>3. run # "stopped"
    BY <1>0 DEF PipelineCovered, Idle
  <2>4. PipelineCovered'
    BY <1>0, <2>2, <2>3, CarriedOrder DEF PipelineCovered
  <2>5. WorkerCovered'
    BY <1>0, <2>1, <2>2 DEF WorkerCovered, Covered
  <2>6. CommittedCarried'
    BY <1>0, <2>2 DEF CommittedCarried
  <2>7. InOrder'
    <3> SUFFICES ASSUME NEW k \in Lane, NEW o \in carried'[k], NEW x \in 1..o - 1 PROVE x \in carried'[k]
      BY DEF InOrder
    <3>1. CASE o \in carried[k]
      BY <1>0, <2>2, <3>1 DEF InOrder
    <3>2. CASE o \notin carried[k]
      <4>1. k = l /\ o = worker[l].o
        BY <2>1, <3>2
      <4>2. QED BY <1>0, <2>2, <4>1 DEF WorkerCovered, Covered
    <3>3. QED BY <3>1, <3>2
  <2>8. QED BY <2>4, <2>5, <2>6, <2>7 DEF Order
<1>4. QED BY <1>1, <1>2, <1>3

LEMMA CommitOrder == ASSUME IInv, NEW l \in Lane, Commit(l) PROVE Order'
<1>0. /\ TypeOK /\ InFlight /\ WorkerCovered /\ PipelineCovered /\ CommittedCarried /\ InOrder
      /\ worker[l].step = "commit"
      /\ UNCHANGED <<log, pos, hand, chan, run, carried>>
      /\ committed' = committed \/ committed' = [committed EXCEPT ![l] = worker[l].o + 1]
      /\ worker' = worker \/ worker' = [worker EXCEPT ![l] = Idle]
  BY DEF Commit, IInv
<1>1. worker[l].o \in carried[l] /\ Covered(l, worker[l].o, {}) /\ worker[l].o \in Nat
  BY <1>0 DEF WorkerCovered, InFlight
<1>2. \A k \in Lane : worker'[k] = worker[k] \/ (k = l /\ worker'[k] = Idle)
  BY <1>0 DEF TypeOK
<1>3. \A k \in Lane : Busy(k) \subseteq Busy(k)' \cup carried'[k]
  BY <1>0, <1>1, <1>2 DEF Busy
<1>4. run # "stopped"
  BY <1>0 DEF PipelineCovered, Idle
<1>5. PipelineCovered'
  BY <1>0, <1>3, <1>4, CarriedOrder DEF PipelineCovered
<1>6. WorkerCovered' /\ InOrder'
  BY <1>0, <1>2, IdleType DEF WorkerCovered, Covered, InOrder
<1>7. CommittedCarried'
  <2> SUFFICES ASSUME NEW k \in Lane, NEW x \in 1..committed'[k] - 1 PROVE x \in carried[k]
    BY <1>0 DEF CommittedCarried
  <2>1. CASE committed'[k] = committed[k]
    BY <1>0, <2>1 DEF CommittedCarried
  <2>2. CASE k = l /\ committed'[k] = worker[l].o + 1
    BY <1>1, <2>2 DEF Covered
  <2>3. QED BY <1>0, <2>1, <2>2 DEF TypeOK
<1>8. QED BY <1>5, <1>6, <1>7 DEF Order

LEMMA StopOrder == ASSUME IInv, RunReturns \/ Crash \/ Cancel \/ Restart PROVE Order'
<1>0. /\ TypeOK /\ WorkerCovered /\ PipelineCovered /\ CommittedCarried /\ InOrder
      /\ UNCHANGED <<log, committed, carried>>
  BY DEF IInv, RunReturns, Crash, Cancel, Restart
<1>1. CommittedCarried' /\ InOrder'
  BY <1>0 DEF CommittedCarried, InOrder
<1>2. CASE RunReturns \/ Crash
  <2>1. Forget /\ run' = "stopped"
    BY <1>2 DEF RunReturns, Crash
  <2>2. WorkerCovered' /\ PipelineCovered'
    BY <2>1, IdleType DEF Forget, WorkerCovered, PipelineCovered
  <2>3. QED BY <1>1, <2>2 DEF Order
<1>3. CASE Cancel
  BY <1>0, <1>1, <1>3 DEF Order, Cancel, WorkerCovered, PipelineCovered, Covered
<1>4. CASE Restart
  <2>1. /\ run' = "running" /\ pos' = committed /\ UNCHANGED <<hand, chan, worker>>
        /\ \A t \in Tier : hand[t] = <<>>
        /\ \A k \in Lane : chan[k] = <<>>
    BY <1>0, <1>4 DEF Restart, PipelineCovered
  <2>2. \A k \in Lane : InHand(k)' = {} /\ Len(chan'[k]) = 0
    BY <2>1, LaneTier DEF InHand
  <2>3. \A k \in Lane : Covered(k, pos[k], {})'
    BY <1>0, <2>1 DEF CommittedCarried, Covered
  <2>4. \A k \in Lane : LaneCovered(k)'
    BY <2>2, <2>3 DEF LaneCovered, Covered
  <2>5. PipelineCovered'
    BY <2>1, <2>4 DEF PipelineCovered
  <2>6. WorkerCovered'
    BY <1>0, <2>1 DEF WorkerCovered, Covered
  <2>7. QED BY <1>1, <2>5, <2>6 DEF Order
<1>5. QED BY <1>2, <1>3, <1>4

LEMMA RebalanceOrder == ASSUME IInv, NEW l \in Lane, Rebalance(l) PROVE Order'
<1>0. /\ TypeOK /\ WorkerCovered /\ PipelineCovered /\ CommittedCarried /\ InOrder
      /\ run = "running" /\ pos' = [pos EXCEPT ![l] = committed[l]]
      /\ UNCHANGED <<log, committed, hand, chan, worker, run, carried>>
  BY DEF IInv, Rebalance
<1>1. WorkerCovered' /\ CommittedCarried' /\ InOrder'
  BY <1>0 DEF WorkerCovered, Covered, CommittedCarried, InOrder
<1>2. \A k \in Lane : /\ Busy(k)' = Busy(k) /\ InHand(k)' = InHand(k)
                      /\ \A i : Queued(k, i)' = Queued(k, i)
  BY <1>0 DEF Busy, InHand, Queued
<1>3. ASSUME NEW k \in Lane PROVE LaneCovered(k)'
  <2>1. LaneCovered(k)
    BY <1>0 DEF PipelineCovered
  <2>2. pos'[k] = pos[k] \/ (pos'[k] = committed[k] /\ Covered(k, committed[k], {}))
    BY <1>0 DEF TypeOK, CommittedCarried, Covered
  <2>3. QED BY <1>0, <1>2, <2>1, <2>2 DEF LaneCovered, Covered
<1>4. QED BY <1>0, <1>1, <1>3 DEF PipelineCovered, Order

LEMMA WorkerReturnsOrder == ASSUME IInv, NEW l \in Lane, WorkerReturns(l) PROVE Order'
<1>0. /\ TypeOK /\ WorkerCovered /\ CommittedCarried /\ InOrder
      /\ run = "stopping" /\ worker' = [worker EXCEPT ![l] = Idle]
      /\ UNCHANGED <<log, committed, pos, hand, chan, run, carried>>
  BY DEF IInv, WorkerReturns
<1>1. \A k \in Lane : worker'[k] = worker[k] \/ worker'[k] = Idle
  BY <1>0 DEF TypeOK
<1>2. WorkerCovered' /\ CommittedCarried' /\ InOrder'
  BY <1>0, <1>1, IdleType DEF WorkerCovered, Covered, CommittedCarried, InOrder
<1>3. QED BY <1>0, <1>2 DEF PipelineCovered, Order

LEMMA NextIInv == IInv /\ [Next]_vars => IInv'
<1> SUFFICES ASSUME IInv, [Next]_vars PROVE IInv'
  OBVIOUS
<1>0. TypeOK /\ Order
  BY DEF IInv, Order
<1>1. ASSUME NEW l \in Lane, NEW lead \in Leads,
             \/ \E delay \in Delays : PublishDelayed(l, delay, lead)
             \/ \E attempts \in 0..Len(Tiers) : PublishRetryForAttempt(l, attempts, lead)
      PROVE  Order'
  <2>1. UNCHANGED <<committed, pos, hand, chan, worker, run, carried>>
    BY <1>1 DEF PublishDelayed, PublishRetryForAttempt, Park
  <2>2. QED BY <1>0, <2>1, StillOrder
<1>2. ASSUME Tick PROVE Order'
  <2>1. ASSUME NEW l \in Lane
        PROVE  /\ worker'[l].step = worker[l].step /\ worker'[l].o = worker[l].o
               /\ worker[l] = Idle => worker'[l] = Idle
    <3>1. /\ worker[l] \in WorkerState
          /\ worker'[l] = [worker[l] EXCEPT !.left = IF @ > 0 THEN @ - 1 ELSE 0]
      BY <1>0, <1>2 DEF Tick, TypeOK
    <3>2. QED BY <3>1 DEF WorkerState, Idle
  <2>2. UNCHANGED <<committed, pos, hand, chan, run, carried>>
    BY <1>2 DEF Tick
  <2>3. \A l \in Lane : worker'[l].step = worker[l].step /\ worker'[l].o = worker[l].o
    BY <2>1
  <2>4. \A l \in Lane : worker[l] = Idle => worker'[l] = Idle
    BY <2>1
  <2>5. QED BY <1>0, <2>2, <2>3, <2>4, StillOrder
<1>3. ASSUME UNCHANGED vars PROVE Order'
  <2>1. UNCHANGED <<committed, pos, hand, chan, worker, run, carried>>
    BY <1>3 DEF vars
  <2>2. QED BY <1>0, <2>1, StillOrder
<1>a. ASSUME NEW l \in Lane,
             Fetch(l) \/ Take(l) \/ Write(l) \/ Commit(l) \/ WorkerReturns(l) \/ Rebalance(l)
      PROVE  Order'
  <2>1. CASE Fetch(l)
    BY <2>1, FetchOrder
  <2>2. CASE Take(l)
    BY <2>2, TakeOrder
  <2>3. CASE Write(l)
    BY <2>3, WriteOrder
  <2>4. CASE Commit(l)
    BY <2>4, CommitOrder
  <2>5. CASE WorkerReturns(l)
    BY <2>5, WorkerReturnsOrder
  <2>6. CASE Rebalance(l)
    BY <2>6, RebalanceOrder
  <2>7. QED BY <1>a, <2>1, <2>2, <2>3, <2>4, <2>5, <2>6
<1>b. ASSUME NEW t \in Tier, Enqueue(t) PROVE Order'
  BY <1>b, EnqueueOrder
<1>c. ASSUME Cancel \/ RunReturns \/ Crash \/ Restart PROVE Order'
  BY <1>c, StopOrder
<1>4. Order'
  BY <1>1, <1>2, <1>3, <1>a, <1>b, <1>c DEF Next
<1>5. QED BY <1>4, NextTypes DEF IInv, Order

(* Every step keeps the types of the variables, and every offset between    *)
(* the reader and the commit names a record of its lane.                    *)
THEOREM TypeCorrect == Spec => []TypeOK
<1>1. IInv => TypeOK
  BY DEF IInv
<1>2. QED BY <1>1, InitIInv, NextIInv, PTL DEF Spec

(* partitionWorker: a commit never passes a record that was not written     *)
(* back to its work topic, for every number of tiers, partitions, channel   *)
(* slots, failed calls, rebalances, cancellations and crashes.              *)
THEOREM CommitsCarried == Spec => []CommittedCarried
<1>1. IInv => CommittedCarried
  BY DEF IInv
<1>2. QED BY <1>1, InitIInv, NextIInv, PTL DEF Spec

(* consumeTier and partitionWorker: the records of one partition are        *)
(* written back in offset order, also when a rebalance fetches some again.  *)
THEOREM CarriedInOrder == Spec => []InOrder
<1>1. IInv => InOrder
  BY DEF IInv
<1>2. QED BY <1>1, InitIInv, NextIInv, PTL DEF Spec

-----------------------------------------------------------------------------
(* No delay is cut short or stretched.                                      *)

TInv == WaitCovered /\ NotEarly /\ NotStretched

LEMMA InitTInv == Init => TInv
BY IdleType DEF Init, TInv, WaitCovered, NotEarly, NotStretched

(* A record is parked with a delay its tier covers.                         *)
LEMMA ParkTInv ==
  ASSUME IInv, TInv, NEW l \in Lane, NEW delay \in Nat, NEW lead \in Leads, Park(l, delay, lead),
         delay <= Tiers[l[1]]
  PROVE  TInv'
<1> DEFINE r == [delay |-> delay, lead |-> lead, age |-> 0]
<1>0. /\ TypeOK /\ InFlight /\ WaitCovered /\ NotEarly /\ NotStretched
      /\ log' = [log EXCEPT ![l] = Append(@, r)] /\ r.delay = delay
      /\ UNCHANGED <<worker, carried>>
  BY DEF Park, IInv, TInv
<1> HIDE DEF r
<1>1. \A k \in Lane : /\ Len(log[k]) \in Nat
                      /\ \A o \in 1..Len(log[k]) : log'[k][o] = log[k][o]
  BY <1>0 DEF TypeOK
<1>2. ASSUME NEW k \in Lane, NEW o \in 1..Len(log'[k]) PROVE log'[k][o].delay <= Tiers[k[1]]
  <2>1. CASE o <= Len(log[k])
    BY <1>0, <1>1, <2>1 DEF WaitCovered
  <2>2. CASE ~(o <= Len(log[k]))
    <3>1. k = l /\ log'[k] = Append(log[k], r) /\ log[k] \in Seq(Record)
      BY <1>0, <1>1, <2>2 DEF TypeOK
    <3>2. log'[k][o] = r
      BY <1>1, <2>2, <3>1
    <3>3. QED BY <1>0, <3>1, <3>2
  <2>3. QED BY <2>1, <2>2
<1>3. \A k \in Lane : worker[k].step = "carry" => log'[k][worker[k].o] = log[k][worker[k].o]
  BY <1>0, <1>1 DEF InFlight
<1>4. \A k \in Lane : \A o \in carried[k] : log'[k][o] = log[k][o]
  BY <1>0, <1>1 DEF InFlight
<1>5. WaitCovered'
  BY <1>0, <1>2, <1>3 DEF WaitCovered
<1>6. NotEarly'
  BY <1>0, <1>4 DEF NotEarly
<1>7. NotStretched'
  BY <1>0, <1>3 DEF NotStretched
<1>8. QED BY <1>5, <1>6, <1>7 DEF TInv

LEMMA TakeTInv == ASSUME IInv, TInv, NEW l \in Lane, Take(l) PROVE TInv'
<1> DEFINE o == Head(chan[l])
           wait == WaitFor(log[l][o], Tiers[l[1]])
<1>0. /\ TypeOK /\ InFlight /\ WaitCovered /\ NotEarly /\ NotStretched /\ chan[l] # <<>>
      /\ worker' = [worker EXCEPT ![l] = [step |-> "carry", o |-> o, left |-> wait]]
      /\ UNCHANGED <<log, carried>>
  BY DEF Take, IInv, TInv
<1>1. chan[l] \in Seq(Nat) /\ Len(chan[l]) > 0 /\ o = chan[l][1] /\ 1 \in 1..Len(chan[l])
  BY <1>0 DEF TypeOK
<1>2. o \in 1..Len(log[l])
  BY <1>0, <1>1 DEF InFlight
<1>a. log[l][o] \in Record /\ log[l][o].delay <= Tiers[l[1]]
  BY <1>0, <1>2 DEF TypeOK, WaitCovered
<1>3. log[l][o] \in Record /\ log[l][o].delay <= Tiers[l[1]] /\ log[l][o].delay \in Nat
  BY <1>a DEF Record
<1>4. wait \in Nat /\ (log[l][o].lead >= 0 => log[l][o].age + wait >= Tiers[l[1]])
  BY <1>3, WaitType, LaneTier
<1>5. log[l][o].age \in Nat
  BY <1>3, AgeAssumption DEF Record
<1>6. log[l][o].lead >= 0 => log[l][o].age + wait >= log[l][o].delay
  BY <1>3, <1>4, <1>5, LaneTier
<1>b. /\ wait <= Tiers[l[1]]
      /\ wait > 0 /\ log[l][o].lead <= 0 => log[l][o].age + wait <= Tiers[l[1]]
  <2> DEFINE a == log[l][o].age
             d == log[l][o].lead
             T == Tiers[l[1]]
  <2>a. \A r \in Record : r.lead \in Int
    BY DelaysAssumption DEF Record
  <2>b. d \in Int
    BY <1>3, <2>a
  <2>1. a \in Int /\ d \in Int /\ T \in Nat
    BY <1>5, <2>b, LaneTier
  <2>2. wait = IF T + d - a < 0 THEN 0 ELSE IF T + d - a > T THEN T ELSE T + d - a
    BY DEF WaitFor
  <2> HIDE DEF a, d, T, wait
  <2>3. wait <= T /\ (wait > 0 /\ d <= 0 => a + wait <= T)
    BY <2>1, <2>2
  <2>4. QED BY <2>3 DEF a, d, T
<1> HIDE DEF o, wait
<1>7. \A k \in Lane : worker'[k] = IF k = l THEN [step |-> "carry", o |-> o, left |-> wait] ELSE worker[k]
  BY <1>0 DEF TypeOK
<1>8. WaitCovered'
  BY <1>0, <1>6, <1>7 DEF WaitCovered
<1>9. NotEarly'
  BY <1>0 DEF NotEarly
<1>10. NotStretched'
  BY <1>0, <1>b, <1>7 DEF NotStretched
<1>11. QED BY <1>8, <1>9, <1>10 DEF TInv

LEMMA WriteTInv == ASSUME IInv, TInv, NEW l \in Lane, Write(l) PROVE TInv'
<1> DEFINE o == worker[l].o
<1>0. /\ TypeOK /\ InFlight /\ WaitCovered /\ NotEarly /\ NotStretched
      /\ worker[l].step = "carry" /\ worker[l].left = 0 /\ log' = log
      /\ carried' = carried \/ carried' = [carried EXCEPT ![l] = @ \cup {o}]
      /\ worker' = worker \/ worker' = [worker EXCEPT ![l].step = "commit"]
  BY DEF Write, Awake, Stored, IInv, TInv
<1>1. o \in 1..Len(log[l])
  BY <1>0 DEF InFlight
<1>a. log[l][o] \in Record
  BY <1>0, <1>1 DEF TypeOK
<1>2. log[l][o].age \in Nat
  BY <1>a, AgeAssumption DEF Record
<1>3. log[l][o].lead >= 0 => log[l][o].age >= log[l][o].delay
  BY <1>0, <1>2 DEF WaitCovered
<1> HIDE DEF o
<1>4. \A k \in Lane : \A x \in carried'[k] : x \in carried[k] \/ (k = l /\ x = o)
  BY <1>0 DEF TypeOK
<1>5. NotEarly'
  BY <1>0, <1>3, <1>4 DEF NotEarly
<1>6. \A k \in Lane : worker'[k].step = "carry" => worker'[k] = worker[k]
  BY <1>0 DEF TypeOK, WorkerState
<1>7. WaitCovered'
  BY <1>0, <1>6 DEF WaitCovered
<1>8. NotStretched'
  BY <1>0, <1>6 DEF NotStretched
<1>9. QED BY <1>5, <1>7, <1>8 DEF TInv

LEMMA TickTInv == ASSUME IInv, TInv, Tick PROVE TInv'
<1>0. /\ TypeOK /\ InFlight /\ WaitCovered /\ NotEarly /\ NotStretched /\ carried' = carried
      /\ log' = [k \in Lane |-> [o \in DOMAIN log[k] |-> Older(log[k][o])]]
      /\ worker' = [k \in Lane |-> [worker[k] EXCEPT !.left = IF @ > 0 THEN @ - 1 ELSE 0]]
  BY DEF Tick, IInv, TInv
<1>1. ASSUME NEW k \in Lane
      PROVE  /\ log[k] \in Seq(Record) /\ Len(log'[k]) = Len(log[k])
             /\ \A o \in 1..Len(log[k]) : log'[k][o] = Older(log[k][o])
  <2>1. log[k] \in Seq(Record)
    BY <1>0 DEF TypeOK
  <2>2. log'[k] = [o \in 1..Len(log[k]) |-> Older(log[k][o])]
    BY <1>0, <2>1
  <2>3. QED BY <2>1, <2>2
<1>2. ASSUME NEW k \in Lane, NEW o \in 1..Len(log[k])
      PROVE  /\ log[k][o] \in Record
             /\ log'[k][o].lead = log[k][o].lead /\ log'[k][o].delay = log[k][o].delay
             /\ log'[k][o].age >= log[k][o].age
             /\ log[k][o].age < MaxAge => log'[k][o].age = log[k][o].age + 1
  <2>1. log[k][o] \in Record /\ log'[k][o] = Older(log[k][o])
    BY <1>1
  <2>2. QED BY <2>1, OlderType
<1>3. \A r \in Record : r.age \in Nat /\ r.age <= MaxAge /\ r.delay \in Nat
  BY AgeAssumption DEF Record
<1>4. NotEarly'
  <2> SUFFICES ASSUME NEW k \in Lane, NEW o \in carried[k], log'[k][o].lead >= 0
               PROVE  log'[k][o].age >= log'[k][o].delay
    BY <1>0 DEF NotEarly
  <2>1. o \in 1..Len(log[k])
    BY <1>0 DEF InFlight
  <2>2. log[k][o].age >= log[k][o].delay
    BY <1>0, <1>2, <2>1 DEF NotEarly
  <2>3. log'[k][o].age >= log[k][o].age /\ log'[k][o].delay = log[k][o].delay
        /\ log[k][o].age \in Nat /\ log[k][o].delay \in Nat /\ log'[k][o].age \in Nat
    BY <1>1, <1>2, <1>3, <2>1, OlderType
  <2>4. QED BY <2>2, <2>3
<1>5. WaitCovered'
  <2>1. \A k \in Lane : \A o \in 1..Len(log'[k]) : log'[k][o].delay <= Tiers[k[1]]
    BY <1>0, <1>1, <1>2 DEF WaitCovered
  <2>2. ASSUME NEW k \in Lane, worker'[k].step = "carry", log'[k][worker'[k].o].lead >= 0
        PROVE  log'[k][worker'[k].o].age + worker'[k].left >= log'[k][worker'[k].o].delay
    <3> DEFINE o == worker[k].o
               d == log[k][o].delay
               a == log[k][o].age
               b == log'[k][o].age
               left == worker[k].left
               left2 == worker'[k].left
    <3>1. /\ worker[k].step = "carry" /\ worker'[k].o = o /\ left \in Nat
          /\ left2 = IF left > 0 THEN left - 1 ELSE 0
      <4>1. /\ worker[k] \in WorkerState
            /\ worker'[k] = [worker[k] EXCEPT !.left = IF @ > 0 THEN @ - 1 ELSE 0]
        BY <1>0 DEF TypeOK
      <4>2. QED BY <2>2, <4>1 DEF WorkerState
    <3>2. o \in 1..Len(log[k])
      BY <1>0, <3>1 DEF InFlight
    <3>3. log'[k][o].delay = d /\ b >= a /\ (a < MaxAge => b = a + 1) /\ log'[k][o].lead = log[k][o].lead
      BY <1>2, <3>2
    <3>4. a \in Nat /\ a <= MaxAge /\ d \in Nat /\ b \in Nat
      BY <1>1, <1>2, <1>3, <3>2, OlderType
    <3>5. a + left >= d
      BY <1>0, <2>2, <3>1, <3>3 DEF WaitCovered
    <3>6. d <= MaxAge
      <4>1. d <= Tiers[k[1]]
        BY <1>0, <3>2 DEF WaitCovered
      <4>2. Tiers[k[1]] + 0 <= MaxAge
        BY LaneTier, AgeAssumption, DelaysAssumption
      <4>3. QED BY <3>4, <4>1, <4>2, LaneTier, AgeAssumption
    <3>7. MaxAge \in Nat
      BY AgeAssumption
    <3> HIDE DEF o, d, a, b, left, left2
    <3>8. b + left2 >= d
      BY <3>1, <3>3, <3>4, <3>5, <3>6, <3>7
    <3>9. QED BY <3>1, <3>3, <3>8 DEF o, b, d, left2
  <2>3. QED BY <2>1, <2>2 DEF WaitCovered
<1>6. NotStretched'
  <2> SUFFICES ASSUME NEW k \in Lane, worker'[k].step = "carry", worker'[k].left > 0
               PROVE  /\ worker'[k].left <= Tiers[k[1]]
                      /\ log'[k][worker'[k].o].lead <= 0
                           => log'[k][worker'[k].o].age + worker'[k].left <= Tiers[k[1]]
    BY DEF NotStretched
  <2> DEFINE o == worker[k].o
             a == log[k][o].age
             b == log'[k][o].age
             left == worker[k].left
             left2 == worker'[k].left
             T == Tiers[k[1]]
  <2>1. /\ worker[k].step = "carry" /\ worker'[k].o = o /\ left \in Nat
        /\ left2 = IF left > 0 THEN left - 1 ELSE 0
    <3>1. /\ worker[k] \in WorkerState
          /\ worker'[k] = [worker[k] EXCEPT !.left = IF @ > 0 THEN @ - 1 ELSE 0]
      BY <1>0 DEF TypeOK
    <3>2. QED BY <3>1 DEF WorkerState
  <2>2. o \in 1..Len(log[k])
    BY <1>0, <2>1 DEF InFlight
  <2>3. log[k][o] \in Record /\ log'[k][o] = Older(log[k][o]) /\ log'[k][o].lead = log[k][o].lead
    BY <1>1, <1>2, <2>2
  <2>4. a \in Nat /\ b \in Nat /\ b <= a + 1 /\ T \in Nat
    <3>1. log[k][o].age \in Nat
      BY <1>3, <2>3
    <3>2. Older(log[k][o]).age \in {log[k][o].age, log[k][o].age + 1}
      BY <2>3 DEF Older, Record
    <3>3. QED BY <3>1, <3>2, <2>3, LaneTier
  <2>5. left > 0
    BY <2>1
  <2>6. left <= T /\ (log[k][o].lead <= 0 => a + left <= T)
    BY <1>0, <2>1, <2>5 DEF NotStretched
  <2> HIDE DEF o, a, b, left, left2, T
  <2>7. left2 <= T /\ (log[k][o].lead <= 0 => b + left2 <= T)
    BY <2>1, <2>4, <2>5, <2>6
  <2>8. QED BY <2>1, <2>3, <2>7 DEF o, b, left2, T
<1>7. QED BY <1>4, <1>5, <1>6 DEF TInv

LEMMA NextTInv == IInv /\ TInv /\ [Next]_vars => TInv'
<1> SUFFICES ASSUME IInv, TInv, [Next]_vars PROVE TInv'
  OBVIOUS
<1>1. ASSUME NEW l \in Lane, NEW lead \in Leads, NEW delay \in Delays, PublishDelayed(l, delay, lead)
      PROVE  TInv'
  <2>1. delay \in Nat /\ delay <= Tiers[l[1]] /\ Park(l, delay, lead)
    BY <1>1, DelaysAssumption, LaneTier DEF PublishDelayed, RetryTopicFor
  <2>2. QED BY <2>1, ParkTInv
<1>2. ASSUME NEW l \in Lane, NEW lead \in Leads, NEW attempts \in 0..Len(Tiers),
             PublishRetryForAttempt(l, attempts, lead)
      PROVE  TInv'
  <2>1. Tiers[l[1]] \in Nat /\ Tiers[l[1]] <= Tiers[l[1]] /\ Park(l, Tiers[l[1]], lead)
    BY <1>2, LaneTier DEF PublishRetryForAttempt
  <2>2. QED BY <2>1, ParkTInv
<1>3. ASSUME log' = log, carried' = carried,
             \A k \in Lane : worker'[k].step = "carry" => worker'[k] = worker[k]
      PROVE  TInv'
  BY <1>3 DEF TInv, WaitCovered, NotEarly, NotStretched
<1>4. ASSUME NEW l \in Lane, Fetch(l) \/ Rebalance(l) PROVE TInv'
  BY <1>3, <1>4 DEF Fetch, Rebalance
<1>5. ASSUME NEW l \in Lane, Commit(l) \/ WorkerReturns(l) PROVE TInv'
  <2>1. log' = log /\ carried' = carried
        /\ (worker' = worker \/ worker' = [worker EXCEPT ![l] = Idle])
    BY <1>5 DEF Commit, WorkerReturns
  <2>2. worker \in [Lane -> WorkerState]
    BY DEF IInv, TypeOK
  <2>3. \A k \in Lane : worker'[k].step = "carry" => worker'[k] = worker[k]
    BY <2>1, <2>2, IdleType
  <2>4. QED BY <1>3, <2>1, <2>3
<1>6. ASSUME RunReturns \/ Crash PROVE TInv'
  <2>1. log' = log /\ carried' = carried /\ Forget
    BY <1>6 DEF RunReturns, Crash
  <2>2. \A k \in Lane : worker'[k] = Idle
    BY <2>1 DEF Forget
  <2>3. QED BY <1>3, <2>1, <2>2, IdleType
<1>7. ASSUME Cancel \/ Restart \/ UNCHANGED vars PROVE TInv'
  BY <1>3, <1>7 DEF Cancel, Restart, vars
<1>8. ASSUME NEW t \in Tier, Enqueue(t) PROVE TInv'
  BY <1>3, <1>8 DEF Enqueue
<1>9. QED
  BY <1>1, <1>2, <1>4, <1>5, <1>6, <1>7, <1>8, TakeTInv, WriteTInv, TickTInv DEF Next

(* retryTopicFor, PublishRetryForAttempt and waitFor together: for every    *)
(* list of tiers and every delay a record is not written back before its    *)
(* delay has passed, by any clock that is not behind.                       *)
THEOREM DelaysKept == Spec => []NotEarly
<1>1. TInv => NotEarly
  BY DEF TInv
<1>2. QED BY <1>1, InitIInv, NextIInv, InitTInv, NextTInv, PTL DEF Spec

(* waitFor's clamp: whatever clock a producer has, no worker sleeps longer  *)
(* than the tier, nor past the end of the tier that began with the record's *)
(* timestamp unless that lies in the future.                                *)
THEOREM DelaysBounded == Spec => []NotStretched
<1>1. TInv => NotStretched
  BY DEF TInv
<1>2. QED BY <1>1, InitIInv, NextIInv, InitTInv, NextTInv, PTL DEF Spec
=============================================================================
