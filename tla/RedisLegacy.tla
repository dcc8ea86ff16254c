---------------------------- MODULE RedisLegacy ----------------------------
(***************************************************************************)
(* The default layout of the redis transport: the ready list, the          *)
(* processing list and the sorted set of deadlines, and the scripts that   *)
(* move values between them.  A script is atomic; a consumer runs a sweep  *)
(* and then a reserve for one reading of its own clock, and later settles  *)
(* what it reserved, is killed, or loses the reservation to another        *)
(* consumer's sweep first.                                                 *)
(***************************************************************************)
EXTENDS Naturals, Sequences, FiniteSets, SortedSets

CONSTANTS
  Consumer,
  NullRetry,         \* consumers built with WithoutRetryAfter
  Unreliable,        \* consumers that may die for good
  Msg,
  Never,             \* the score +inf
  RetryAfter,        \* the reservation window, whole seconds
  Skew,              \* how far each consumer's clock runs ahead
  Batch,             \* WithMigrationBatchSize; 0 stands for -1, all
  OldItems,          \* processing items left by a version without deadlines
  MaxAttempts,       \* the App's limit: a release beyond it never happens
  MaxPublished,      \* bound: publishes
  MaxReservations,   \* bound: reservations
  MaxClock           \* bound: seconds that pass

\* A stored value; equal messages with equal attempts are equal strings.
Raw == [msg : Msg, attempts : 0..MaxAttempts]

Token == 1..MaxReservations

ASSUME ConsumersAssumption ==
  NullRetry \subseteq Consumer /\ Unreliable \subseteq Consumer /\ Skew \in [Consumer -> Nat]

ASSUME LimitsAssumption ==
  /\ RetryAfter \in Nat /\ Batch \in Nat /\ MaxAttempts \in Nat
  /\ MaxPublished \in Nat /\ MaxReservations \in Nat /\ MaxClock \in Nat

\* +inf is later than every clock reading and every finite deadline.
ASSUME NeverAssumption ==
  Never \in Nat /\ \A c \in Consumer : MaxClock + Skew[c] + RetryAfter < Never

ASSUME OldItemsAssumption == OldItems \in [Raw -> Nat]

VARIABLES
  ready,       \* the list <queue>
  processing,  \* the list <queue>:processing; its order is never looked at
  deadlines,   \* the sorted set <queue>:processing:deadlines
  pc,          \* idle, swept, working, down
  pinned,      \* the clock reading of the consumer's current poll
  job,         \* the reservation the consumer works on
  now,         \* the time, in whole seconds
  published,   \* how many values were published
  reserved,    \* how many tokens were drawn
  ended        \* history: values acknowledged or dead-lettered

vars == <<ready, processing, deadlines, pc, pinned, job, now, published, reserved, ended>>

Deadline == [token : Token, raw : Raw, score : Nat]

NoJob == [token |-> 0]

Clock(c) == now + Skew[c]

TypeOK ==
  /\ ready \in Seq(Raw)
  /\ processing \in [Raw -> Nat]
  /\ deadlines \subseteq Deadline
  /\ pc \in [Consumer -> {"idle", "swept", "working", "down"}]
  /\ pinned \in [Consumer -> Nat]
  /\ job \in [Consumer -> Deadline \cup {NoJob}]
  /\ \A c \in Consumer : pc[c] = "working" => job[c] \in Deadline
  /\ now \in 0..MaxClock
  /\ published \in 0..MaxPublished
  /\ reserved \in 0..MaxReservations
  /\ ended \in [Raw -> Nat]

Init ==
  /\ ready = <<>>
  /\ processing = OldItems
  /\ deadlines = {}
  /\ pc = [c \in Consumer |-> "idle"]
  /\ pinned = [c \in Consumer |-> 0]
  /\ job = [c \in Consumer |-> NoJob]
  /\ now = 0
  /\ published = 0
  /\ reserved = 0
  /\ ended = [r \in Raw |-> 0]

-----------------------------------------------------------------------------
(* Producers and time.                                                      *)

\* Publish: RPUSH.  The same body may be published again.
Publish(m) ==
  /\ published < MaxPublished
  /\ ready' = Append(ready, [msg |-> m, attempts |-> 0])
  /\ published' = published + 1
  /\ UNCHANGED <<processing, deadlines, pc, pinned, job, now, reserved, ended>>

Tick ==
  /\ now < MaxClock
  /\ now' = now + 1
  /\ UNCHANGED <<ready, processing, deadlines, pc, pinned, job, published, reserved, ended>>

-----------------------------------------------------------------------------
(* Pop: the sweep, then the reserve, at one reading of the clock.           *)

\* How many of the first i members of s reserve r.
Upto(s, i, r) == Cardinality({j \in 1..i : s[j].raw = r})

\* LREM finds a copy of the i-th member's value, after the members before it.
Found(s, i) == Upto(s, i, s[i].raw) <= processing[s[i].raw]

\* Positions in increasing order.
InOrder(positions) ==
  {f \in [1..Cardinality(positions) -> positions] :
     \A j, k \in 1..Cardinality(positions) : j < k => f[j] < f[k]}

\* Expired values return to the ready list unchanged; an orphan is only removed.
SweepMembers(s) ==
  /\ deadlines' = deadlines \ {s[i] : i \in 1..Len(s)}
  /\ \E moved \in InOrder({i \in 1..Len(s) : Found(s, i)}) :
       ready' = ready \o [k \in 1..Len(moved) |-> s[moved[k]].raw]
  /\ processing' = [r \in Raw |->
       IF processing[r] < Upto(s, Len(s), r) THEN 0 ELSE processing[r] - Upto(s, Len(s), r)]

\* Mutant: a consumer without retry_after sweeps for nobody.
SweepOwn(c) ==
  /\ pc[c] = "idle"
  /\ \E s \in ZRangeByScore(IF c \in NullRetry THEN {} ELSE deadlines, Clock(c), Batch) :
       SweepMembers(s)
  /\ pc' = [pc EXCEPT ![c] = "swept"]
  /\ pinned' = [pinned EXCEPT ![c] = Clock(c)]
  /\ UNCHANGED <<job, now, published, reserved, ended>>

\* reserveLegacy, first script, whatever the consumer's own retry_after.
Sweep(c) ==
  /\ pc[c] = "idle"
  /\ \E s \in ZRangeByScore(deadlines, Clock(c), Batch) : SweepMembers(s)
  /\ pc' = [pc EXCEPT ![c] = "swept"]
  /\ pinned' = [pinned EXCEPT ![c] = Clock(c)]
  /\ UNCHANGED <<job, now, published, reserved, ended>>

\* deadlineArg: floor(now)+retry_after, or +inf.
DeadlineArg(c) == IF c \in NullRetry THEN Never ELSE pinned[c] + RetryAfter

\* Room within the bounds: tokens are left and the deadline can still pass.
Room(c) ==
  /\ reserved < MaxReservations
  /\ c \in NullRetry \/ DeadlineArg(c) <= MaxClock

\* legacyReserveScript: LMOVE the head and record its deadline under a fresh token.
Reserve(c) ==
  /\ pc[c] = "swept"
  /\ Len(ready) > 0
  /\ Room(c)
  /\ LET raw == Head(ready)
         d   == [token |-> reserved + 1, raw |-> raw, score |-> DeadlineArg(c)]
     IN /\ ready' = Tail(ready)
        /\ processing' = [processing EXCEPT ![raw] = @ + 1]
        /\ deadlines' = deadlines \cup {d}
        /\ job' = [job EXCEPT ![c] = d]
  /\ reserved' = reserved + 1
  /\ pc' = [pc EXCEPT ![c] = "working"]
  /\ UNCHANGED <<pinned, now, published, ended>>

\* The queue is empty (or the bounds are used up): poll again later.
ReserveEmpty(c) ==
  /\ pc[c] = "swept"
  /\ Len(ready) = 0 \/ ~Room(c)
  /\ pc' = [pc EXCEPT ![c] = "idle"]
  /\ UNCHANGED <<ready, processing, deadlines, pinned, job, now, published, reserved, ended>>

-----------------------------------------------------------------------------
(* Settling: Ack, Release and DeadLetter, gated on the own deadline member. *)

\* Mutant: the result of ZREM is not looked at.
GateOpen(c) == TRUE

\* ZREM removes the member <token>:<raw>.
Gate(c) == job[c] \in deadlines

\* LREM 1: one copy of the value leaves the processing list, if there is one.
Lrem(raw) == [processing EXCEPT ![raw] = IF @ > 0 THEN @ - 1 ELSE 0]

DropReservation(c) ==
  /\ deadlines' = deadlines \ {job[c]}
  /\ processing' = Lrem(job[c].raw)

\* The script returned 0: a warning is logged and the call succeeds.
GateMissed == UNCHANGED <<ready, processing, deadlines, ended>>

Done(c) ==
  /\ pc' = [pc EXCEPT ![c] = "idle"]
  /\ UNCHANGED <<pinned, job, now, published, reserved>>

\* Ack, or DeadLetter, whose record goes to another list in the same script.
End(c) ==
  /\ pc[c] = "working"
  /\ \/ /\ Gate(c)
        /\ DropReservation(c)
        /\ ended' = [ended EXCEPT ![job[c].raw] = @ + 1]
        /\ UNCHANGED ready
     \/ ~Gate(c) /\ GateMissed
  /\ Done(c)

\* Mutant: both the App and the transport advance the attempts.
ReleaseTwice(c) ==
  /\ pc[c] = "working"
  /\ job[c].raw.attempts < MaxAttempts
  /\ \/ /\ Gate(c)
        /\ DropReservation(c)
        /\ ready' = Append(ready, [job[c].raw EXCEPT !.attempts = @ + 2])
        /\ UNCHANGED ended
     \/ ~Gate(c) /\ GateMissed
  /\ Done(c)

\* Mutant: the push does not depend on the gate.
ReleaseUngated(c) ==
  /\ pc[c] = "working"
  /\ job[c].raw.attempts < MaxAttempts
  /\ IF Gate(c) THEN DropReservation(c) ELSE UNCHANGED <<processing, deadlines>>
  /\ ready' = Append(ready, [job[c].raw EXCEPT !.attempts = @ + 1])
  /\ UNCHANGED ended
  /\ Done(c)

\* Release: a gated move to the ready list, attempts advanced, no delay.
Release(c) ==
  /\ pc[c] = "working"
  /\ job[c].raw.attempts < MaxAttempts
  /\ \/ /\ Gate(c)
        /\ DropReservation(c)
        /\ ready' = Append(ready, [job[c].raw EXCEPT !.attempts = @ + 1])
        /\ UNCHANGED ended
     \/ ~Gate(c) /\ GateMissed
  /\ Done(c)

\* The process dies, or a call fails before it reaches redis.
Abandon(c) ==
  /\ pc[c] \in {"swept", "working"}
  /\ GateMissed
  /\ \/ pc' = [pc EXCEPT ![c] = "idle"]
     \/ c \in Unreliable /\ pc' = [pc EXCEPT ![c] = "down"]
  /\ UNCHANGED <<pinned, job, now, published, reserved>>

Poll(c) == Sweep(c) \/ Reserve(c) \/ ReserveEmpty(c)

Next ==
  \/ \E m \in Msg : Publish(m)
  \/ Tick
  \/ \E c \in Consumer : Poll(c) \/ End(c) \/ Release(c) \/ Abandon(c)

Spec == Init /\ [][Next]_vars

\* Time passes, and a consumer that is up polls and settles.
Fairness ==
  /\ WF_vars(Tick)
  /\ \A c \in Consumer : WF_vars(Poll(c)) /\ WF_vars(End(c) \/ Release(c))

FairSpec == Spec /\ Fairness

-----------------------------------------------------------------------------
(* Properties.                                                              *)

Holding(r) == {d \in deadlines : d.raw = r}

(* The processing list holds exactly one copy per deadline member, besides  *)
(* the items an older version left there, which no script ever touches: no  *)
(* interleaving of sweeps and late settles removes another consumer's copy  *)
(* ("a late ack never deletes another consumer's copy").                    *)
Accounting == \A r \in Raw : processing[r] = OldItems[r] + Cardinality(Holding(r))

(* No consumer loses its reservation before its deadline has passed on some *)
(* consumer's clock, and one without retry_after never loses it.            *)
LeaseHonoured ==
  \A c \in Consumer :
    pc[c] = "working" /\ (\A k \in Consumer : Clock(k) < job[c].score) => Gate(c)

(* A recorded reservation with a finite deadline ends: it is settled or,    *)
(* when its consumer died, swept by any consumer that still polls.          *)
Recovered ==
  \A t \in Token :
    (\E d \in deadlines : d.token = t /\ d.score # Never) ~> (\A d \in deadlines : d.token # t)

\* How many copies of each value are in the ready list.
Waiting == [r \in Raw |-> Cardinality({i \in 1..Len(ready) : ready[i] = r})]

LeaseOf(d) == [token |-> d.token, value |-> d.raw]

Leases == {LeaseOf(d) : d \in deadlines}

LQ == INSTANCE LeaseQueue WITH
  Value   <- Raw,
  Fresh   <- {r \in Raw : r.attempts = 0},
  waiting <- Waiting,
  leases  <- Leases

(* The three keys and their scripts implement the abstract lease queue.     *)
ImplementsLeaseQueue == LQ!Spec

-----------------------------------------------------------------------------
\* The inductive invariant behind Accounting: tokens in use were drawn before.
TokensDrawn == \A d \in deadlines : d.token <= reserved

IInv == TypeOK /\ IsFiniteSet(deadlines) /\ TokensDrawn /\ Accounting

\* The inductive invariant behind LeaseHonoured: no two consumers hold one token.
OwnTokens ==
  /\ \A c \in Consumer : pc[c] = "working" => job[c].token <= reserved
  /\ \A c, k \in Consumer :
       pc[c] = "working" /\ pc[k] = "working" /\ c # k => job[c].token # job[k].token

LeaseInv == OwnTokens /\ LeaseHonoured

\* The inductive invariant behind the refinement: a token names one member.
OneToken == \A d, e \in deadlines : d.token = e.token => d = e
=============================================================================
