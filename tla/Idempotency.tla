----------------------------- MODULE Idempotency ----------------------------
(***************************************************************************)
(* idempotency.Wrap around a handler, run by consumers that share a store  *)
(* of processed ids, under a broker that may deliver a message again and   *)
(* to several consumers at once.  The store is any of the three: a map, a  *)
(* redis key per id, a postgres row per id; only the last two expire ids.  *)
(***************************************************************************)
EXTENDS Naturals, FiniteSets

CONSTANTS
  Consumer,
  Msg,
  NoId,           \* messages with an empty meta.id
  Evicts,         \* ids leave the store: it was built WithTTL, or Forget is called
  MaxDeliveries,  \* bound: deliveries of one message
  MaxFaults       \* bound: failed store calls, crashes and evictions

ASSUME ConstantsAssumption ==
  /\ IsFiniteSet(Consumer) /\ NoId \subseteq Msg /\ Evicts \in BOOLEAN
  /\ MaxDeliveries \in Nat /\ MaxFaults \in Nat

VARIABLES
  remembered,  \* the ids in the store that have not expired
  pc,          \* idle, seen, run, remember
  job,         \* the message each consumer was handed
  deliveries,  \* deliveries of each message
  faults,      \* faults and evictions that have happened
  runs,        \* history: handler runs that succeeded
  acked        \* history: messages some delivery of which returned nil

vars == <<remembered, pc, job, deliveries, faults, runs, acked>>

TypeOK ==
  /\ remembered \subseteq Msg \ NoId
  /\ pc \in [Consumer -> {"idle", "seen", "run", "remember"}]
  /\ job \in [Consumer -> Msg]
  /\ \A c \in Consumer : pc[c] \in {"seen", "remember"} => job[c] \notin NoId
  /\ deliveries \in [Msg -> 0..MaxDeliveries]
  /\ faults \in 0..MaxFaults
  /\ runs \in [Msg -> Nat]
  /\ acked \subseteq Msg

Init ==
  /\ remembered = {}
  /\ pc = [c \in Consumer |-> "idle"]
  /\ job \in [Consumer -> Msg]
  /\ deliveries = [m \in Msg |-> 0]
  /\ faults = 0
  /\ runs = [m \in Msg |-> 0]
  /\ acked = {}

Goto(c, step) == pc' = [pc EXCEPT ![c] = step]

Fault ==
  /\ faults < MaxFaults
  /\ faults' = faults + 1

NoFault == UNCHANGED faults

\* The wrapped handler returns nil: the App acknowledges the delivery.
ReturnNil(c) ==
  /\ Goto(c, "idle")
  /\ acked' = acked \cup {job[c]}

\* It returns an error: the App retries or dead-letters the message.
ReturnError(c) ==
  /\ Goto(c, "idle")
  /\ UNCHANGED acked

\* Mutant: an empty id is looked up like any other.
DeliverLookedUp(c, m) ==
  /\ pc[c] = "idle"
  /\ deliveries[m] < MaxDeliveries
  /\ deliveries' = [deliveries EXCEPT ![m] = @ + 1]
  /\ job' = [job EXCEPT ![c] = m]
  /\ Goto(c, "seen")
  /\ UNCHANGED <<remembered, faults, runs, acked>>

\* The App calls the wrapped handler; an id that is empty is not looked up.
Deliver(c, m) ==
  /\ pc[c] = "idle"
  /\ deliveries[m] < MaxDeliveries
  /\ deliveries' = [deliveries EXCEPT ![m] = @ + 1]
  /\ job' = [job EXCEPT ![c] = m]
  /\ Goto(c, IF m \in NoId THEN "run" ELSE "seen")
  /\ UNCHANGED <<remembered, faults, runs, acked>>

\* Mutant: the id is remembered when it is looked up, before the handler runs.
SeenClaimed(c) ==
  /\ pc[c] = "seen"
  /\ remembered' = remembered \cup {job[c]}
  /\ IF job[c] \in remembered THEN ReturnNil(c) ELSE Goto(c, "run") /\ UNCHANGED acked
  /\ UNCHANGED <<job, deliveries, faults, runs>>

\* Mutant: the answer of the store is not looked at.
SeenIgnored(c) ==
  /\ pc[c] = "seen"
  /\ Goto(c, "run")
  /\ UNCHANGED <<remembered, job, deliveries, faults, runs, acked>>

\* store.Seen: a seen id is skipped; the state is not guessed when the store fails.
Seen(c) ==
  /\ pc[c] = "seen"
  /\ \/ /\ IF job[c] \in remembered THEN ReturnNil(c) ELSE Goto(c, "run") /\ UNCHANGED acked
        /\ NoFault
     \/ Fault /\ ReturnError(c)
  /\ UNCHANGED <<remembered, job, deliveries, runs>>

\* The inner handler: its error propagates and leaves the id unmarked.
Run(c) ==
  /\ pc[c] = "run"
  /\ \/ /\ runs' = [runs EXCEPT ![job[c]] = @ + 1]
        /\ IF job[c] \in NoId THEN ReturnNil(c) ELSE Goto(c, "remember") /\ UNCHANGED acked
     \/ ReturnError(c) /\ UNCHANGED runs
  /\ UNCHANGED <<remembered, job, deliveries, faults>>

\* store.Remember, by an atomic claim whose result nobody looks at; its error is
\* ignored and the delivery is acknowledged all the same.
Remember(c) ==
  /\ pc[c] = "remember"
  /\ \/ remembered' = remembered \cup {job[c]} /\ NoFault
     \/ UNCHANGED remembered /\ Fault
  /\ ReturnNil(c)
  /\ UNCHANGED <<job, deliveries, runs>>

\* An id leaves the store: its TTL lapses, or an operator calls Forget.
Evict(m) ==
  /\ m \in remembered
  /\ Evicts
  /\ remembered' = remembered \ {m}
  /\ Fault
  /\ UNCHANGED <<pc, job, deliveries, runs, acked>>

\* The consumer dies; the store keeps what it has.
Crash(c) ==
  /\ pc[c] # "idle"
  /\ Fault
  /\ Goto(c, "idle")
  /\ UNCHANGED <<remembered, job, deliveries, runs, acked>>

Next ==
  \/ \E c \in Consumer :
       \/ \E m \in Msg : Deliver(c, m)
       \/ Seen(c) \/ Run(c) \/ Remember(c) \/ Crash(c)
  \/ \E m \in Msg : Evict(m)

Spec == Init /\ [][Next]_vars

-----------------------------------------------------------------------------
(* Properties.                                                              *)

(* A delivery is acknowledged only if the handler succeeded for its message *)
(* before: the guard never skips work that was not done, whatever dies or   *)
(* fails between the look-up, the handler and the mark.                     *)
SkippedWasRun == \A m \in acked : runs[m] > 0

(* Duplicate work is bounded: a message with an id runs again only because  *)
(* consumers handled it at the same time, and again so after each fault or  *)
(* eviction ("the documented at-least-once dual-write window"), however     *)
(* often the broker delivers it.                                            *)
BoundedReruns == \A m \in Msg \ NoId : runs[m] <= Cardinality(Consumer) * (1 + faults)

-----------------------------------------------------------------------------
(* The inductive invariant.  Behind SkippedWasRun: a remembered id, and one *)
(* about to be remembered, was run.  Behind BoundedReruns: since the last   *)
(* fault an id that is not remembered ran once for each consumer that is    *)
(* about to remember it, and a remembered one can only be run by those that *)
(* looked it up before.                                                     *)

RememberedWasRun ==
  /\ \A m \in remembered : runs[m] > 0
  /\ \A c \in Consumer : pc[c] = "remember" => runs[job[c]] > 0

IInv == TypeOK /\ RememberedWasRun /\ SkippedWasRun

At(m, step) == {c \in Consumer : job[c] = m /\ pc[c] = step}

Width == Cardinality(Consumer)

RerunsCounted ==
  \A m \in Msg \ NoId :
    IF m \in remembered
    THEN runs[m] + Cardinality(At(m, "run")) <= Width * (1 + faults)
    ELSE runs[m] <= Width * faults + Cardinality(At(m, "remember"))
=============================================================================
