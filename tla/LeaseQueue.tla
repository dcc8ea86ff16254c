----------------------------- MODULE LeaseQueue -----------------------------
(***************************************************************************)
(* What a reservation-based transport promises the App: a copy of a        *)
(* message is waiting, under exactly one lease, or ended; only the lease's *)
(* holder can end it or put it back, a lease may lapse at any time, and a  *)
(* settle that comes after the lapse changes nothing.                      *)
(***************************************************************************)
EXTENDS Naturals, FiniteSets

CONSTANTS
  Value,
  Fresh,     \* values as producers write them
  Token

VARIABLES
  waiting,   \* how many copies of each value are waiting
  leases,    \* the leases in force: a token and the value it reserves
  ended      \* how many copies of each value were acknowledged or dead-lettered

Lease == [token : Token, value : Value]

Init ==
  /\ waiting = [v \in Value |-> 0]
  /\ leases = {}
  /\ ended = [v \in Value |-> 0]

Enqueue(v) ==
  /\ waiting' = [waiting EXCEPT ![v] = @ + 1]
  /\ UNCHANGED <<leases, ended>>

Grant(l) ==
  /\ waiting[l.value] > 0
  /\ \A k \in leases : k.token # l.token
  /\ waiting' = [waiting EXCEPT ![l.value] = @ - 1]
  /\ leases' = leases \cup {l}
  /\ UNCHANGED ended

\* The lease's copy ends.
Finish(l) ==
  /\ l \in leases
  /\ leases' = leases \ {l}
  /\ ended' = [ended EXCEPT ![l.value] = @ + 1]
  /\ UNCHANGED waiting

\* The lease's copy waits again, as v.
GiveBack(l, v) ==
  /\ l \in leases
  /\ leases' = leases \ {l}
  /\ waiting' = [waiting EXCEPT ![v] = @ + 1]
  /\ UNCHANGED ended

\* Several leases lapse at once, each returning its own copy unchanged.
Lapse(gone) ==
  /\ leases' = leases \ gone
  /\ waiting' = [v \in Value |-> waiting[v] + Cardinality({l \in gone : l.value = v})]
  /\ UNCHANGED ended

Next ==
  \/ \E v \in Fresh : Enqueue(v)
  \/ \E l \in Lease : Grant(l)
  \/ \E l \in leases : Finish(l) \/ \E v \in Value : GiveBack(l, v)
  \/ \E gone \in SUBSET leases : Lapse(gone)

Spec == Init /\ [][Next]_<<waiting, leases, ended>>
=============================================================================
