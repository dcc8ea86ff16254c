------------------------------- MODULE Outbox -------------------------------
(***************************************************************************)
(* The transactional outbox: rows the business transactions commit, and    *)
(* relays that drain them (Drain, a loop over Flush) through the           *)
(* transport's Publish.  The store is the reference one: oldest rows       *)
(* first, no claim on the rows it hands out, so several relays may hold    *)
(* the same row.  It is durable; what a relay knows dies with it.          *)
(***************************************************************************)
EXTENDS Naturals, FiniteSets

CONSTANTS
  Relay,       \* processes running Drain against one store
  Refused,     \* rows the transport never accepts
  BatchSize,   \* Options.BatchSize
  MaxPasses,   \* Drain's ceiling
  CapSteps,    \* attempts after which the backoff is at its cap
  MaxRows,     \* bound: rows written
  MaxFaults    \* bound: failed calls, lost replies and crashes

Row == 1..MaxRows

ASSUME RowsAssumption == MaxRows \in Nat /\ Refused \subseteq Row

ASSUME RelayAssumption ==
  /\ IsFiniteSet(Relay)
  /\ BatchSize \in Nat \ {0} /\ MaxPasses \in Nat /\ CapSteps \in Nat /\ MaxFaults \in Nat

VARIABLES
  written,     \* how many rows were committed; row n is the n-th
  published,   \* rows marked published
  attempts,    \* recorded failures of each row, as far as the backoff tells them apart
  pc,          \* idle, fetch, publish, failed, mark
  todo,        \* rows of the relay's batch it has still to publish
  accepted,    \* publishedIDs: rows of the batch the transport accepted
  pass,        \* Flush calls of the current Drain
  faults,      \* faults that have happened
  sent,        \* history: messages of each row the broker took
  horizon,     \* history: the rows written when the relay fetched its batch
  left         \* history: of those, what the last Drain to stop for lack of progress left

store == <<written, published, attempts>>
vars  == <<written, published, attempts, pc, todo, accepted, pass, faults, sent, horizon, left>>
drains == <<horizon, left>>

TypeOK ==
  /\ written \in 0..MaxRows
  /\ published \subseteq Row
  /\ attempts \in [Row -> 0..CapSteps]
  /\ pc \in [Relay -> {"idle", "fetch", "publish", "failed", "mark"}]
  /\ todo \in [Relay -> SUBSET Row]
  /\ accepted \in [Relay -> SUBSET Row]
  /\ pass \in [Relay -> 0..MaxPasses]
  /\ faults \in 0..MaxFaults
  /\ sent \in [Row -> Nat]
  /\ horizon \in [Relay -> 0..MaxRows]
  /\ left \subseteq Row

Init ==
  /\ written = 0
  /\ published = {}
  /\ attempts = [x \in Row |-> 0]
  /\ pc = [r \in Relay |-> "idle"]
  /\ todo = [r \in Relay |-> {}]
  /\ accepted = [r \in Relay |-> {}]
  /\ pass = [r \in Relay |-> 0]
  /\ faults = 0
  /\ sent = [x \in Row |-> 0]
  /\ horizon = [r \in Relay |-> 0]
  /\ left = {}

\* Mutant: the published flag is not looked at.
PendingAll == 1..written

Pending == {x \in 1..written : x \notin published}

\* The first row of a set: rows are numbered in the order they were written.
First(rows, x) == x \in rows /\ \A y \in rows : x <= y

Goto(r, step) == pc' = [pc EXCEPT ![r] = step]

Fault ==
  /\ faults < MaxFaults
  /\ faults' = faults + 1

NoFault == UNCHANGED faults

-----------------------------------------------------------------------------
(* The writer and the start of a Drain.                                     *)

\* Write: the row commits with the business transaction.
Write ==
  /\ written < MaxRows
  /\ written' = written + 1
  /\ UNCHANGED <<published, attempts, pc, todo, accepted, pass, faults, sent, drains>>

\* The worker loop or the scheduler calls Drain.
Drain(r) ==
  /\ pc[r] = "idle"
  /\ MaxPasses > 0
  /\ Goto(r, "fetch")
  /\ pass' = [pass EXCEPT ![r] = 0]
  /\ UNCHANGED <<store, todo, accepted, faults, sent, drains>>

-----------------------------------------------------------------------------
(* Flush: fetch a batch, publish row by row, mark what was accepted.        *)

\* The oldest rows of the pending ones, at most BatchSize.
Oldest(rows) == {x \in rows : Cardinality({y \in rows : y < x}) < BatchSize}

\* FetchUnpublished; an error ends the Drain.
Fetch(r) ==
  /\ pc[r] = "fetch"
  /\ \/ /\ todo' = [todo EXCEPT ![r] = Oldest(Pending)]
        /\ accepted' = [accepted EXCEPT ![r] = {}]
        /\ pass' = [pass EXCEPT ![r] = @ + 1]
        /\ Goto(r, IF Pending = {} THEN "mark" ELSE "publish")
        /\ NoFault
     \/ Fault /\ Goto(r, "idle") /\ UNCHANGED <<todo, accepted, pass>>
  /\ horizon' = [horizon EXCEPT ![r] = written]
  /\ UNCHANGED <<store, sent, left>>

\* After a row: the next one, or the end of the batch.
Advance(r, x) ==
  /\ todo' = [todo EXCEPT ![r] = @ \ {x}]
  /\ Goto(r, IF todo[r] = {x} THEN "mark" ELSE "publish")

\* The row's body is sent as it is stored.
Sent(x) == sent' = [sent EXCEPT ![x] = @ + 1]

\* The transport accepts the row.
Publish(r, x) ==
  /\ pc[r] = "publish"
  /\ First(todo[r], x)
  /\ x \notin Refused
  /\ Sent(x)
  /\ accepted' = [accepted EXCEPT ![r] = @ \cup {x}]
  /\ Advance(r, x)
  /\ UNCHANGED <<store, pass, faults, drains>>

\* Mutant: the row joins publishedIDs before the outcome of the call is known.
PublishErrorListed(r, x) ==
  /\ pc[r] = "publish"
  /\ First(todo[r], x)
  /\ \/ x \in Refused /\ NoFault /\ UNCHANGED sent
     \/ x \notin Refused /\ Fault /\ (Sent(x) \/ UNCHANGED sent)
  /\ accepted' = [accepted EXCEPT ![r] = @ \cup {x}]
  /\ Goto(r, "failed")
  /\ UNCHANGED <<store, todo, pass, drains>>

\* Publish returns an error: the row is refused, the broker is away or its reply is lost.
PublishError(r, x) ==
  /\ pc[r] = "publish"
  /\ First(todo[r], x)
  /\ \/ x \in Refused /\ NoFault /\ UNCHANGED sent
     \/ x \notin Refused /\ Fault /\ (Sent(x) \/ UNCHANGED sent)
  /\ Goto(r, "failed")
  /\ UNCHANGED <<store, todo, accepted, pass, drains>>

\* Mutant: no cap.
CountedUncapped(n) == n + 1

\* backoffFor grows with the attempts up to its cap, and so does this counter.
Counted(n) == IF n < CapSteps THEN n + 1 ELSE CapSteps

\* Mutant: the first failure ends the pass.
MarkFailedStops(r, x) ==
  /\ pc[r] = "failed"
  /\ First(todo[r], x)
  /\ attempts' = [attempts EXCEPT ![x] = Counted(@)]
  /\ Goto(r, "idle")
  /\ UNCHANGED <<written, published, todo, accepted, pass, faults, sent, drains>>

\* MarkFailed, then the backoff and the next row; an error ends the Drain before
\* the accepted rows are marked.
MarkFailed(r, x) ==
  /\ pc[r] = "failed"
  /\ First(todo[r], x)
  /\ \/ /\ attempts' = [attempts EXCEPT ![x] = Counted(@)]
        /\ Advance(r, x)
        /\ NoFault
     \/ Fault /\ Goto(r, "idle") /\ UNCHANGED <<attempts, todo>>
  /\ UNCHANGED <<written, published, accepted, pass, sent, drains>>

\* MarkPublished, and Drain's decision: another pass after progress, up to the ceiling.
MarkPublished(r) ==
  /\ pc[r] = "mark"
  /\ \/ /\ published' = published \cup accepted[r]
        /\ Goto(r, IF accepted[r] # {} /\ pass[r] < MaxPasses THEN "fetch" ELSE "idle")
        /\ left' = IF accepted[r] = {} THEN Pending \cap (1..horizon[r]) ELSE left
        /\ NoFault
     \/ /\ accepted[r] # {}
        /\ Fault
        /\ Goto(r, "idle")
        /\ UNCHANGED <<published, left>>
  /\ UNCHANGED <<horizon, written, attempts, todo, accepted, pass, sent>>

\* The process dies between two calls.
Crash(r) ==
  /\ pc[r] # "idle"
  /\ Fault
  /\ Goto(r, "idle")
  /\ UNCHANGED <<store, todo, accepted, pass, sent, drains>>

Flush(r) ==
  \/ Fetch(r)
  \/ \E x \in Row : Publish(r, x) \/ PublishError(r, x) \/ MarkFailed(r, x)
  \/ MarkPublished(r)

Next ==
  \/ Write
  \/ \E r \in Relay : Drain(r) \/ Flush(r) \/ Crash(r)

Spec == Init /\ [][Next]_vars

\* Drain is called again and again and its calls return.
Fairness == \A r \in Relay : WF_vars(Drain(r) \/ Flush(r))

FairSpec == Spec /\ Fairness

-----------------------------------------------------------------------------
(* Properties.                                                              *)

(* A row is marked published only if the broker took its message, whatever  *)
(* fails and however the relays interleave ("A row is marked published only *)
(* AFTER Transport.Publish returns").                                       *)
MarkedWasSent == \A x \in published : sent[x] > 0

(* Duplicates are bounded: a row reaches the broker once per relay that     *)
(* held it unclaimed, and once more per fault ("at-least-once tolerates a   *)
(* rare double send").                                                      *)
BoundedDuplicates == \A x \in Row : sent[x] <= Cardinality(Relay) + faults

(* Every row the transport accepts is published in the end, as long as the  *)
(* refused rows do not fill a batch ("One poison row never blocks the rest  *)
(* of the batch").                                                          *)
Relayed == \A x \in Row \ Refused : x <= written ~> x \in published

(* "The loop stops as soon as a pass publishes nothing - the outbox is      *)
(* empty, or only currently failing rows remain": when a lone relay's Drain *)
(* returns for that reason and no call failed, only refused rows are left   *)
(* of those that were there when its last pass began.                       *)
DrainComplete == faults = 0 => left \subseteq Refused

-----------------------------------------------------------------------------
(* The inductive invariant.                                                 *)

\* A relay that is to fetch has a pass left.
PassLeft == \A r \in Relay : pc[r] = "fetch" => pass[r] < MaxPasses

\* What a relay is about to mark was sent.
AcceptedWasSent == \A r \in Relay : \A x \in accepted[r] : sent[x] > 0

IInv == TypeOK /\ PassLeft /\ AcceptedWasSent /\ MarkedWasSent

\* The relays that have still to publish x, and those that have sent but not marked it.
Holders(x)   == {r \in Relay : x \in todo[r] /\ pc[r] \in {"publish", "failed"}}
Unmarked(x)  == {r \in Relay : x \in accepted[r] /\ pc[r] \in {"publish", "failed", "mark"}}

\* A row of a batch is still to be published or accepted, never both.
BatchSplit == \A r \in Relay : pc[r] \in {"publish", "failed"} => todo[r] \cap accepted[r] = {}

\* Behind BoundedDuplicates: faults apart, a row that is not marked was sent once per
\* relay about to mark it; a marked one is sent again only by those that hold it.
CopiesCounted ==
  \A x \in Row :
    IF x \in published
    THEN sent[x] + Cardinality(Holders(x)) <= Cardinality(Relay) + faults
    ELSE sent[x] <= Cardinality(Unmarked(x)) + faults
=============================================================================
