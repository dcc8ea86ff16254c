------------------------------- MODULE Kafka -------------------------------
(***************************************************************************)
(* The Kafka transport of kafka/kafka.go as a consumer sees it: one reader *)
(* per process and topic, opened by the first Pop, dropped by Rewind and   *)
(* Close; Ack commits an offset, and a commit is cumulative.  The broker   *)
(* keeps one partition per topic, assigns it to one member of the group    *)
(* and starts a new assignment at the committed offset.                    *)
(*                                                                         *)
(* All topics share one log, so an offset also tells which of two records  *)
(* was written first; the offsets of one topic have gaps, as Kafka's may.  *)
(***************************************************************************)
EXTENDS Naturals, Sequences

CONSTANTS
  Proc,        \* processes, each with a Transport of its own
  Msg,         \* the messages producers put on the work topic
  NoProc,      \* no process
  MaxAttempts, \* WithMaxAttempts
  MaxFaults    \* bound: failed calls, lost replies, crashes, rebalances, closes

ASSUME NoProcAssumption == NoProc \notin Proc

ASSUME KafkaBounds == MaxAttempts \in Nat /\ MaxFaults \in Nat

\* The work topic and its dead-letter topic <queue>.dlq.
Queue == {"work", "dlq"}

\* job: decodes; gated: the version gate rejects it, its body decodes;
\* poison: does not decode.
Kinds == {"job", "gated", "poison"}

Record == [queue : Queue, msg : Msg, kind : Kinds, attempts : Nat]

VARIABLES
  log,        \* every record of every topic, in the order of the writes
  committed,  \* the group's committed offset of each topic: the next to read
  open,       \* the processes that hold a reader of the topic
  owner,      \* the member the topic's partition is assigned to
  pos,        \* the next offset the assigned reader fetches
  closed,     \* the processes whose Transport was closed
  faults      \* faults that have happened

broker == <<log, committed, open, owner, pos, closed>>

BrokerTypeOK ==
  /\ log \in Seq(Record)
  /\ committed \in [Queue -> Nat]
  /\ open \in [Queue -> SUBSET Proc]
  /\ owner \in [Queue -> Proc \cup {NoProc}]
  /\ pos \in [Queue -> Nat]
  /\ closed \in SUBSET Proc
  /\ faults \in Nat

BrokerInit ==
  /\ log = <<>>
  /\ committed = [q \in Queue |-> 1]
  /\ open = [q \in Queue |-> {}]
  /\ owner = [q \in Queue |-> NoProc]
  /\ pos = [q \in Queue |-> 1]
  /\ closed = {}
  /\ faults = 0

Fault ==
  /\ faults < MaxFaults
  /\ faults' = faults + 1

NoFault == UNCHANGED faults

\* reader: the first Pop of a topic joins the group; a closed Transport never does.
Reader(p, q) ==
  /\ p \notin closed \cup open[q]
  /\ open' = [open EXCEPT ![q] = @ \cup {p}]
  /\ UNCHANGED <<log, committed, owner, pos, closed>>

\* The group coordinator hands the partition to a member, which resumes at the
\* committed offset: for free when nobody owns it, otherwise a rebalance.
Assign(q, p) ==
  /\ p \in open[q]
  /\ owner' = [owner EXCEPT ![q] = p]
  /\ pos' = [pos EXCEPT ![q] = committed[q]]
  /\ IF owner[q] = NoProc THEN NoFault ELSE Fault
  /\ UNCHANGED <<log, committed, open, closed>>

\* Pop: FetchMessage returns record o, the next of the topic, and commits nothing.
Pop(p, q, o) ==
  /\ p \notin closed
  /\ owner[q] = p
  /\ o \in DOMAIN log /\ o >= pos[q]
  /\ log[o].queue = q
  /\ \A x \in DOMAIN log : pos[q] <= x /\ x < o => log[x].queue # q
  /\ pos' = [pos EXCEPT ![q] = o + 1]
  /\ UNCHANGED <<log, committed, open, owner, closed>>

\* Mutant: the offset of the record itself is committed, not the one after it.
CommitSelf(p, o) ==
  LET q == log[o].queue
  IN /\ \/ p \notin closed /\ committed' = [committed EXCEPT ![q] = o] /\ NoFault
        \/ UNCHANGED committed /\ (IF p \in closed \/ owner[q] # p THEN NoFault ELSE Fault)
     /\ UNCHANGED <<log, open, owner, pos, closed>>

\* Ack: CommitMessages of record o.  ErrClosed, a failed call and the commit of a
\* member that lost the partition leave the offset alone; that last one may also
\* be accepted, and move the committed offset either way.
Commit(p, o) ==
  LET q == log[o].queue
  IN /\ \/ p \notin closed /\ committed' = [committed EXCEPT ![q] = o + 1] /\ NoFault
        \/ UNCHANGED committed /\ (IF p \in closed \/ owner[q] # p THEN NoFault ELSE Fault)
     /\ UNCHANGED <<log, open, owner, pos, closed>>

\* Mutant: the message is left unacknowledged, the reader stays where it is.
DropNothing(p, queues) == UNCHANGED <<open, owner>>

\* The readers of the given topics are closed and forgotten: p leaves their groups.
DropReaders(p, queues) ==
  /\ open' = [q \in Queue |-> IF q \in queues THEN open[q] \ {p} ELSE open[q]]
  /\ owner' = [q \in Queue |-> IF q \in queues /\ owner[q] = p THEN NoProc ELSE owner[q]]

\* Rewind: the reader is dropped, whether its Close fails or not.
Rewind(p, q) ==
  /\ DropReaders(p, {q})
  /\ UNCHANGED <<log, committed, pos, closed>>

\* Mutant: the readers are forgotten, never closed, and keep their assignments.
CloseLeaksReaders(p) ==
  /\ p \notin closed
  /\ closed' = closed \cup {p}
  /\ UNCHANGED <<log, committed, open, owner, pos>>

\* Close: every reader is dropped; Pop and Ack fail from here on.
Close(p) ==
  /\ p \notin closed
  /\ closed' = closed \cup {p}
  /\ DropReaders(p, Queue)
  /\ UNCHANGED <<log, committed, pos>>

\* The process dies and is started again with a new Transport.
Restart(p) ==
  /\ closed' = closed \ {p}
  /\ DropReaders(p, Queue)
  /\ UNCHANGED <<log, committed, pos>>

\* WriteMessages: acknowledged, or failed, or stored with the reply lost.  After
\* Close the owned writer fails; an injected one still works.
Write(p, record, reply) ==
  /\ \/ reply = "ok" /\ log' = Append(log, record) /\ NoFault
     \/ reply = "failed" /\ log' = Append(log, record) /\ Fault
     \/ reply = "failed" /\ UNCHANGED log /\ (IF p \in closed THEN NoFault ELSE Fault)
  /\ UNCHANGED <<committed, open, owner, pos, closed>>
=============================================================================
