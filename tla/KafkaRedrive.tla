---------------------------- MODULE KafkaRedrive ----------------------------
(***************************************************************************)
(* App.Consume on a Kafka work topic, and Redrive (redrive.go) on its      *)
(* dead-letter topic, run by several processes of one consumer group.      *)
(*                                                                         *)
(* batch holds the offsets a process has popped and not settled: at most   *)
(* one for the App, the whole drained batch for Redrive.                   *)
(***************************************************************************)
EXTENDS Kafka, Functions

CONSTANTS
  Worker,      \* the processes that run App.Consume
  Operator,    \* the processes that run Redrive
  Foreign,     \* messages whose body is gated or does not decode
  RedriveMax,  \* RedriveOptions.Max: 0 drains all that is there
  MaxRedrives  \* bound: Redrive runs that drain without an error

ASSUME RolesAssumption == Worker \cup Operator \subseteq Proc /\ Foreign \subseteq Msg

ASSUME RedriveBounds == RedriveMax \in Nat /\ MaxRedrives \in Nat

VARIABLES
  pc,        \* what each process does next
  batch,     \* the offsets it holds
  handled,   \* history: messages a handler returned nil for
  redrives,  \* Redrive runs that drained without an error
  stranded   \* history: popped by a drain that failed, and behind its reader ever since

vars == <<log, committed, open, owner, pos, closed, faults, pc, batch, handled, redrives, stranded>>

Steps ==
  {"idle", "handle", "retry", "dlq", "ack", "rewind",
   "drain", "item", "abort", "abortAck"}

TypeOK ==
  /\ BrokerTypeOK
  /\ pc \in [Proc -> Steps]
  /\ batch \in [Proc -> Seq(Nat)]
  /\ \A p \in Proc : Range(batch[p]) \subseteq DOMAIN log
  /\ handled \in SUBSET Msg
  /\ redrives \in Nat
  /\ stranded \subseteq DOMAIN log

Init ==
  /\ BrokerInit
  /\ pc = [p \in Proc |-> "idle"]
  /\ batch = [p \in Proc |-> <<>>]
  /\ handled = {}
  /\ redrives = 0
  /\ stranded = {}

Goto(p, step) == pc' = [pc EXCEPT ![p] = step]

Held(p) == log[Head(batch[p])]

\* A process that gives up its batch goes back to idle.
Return(p) ==
  /\ Goto(p, "idle")
  /\ batch' = [batch EXCEPT ![p] = <<>>]

-----------------------------------------------------------------------------
(* The App on the work topic.                                               *)

\* A producer's message.
Publish(m, kind) ==
  /\ (m \in Foreign) <=> (kind # "job")
  /\ \A o \in DOMAIN log : log[o].msg # m
  /\ log' = Append(log, [queue |-> "work", msg |-> m, kind |-> kind, attempts |-> 0])
  /\ NoFault
  /\ UNCHANGED <<committed, open, owner, pos, closed, pc, batch, handled, redrives, stranded>>

\* The first Pop of a topic.
OpenReader(p, q) ==
  /\ \/ p \in Worker /\ pc[p] = "idle" /\ q = "work"
     \/ pc[p] = "drain" /\ q = "dlq"
  /\ Reader(p, q)
  /\ NoFault
  /\ UNCHANGED <<pc, batch, handled, redrives, stranded>>

\* Consume: a record is popped and dispatched.  A gated or undecodable one is
\* dead-lettered directly.
Consume(p) ==
  /\ p \in Worker
  /\ pc[p] = "idle"
  /\ \E o \in DOMAIN log :
       /\ Pop(p, "work", o)
       /\ batch' = [batch EXCEPT ![p] = <<o>>]
       /\ Goto(p, IF log[o].kind = "job" THEN "handle" ELSE "dlq")
  /\ NoFault
  /\ UNCHANGED <<handled, redrives, stranded>>

\* The handler returns nil, or an error: retryOrDeadLetter.
Handle(p) ==
  /\ pc[p] = "handle"
  /\ \/ handled' = handled \cup {Held(p).msg} /\ Goto(p, "ack")
     \/ /\ Goto(p, IF Held(p).attempts + 1 < MaxAttempts THEN "retry" ELSE "dlq")
        /\ UNCHANGED handled
  /\ NoFault
  /\ UNCHANGED <<broker, batch, redrives, stranded>>

\* retryOrDeadLetter: re-publish with attempts + 1 on the same topic, then ack; a
\* failed write leaves the record unsettled.
Retry(p) ==
  /\ pc[p] = "retry"
  /\ \E reply \in {"ok", "failed"} :
       /\ Write(p, [Held(p) EXCEPT !.attempts = @ + 1], reply)
       /\ Goto(p, IF reply = "ok" THEN "ack" ELSE "rewind")
  /\ UNCHANGED <<batch, handled, redrives, stranded>>

\* deadLetterRaw: the record goes to the dead-letter topic, then the ack.
DeadLetter(p) ==
  /\ pc[p] = "dlq"
  /\ \E reply \in {"ok", "failed"} :
       /\ Write(p, [Held(p) EXCEPT !.queue = "dlq"], reply)
       /\ Goto(p, IF reply = "ok" THEN "ack" ELSE "rewind")
  /\ UNCHANGED <<batch, handled, redrives, stranded>>

\* Ack: a failure is ignored; the rest of the batch follows.
Ack(p) ==
  /\ pc[p] = "ack"
  /\ Commit(p, Head(batch[p]))
  /\ batch' = [batch EXCEPT ![p] = Tail(@)]
  /\ Goto(p, IF Len(batch[p]) = 1 THEN "idle" ELSE "item")
  /\ UNCHANGED <<handled, redrives, stranded>>

\* leaveUnsettled, and the end of a Redrive run that failed.
RewindBatch(p) ==
  /\ pc[p] = "rewind"
  /\ Rewind(p, Held(p).queue)
  /\ Return(p)
  /\ NoFault
  /\ UNCHANGED <<handled, redrives, stranded>>

-----------------------------------------------------------------------------
(* Redrive on the dead-letter topic.                                        *)

StartRedrive(p) ==
  /\ p \in Operator
  /\ pc[p] = "idle"
  /\ redrives < MaxRedrives
  /\ Goto(p, "drain")
  /\ NoFault
  /\ UNCHANGED <<broker, batch, handled, redrives, stranded>>

\* Mutant: the batch holds the reader's position instead of the record's offset.
DrainPosition(p) ==
  /\ pc[p] = "drain"
  /\ RedriveMax = 0 \/ Len(batch[p]) < RedriveMax
  /\ \E o \in DOMAIN log :
       Pop(p, "dlq", o) /\ batch' = [batch EXCEPT ![p] = Append(@, o + 1)]
  /\ NoFault
  /\ UNCHANGED <<pc, handled, redrives, stranded>>

\* The drain pops one more record.
Drain(p) ==
  /\ pc[p] = "drain"
  /\ RedriveMax = 0 \/ Len(batch[p]) < RedriveMax
  /\ \E o \in DOMAIN log :
       Pop(p, "dlq", o) /\ batch' = [batch EXCEPT ![p] = Append(@, o)]
  /\ NoFault
  /\ UNCHANGED <<pc, handled, redrives, stranded>>

\* Max records, or a Pop that timed out: what was drained is processed in order.
DrainEnds(p) ==
  /\ pc[p] = "drain"
  /\ Goto(p, IF batch[p] = <<>> THEN "idle" ELSE "item")
  /\ redrives' = redrives + 1
  /\ NoFault
  /\ UNCHANGED <<broker, batch, handled, stranded>>

\* A Pop fails: Redrive returns the error, and what it had popped stays behind the
\* cached reader.
DrainFails(p) ==
  /\ pc[p] = "drain"
  /\ IF p \in closed THEN NoFault ELSE Fault
  /\ Return(p)
  /\ stranded' = stranded \cup
       {o \in Range(batch[p]) : owner["dlq"] = p /\ o < pos["dlq"]}
  /\ UNCHANGED <<broker, handled, redrives>>

\* publishRedriven: attempts reset, back to the source queue, then the ack; a
\* failure aborts the run.
PublishRedriven(p) ==
  /\ pc[p] = "item"
  /\ Held(p).kind # "poison"
  /\ \E reply \in {"ok", "failed"} :
       /\ Write(p, [Held(p) EXCEPT !.queue = "work", !.attempts = 0], reply)
       /\ Goto(p, IF reply = "ok" THEN "ack" ELSE "abort")
  /\ UNCHANGED <<batch, handled, redrives, stranded>>

\* restoreToDLQ: an undecodable record, or one DryRun or Select keeps back, is written
\* back as it is, then acknowledged; the run ends with a rewind when that fails, or
\* when the restore is abortRedrive's.
RestoreToDLQ(p) ==
  /\ pc[p] \in {"item", "abort"}
  /\ \E reply \in {"ok", "failed"} :
       /\ Write(p, Held(p), reply)
       /\ Goto(p, IF reply = "failed" THEN "rewind"
                  ELSE IF pc[p] = "abort" THEN "abortAck" ELSE "ack")
  /\ UNCHANGED <<batch, handled, redrives, stranded>>

\* abortRedrive: the restored record is acknowledged, the rest is rewound.
AbortAck(p) ==
  /\ pc[p] = "abortAck"
  /\ Commit(p, Head(batch[p]))
  /\ Goto(p, "rewind")
  /\ UNCHANGED <<batch, handled, redrives, stranded>>

-----------------------------------------------------------------------------
(* The group, and the life of a process.                                    *)

\* A process holds a later record of the topic, and its commit may pass o.
Overtaken(o) ==
  \E k \in Proc : \E h \in Range(batch[k]) : log[h].queue = log[o].queue /\ o < h

\* A new assignment starts at the committed offset: only what a commit has passed,
\* or one of a member that lost the topic may still pass, stays stranded.
Rebalance(q, p) ==
  /\ Assign(q, p)
  /\ stranded' = {o \in stranded : log[o].queue # q \/ o < committed[q] \/ Overtaken(o)}
  /\ UNCHANGED <<pc, batch, handled, redrives>>

CloseTransport(p) ==
  /\ Close(p)
  /\ Fault
  /\ UNCHANGED <<pc, batch, handled, redrives, stranded>>

Crash(p) ==
  /\ Restart(p)
  /\ Return(p)
  /\ Fault
  /\ UNCHANGED <<handled, redrives, stranded>>

Work(p) ==
  \/ Consume(p) \/ Handle(p) \/ Retry(p) \/ DeadLetter(p) \/ Ack(p) \/ RewindBatch(p)
  \/ DrainEnds(p) \/ PublishRedriven(p) \/ RestoreToDLQ(p) \/ AbortAck(p)

Next ==
  \/ \E m \in Msg, kind \in Kinds : Publish(m, kind)
  \/ \E p \in Proc, q \in Queue : OpenReader(p, q) \/ Rebalance(q, p)
  \/ \E p \in Proc :
       \/ Work(p)
       \/ StartRedrive(p) \/ Drain(p) \/ DrainFails(p)
       \/ CloseTransport(p) \/ Crash(p)

Spec == Init /\ [][Next]_vars

\* The loop keeps polling, calls return, and the coordinator assigns a topic that
\* has members but no owner.
Fairness ==
  /\ \A p \in Proc : WF_vars(Work(p)) /\ WF_vars(OpenReader(p, "work"))
  /\ WF_vars(owner["work"] = NoProc /\ \E p \in Proc : Rebalance("work", p))

FairSpec == Spec /\ Fairness

-----------------------------------------------------------------------------
(* Properties.                                                              *)

\* A record the group has not committed: it will be delivered again.
Pending(o) == o >= committed[log[o].queue]

Safe(m) == m \in handled \/ \E o \in DOMAIN log : log[o].msg = m /\ Pending(o)

(* No message is lost to a cumulative commit: one that was published was    *)
(* handled, or has a record in the work or the dead-letter topic that no    *)
(* commit has passed, whatever writes, commits, rebalances, crashes, Close  *)
(* and Redrive runs did (kafka.go Rewind: "The commit therefore never       *)
(* passes it").  Messages a failed drain left behind its reader are         *)
(* excepted: see NoLossStrict.                                              *)
NoLoss ==
  \A o \in DOMAIN log :
    Safe(log[o].msg) \/ \E x \in stranded : log[x].msg = log[o].msg

(* The same without the exception: redrive.go says of the dead-letter topic *)
(* that a message is acknowledged only after its re-publish succeeds, and   *)
(* that a batch that is not processed is handed back.                       *)
NoLossStrict == \A o \in DOMAIN log : Safe(log[o].msg)

(* As long as nothing fails a message has one pending record, whichever     *)
(* topics retries, dead-letters and Redrive runs move it through: the old   *)
(* record is passed by its acknowledgement, or about to be.                 *)
OnePlace ==
  faults = 0 =>
    \A x, y \in DOMAIN log :
      log[x].msg = log[y].msg /\ Pending(x) /\ Pending(y) /\ x < y =>
        \E p \in Proc : pc[p] = "ack" /\ Head(batch[p]) = x

(* Every message is handled or reaches the dead-letter topic, unless every  *)
(* transport of the group was closed: no rewind, rebalance, crash or        *)
(* Redrive run leaves it unread for ever.                                   *)
Progress ==
  \A m \in Msg :
    (\E o \in DOMAIN log : log[o].msg = m)
      ~> \/ m \in handled
         \/ \E o \in DOMAIN log : log[o].msg = m /\ log[o].queue = "dlq"
         \/ closed = Proc

-----------------------------------------------------------------------------
(* The inductive invariant behind NoLoss: a commit, a reader and a held     *)
(* record only ever pass records that are not needed any more.              *)

\* The message of record x was handled, or goes on in a later record.
Replaced(x) ==
  log[x].msg \in handled \/ \E y \in DOMAIN log : x < y /\ log[y].msg = log[x].msg

Passable(x) == Replaced(x) \/ x \in stranded

\* Every record of the topic before o can be passed, or is one of the held ones.
PassableUpTo(q, o, held) ==
  \A x \in DOMAIN log : log[x].queue = q /\ x < o => Passable(x) \/ x \in held

\* What a process holds, at each step.
BatchShape ==
  \A p \in Proc :
    /\ pc[p] = "idle" => batch[p] = <<>>
    /\ pc[p] \notin {"idle", "drain"} => batch[p] # <<>>
    /\ pc[p] = "drain" => \A h \in Range(batch[p]) : log[h].queue = "dlq"
    /\ \A h, k \in Range(batch[p]) : log[h].queue = log[k].queue

Bounds == \A q \in Queue : committed[q] <= Len(log) + 1 /\ pos[q] <= Len(log) + 1

CommitPasses == \A q \in Queue : PassableUpTo(q, committed[q], {})

ReaderPasses ==
  \A q \in Queue : owner[q] # NoProc => PassableUpTo(q, pos[q], Range(batch[owner[q]]))

HeldPasses ==
  \A p \in Proc : \A i \in DOMAIN batch[p] :
    PassableUpTo(log[batch[p][i]].queue, batch[p][i], {batch[p][j] : j \in 1..i - 1})

AckPasses == \A p \in Proc : pc[p] \in {"ack", "abortAck"} => Replaced(Head(batch[p]))

IInv ==
  TypeOK /\ BatchShape /\ Bounds /\ CommitPasses /\ ReaderPasses /\ HeldPasses /\ AckPasses

\* Behind OnePlace: nobody holds a record of a topic but its owner, in order, and
\* none the group has committed.
OwnerHolds ==
  \A p \in Proc :
    /\ \A h \in Range(batch[p]) :
         LET q == log[h].queue IN owner[q] = p /\ committed[q] <= h /\ h < pos[q]
    /\ \A i, j \in DOMAIN batch[p] : i < j => batch[p][i] < batch[p][j]

\* Only what is about to be acknowledged is pending and has a later record.
OneRecord ==
  \A x, y \in DOMAIN log :
    log[x].msg = log[y].msg /\ Pending(x) /\ x < y =>
      \E p \in Proc : pc[p] = "ack" /\ Head(batch[p]) = x

Undisturbed ==
  faults = 0 =>
    /\ closed = {}
    /\ \A p \in Proc : pc[p] \notin {"rewind", "abort", "abortAck"}
    /\ \A q \in Queue : committed[q] <= pos[q]
    /\ OwnerHolds
    /\ OneRecord
=============================================================================
