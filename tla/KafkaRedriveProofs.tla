------------------------- MODULE KafkaRedriveProofs -------------------------
(***************************************************************************)
(* Proofs about KafkaRedrive, for every set of processes, messages and     *)
(* roles: type correctness, that no cumulative commit loses a message, and *)
(* that a message has one place as long as nothing fails.                  *)
(***************************************************************************)
EXTENDS KafkaRedrive, TLAPS

(* A step leaves the log alone or appends one record.                       *)
Grows == log' = log \/ \E r \in Record : log' = Append(log, r)

LEMMA LogGrows ==
  ASSUME log \in Seq(Record), Grows
  PROVE  /\ log' \in Seq(Record) /\ Len(log) \in Nat /\ Len(log') \in Nat
         /\ DOMAIN log = 1..Len(log) /\ DOMAIN log' = 1..Len(log')
         /\ Len(log) <= Len(log') /\ Len(log') <= Len(log) + 1
         /\ \A x \in DOMAIN log : x \in DOMAIN log' /\ log'[x] = log[x]
         /\ \A x \in DOMAIN log' : x \in DOMAIN log \/ x = Len(log) + 1
<1>1. CASE log' = log
  BY <1>1
<1>2. CASE \E r \in Record : log' = Append(log, r)
  <2>1. PICK r \in Record : log' = Append(log, r)
    BY <1>2
  <2>2. QED BY <2>1
<1>3. QED BY <1>1, <1>2 DEF Grows

(* What a process holds is a record of the log.                             *)
LEMMA HeldFacts ==
  ASSUME TypeOK, NEW p \in Proc, batch[p] # <<>>
  PROVE  /\ batch[p] \in Seq(Nat) /\ Len(batch[p]) \in Nat /\ Len(batch[p]) > 0
         /\ DOMAIN batch[p] = 1..Len(batch[p]) /\ 1 \in DOMAIN batch[p]
         /\ Head(batch[p]) = batch[p][1] /\ Head(batch[p]) \in Range(batch[p])
         /\ Head(batch[p]) \in DOMAIN log /\ Held(p) \in Record /\ Held(p).queue \in Queue
<1>1. batch[p] \in Seq(Nat) /\ Range(batch[p]) \subseteq DOMAIN log /\ log \in Seq(Record)
  BY DEF TypeOK, BrokerTypeOK
<1>2. /\ Len(batch[p]) \in Nat /\ Len(batch[p]) > 0
      /\ DOMAIN batch[p] = 1..Len(batch[p]) /\ 1 \in DOMAIN batch[p]
      /\ Head(batch[p]) = batch[p][1]
  BY <1>1
<1>3. Head(batch[p]) \in Range(batch[p])
  BY <1>2 DEF Range
<1>4. Held(p) \in Record
  BY <1>1, <1>3 DEF Held
<1>5. QED BY <1>1, <1>2, <1>3, <1>4 DEF Record

LEMMA CopyTypes ==
  ASSUME NEW r \in Record
  PROVE  /\ [r EXCEPT !.attempts = @ + 1] \in Record
         /\ [r EXCEPT !.queue = "dlq"] \in Record
         /\ [r EXCEPT !.queue = "work", !.attempts = 0] \in Record
         /\ [r EXCEPT !.attempts = @ + 1].msg = r.msg
         /\ [r EXCEPT !.queue = "dlq"].msg = r.msg
         /\ [r EXCEPT !.queue = "work", !.attempts = 0].msg = r.msg
<1>1. r.attempts + 1 \in Nat /\ "work" \in Queue /\ "dlq" \in Queue
  BY DEF Record, Queue
<1>2. /\ [r EXCEPT !.attempts = @ + 1] \in Record
      /\ [r EXCEPT !.attempts = @ + 1].msg = r.msg
  BY <1>1 DEF Record
<1>3. [r EXCEPT !.queue = "dlq"] \in Record /\ [r EXCEPT !.queue = "dlq"].msg = r.msg
  BY <1>1 DEF Record
<1>4. /\ [r EXCEPT !.queue = "work", !.attempts = 0] \in Record
      /\ [r EXCEPT !.queue = "work", !.attempts = 0].msg = r.msg
  BY <1>1 DEF Record
<1>5. QED BY <1>2, <1>3, <1>4

(* A write adds a record, when it is acknowledged, and may when it fails.   *)
LEMMA WriteFacts ==
  ASSUME TypeOK, NEW p, NEW r \in Record, NEW reply, Write(p, r, reply)
  PROVE  /\ Grows /\ BrokerTypeOK' /\ (reply = "ok" => log' = Append(log, r))
         /\ UNCHANGED <<committed, open, owner, pos, closed>>
<1>1. /\ Grows /\ faults' \in Nat /\ (reply = "ok" => log' = Append(log, r))
      /\ UNCHANGED <<committed, open, owner, pos, closed>>
  BY KafkaBounds DEF Write, Grows, Fault, NoFault, TypeOK, BrokerTypeOK
<1>2. log' \in Seq(Record)
  BY <1>1, LogGrows DEF TypeOK, BrokerTypeOK
<1>3. QED BY <1>1, <1>2 DEF TypeOK, BrokerTypeOK

(* One process moves on, with what it holds and a log that grows.           *)
LEMMA StepTypes ==
  ASSUME TypeOK, BrokerTypeOK', Grows, NEW p \in Proc, NEW step \in Steps, Goto(p, step),
         batch' = batch, handled' \in SUBSET Msg, redrives' \in Nat, stranded' \subseteq stranded
  PROVE  TypeOK'
<1>1. \A x \in DOMAIN log : x \in DOMAIN log'
  BY LogGrows DEF TypeOK, BrokerTypeOK
<1>2. pc' \in [Proc -> Steps]
  BY DEF Goto, TypeOK
<1>3. \A k \in Proc : Range(batch'[k]) \subseteq DOMAIN log'
  BY <1>1 DEF TypeOK
<1>4. QED BY <1>1, <1>2, <1>3 DEF TypeOK

LEMMA ReturnTypes ==
  ASSUME TypeOK, BrokerTypeOK', log' = log, NEW p \in Proc, Return(p),
         UNCHANGED <<handled, redrives>>, stranded' \subseteq DOMAIN log
  PROVE  TypeOK'
<1>1. pc' \in [Proc -> Steps] /\ batch' \in [Proc -> Seq(Nat)]
  BY DEF Return, Goto, TypeOK, Steps
<1>2. \A k \in Proc : Range(batch'[k]) \subseteq DOMAIN log
  <2> SUFFICES ASSUME NEW k \in Proc PROVE Range(batch'[k]) \subseteq DOMAIN log
    OBVIOUS
  <2>1. batch'[k] = batch[k] \/ batch'[k] = <<>>
    BY DEF Return, TypeOK
  <2>2. QED BY <2>1 DEF TypeOK, Range
<1>3. QED BY <1>1, <1>2 DEF TypeOK

(* A popped record joins what the process holds.                            *)
LEMMA PopTypes ==
  ASSUME TypeOK, BrokerTypeOK', log' = log, NEW p \in Proc, NEW step \in Steps, NEW o \in DOMAIN log,
         pc' = [pc EXCEPT ![p] = step], batch' = [batch EXCEPT ![p] = Append(@, o)],
         UNCHANGED <<handled, redrives, stranded>>
  PROVE  TypeOK' /\ Range(batch'[p]) = Range(batch[p]) \cup {o}
<1>0. batch[p] \in Seq(Nat) /\ o \in Nat /\ batch'[p] = Append(batch[p], o)
  BY DEF TypeOK, BrokerTypeOK
<1>1. pc' \in [Proc -> Steps] /\ batch' \in [Proc -> Seq(Nat)]
  BY <1>0 DEF TypeOK
<1>2. Range(batch'[p]) = Range(batch[p]) \cup {o}
  <2> DEFINE n == Len(batch[p])
  <2>1. /\ n \in Nat /\ DOMAIN batch[p] = 1..n /\ DOMAIN batch'[p] = 1..n + 1
        /\ \A i \in 1..n : batch'[p][i] = batch[p][i]
        /\ batch'[p][n + 1] = o
    BY <1>0
  <2> HIDE DEF n
  <2>2. 1..n + 1 = (1..n) \cup {n + 1}
    BY <2>1
  <2>3. \A x : x \in Range(batch'[p]) <=> x \in Range(batch[p]) \cup {o}
    BY <2>1, <2>2 DEF Range
  <2>4. QED BY <2>3
<1>3. \A k \in Proc : Range(batch'[k]) \subseteq DOMAIN log
  BY <1>2 DEF TypeOK
<1>4. QED BY <1>1, <1>2, <1>3 DEF TypeOK

(* The head is settled; the rest follows.                                   *)
LEMMA TailFacts ==
  ASSUME TypeOK, NEW p \in Proc, batch[p] # <<>>
  PROVE  /\ Tail(batch[p]) \in Seq(Nat) /\ Len(Tail(batch[p])) = Len(batch[p]) - 1
         /\ DOMAIN Tail(batch[p]) = 1..Len(batch[p]) - 1
         /\ \A i \in 1..Len(batch[p]) - 1 : i + 1 \in DOMAIN batch[p] /\ Tail(batch[p])[i] = batch[p][i + 1]
         /\ Range(batch[p]) = {Head(batch[p])} \cup Range(Tail(batch[p]))
<1>0. /\ batch[p] \in Seq(Nat) /\ DOMAIN batch[p] = 1..Len(batch[p]) /\ Len(batch[p]) \in Nat
      /\ Len(batch[p]) > 0 /\ Head(batch[p]) = batch[p][1] /\ 1 \in DOMAIN batch[p]
  BY HeldFacts
<1> DEFINE n == Len(batch[p])
           t == Tail(batch[p])
<1>1. t \in Seq(Nat) /\ Len(t) = n - 1 /\ DOMAIN t = 1..n - 1 /\ \A i \in 1..n - 1 : t[i] = batch[p][i + 1]
  BY <1>0
<1> HIDE DEF t
<1>2. \A i \in 1..n - 1 : i + 1 \in DOMAIN batch[p]
  BY <1>0
<1>3. ASSUME NEW x \in Range(batch[p]) PROVE x \in {Head(batch[p])} \cup Range(t)
  <2>1. PICK j \in 1..n : x = batch[p][j]
    BY <1>0, <1>3 DEF Range
  <2>2. CASE j = 1
    BY <1>0, <2>1, <2>2
  <2>3. CASE j # 1
    <3>1. j - 1 \in 1..n - 1 /\ j - 1 + 1 = j
      BY <1>0, <2>3
    <3>2. t[j - 1] = x
      BY <1>1, <2>1, <3>1
    <3>3. QED BY <1>1, <3>1, <3>2 DEF Range
  <2>4. QED BY <2>2, <2>3
<1>4. Head(batch[p]) \in Range(batch[p]) /\ Range(t) \subseteq Range(batch[p])
  BY <1>0, <1>1, <1>2 DEF Range
<1>5. QED BY <1>1, <1>2, <1>3, <1>4 DEF t

LEMMA CommitFacts ==
  ASSUME TypeOK, NEW p, NEW o \in DOMAIN log, Commit(p, o)
  PROVE  /\ BrokerTypeOK' /\ UNCHANGED <<log, open, owner, pos, closed>>
         /\ committed' = committed \/ committed' = [committed EXCEPT ![log[o].queue] = o + 1]
<1>1. /\ UNCHANGED <<log, open, owner, pos, closed>> /\ faults' \in Nat
      /\ committed' = committed \/ committed' = [committed EXCEPT ![log[o].queue] = o + 1]
  BY KafkaBounds DEF Commit, Fault, NoFault, TypeOK, BrokerTypeOK
<1>2. o + 1 \in Nat
  BY DEF TypeOK, BrokerTypeOK
<1>3. committed' \in [Queue -> Nat]
  BY <1>1, <1>2 DEF TypeOK, BrokerTypeOK
<1>4. QED BY <1>1, <1>3 DEF TypeOK, BrokerTypeOK

LEMMA DropFacts ==
  ASSUME TypeOK, NEW p \in Proc, NEW queues, DropReaders(p, queues)
  PROVE  /\ open' \in [Queue -> SUBSET Proc] /\ owner' \in [Queue -> Proc \cup {NoProc}]
         /\ \A q \in Queue : owner'[q] = owner[q] \/ owner'[q] = NoProc
         /\ \A q \in queues \cap Queue : owner'[q] # p
<1>1. open' \in [Queue -> SUBSET Proc]
  BY DEF DropReaders, TypeOK, BrokerTypeOK
<1>2. \A q \in Queue : owner'[q] = IF q \in queues /\ owner[q] = p THEN NoProc ELSE owner[q]
  BY DEF DropReaders
<1>3. owner' \in [Queue -> Proc \cup {NoProc}]
  BY DEF DropReaders, TypeOK, BrokerTypeOK
<1>4. QED BY <1>1, <1>2, <1>3, NoProcAssumption

-----------------------------------------------------------------------------
(* What can be passed stays so.                                             *)

LEMMA PassesOn ==
  ASSUME TypeOK, Grows, handled \subseteq handled', stranded \subseteq stranded'
  PROVE  /\ \A x \in DOMAIN log : Replaced(x) => Replaced(x)'
         /\ \A x \in DOMAIN log : Passable(x) => Passable(x)'
         /\ \A q, o, held : o \in Nat /\ o <= Len(log) + 1 /\ PassableUpTo(q, o, held) =>
              \A x \in DOMAIN log' : log'[x].queue = q /\ x < o =>
                x \in DOMAIN log /\ (Passable(x)' \/ x \in held)
<1>0. log \in Seq(Record)
  BY DEF TypeOK, BrokerTypeOK
<1>1. /\ Len(log) \in Nat /\ DOMAIN log' = 1..Len(log') /\ Len(log') \in Nat
      /\ \A x \in DOMAIN log : x \in DOMAIN log' /\ log'[x] = log[x]
      /\ \A x \in DOMAIN log' : x \in DOMAIN log \/ x = Len(log) + 1
  BY <1>0, LogGrows
<1>2. \A x \in DOMAIN log : Replaced(x) => Replaced(x)'
  BY <1>1 DEF Replaced
<1>3. \A x \in DOMAIN log : Passable(x) => Passable(x)'
  BY <1>2 DEF Passable
<1>4. ASSUME NEW q, NEW o \in Nat, NEW held, o <= Len(log) + 1, PassableUpTo(q, o, held),
             NEW x \in DOMAIN log', log'[x].queue = q, x < o
      PROVE  x \in DOMAIN log /\ (Passable(x)' \/ x \in held)
  <2>1. x \in DOMAIN log
    BY <1>1, <1>4
  <2>2. QED BY <1>1, <1>3, <1>4, <2>1 DEF PassableUpTo
<1>5. QED BY <1>2, <1>3, <1>4

(* Nothing is committed or fetched; a process keeps what it holds, or gives *)
(* it up with its readers, or with records that can be passed.              *)
LEMMA KeepPasses ==
  ASSUME IInv, TypeOK', Grows, handled \subseteq handled', stranded \subseteq stranded',
         UNCHANGED <<committed, pos>>,
         \A q \in Queue : owner'[q] = owner[q] \/ owner'[q] = NoProc,
         \A p \in Proc : batch'[p] = batch[p] \/ batch'[p] = <<>>,
         \A p \in Proc : batch'[p] # batch[p] =>
           \A q \in Queue : owner'[q] = p =>
             \A x \in Range(batch[p]) : log[x].queue = q /\ x < pos[q] => Passable(x)'
  PROVE  Bounds' /\ CommitPasses' /\ ReaderPasses' /\ HeldPasses'
<1>0. /\ TypeOK /\ Bounds /\ CommitPasses /\ ReaderPasses /\ HeldPasses
      /\ log \in Seq(Record) /\ committed \in [Queue -> Nat] /\ pos \in [Queue -> Nat]
      /\ owner \in [Queue -> Proc \cup {NoProc}]
  BY DEF IInv, TypeOK, BrokerTypeOK
<1>1. /\ Len(log) \in Nat /\ Len(log') \in Nat /\ Len(log) <= Len(log')
      /\ \A x \in DOMAIN log : x \in DOMAIN log' /\ log'[x] = log[x]
  BY <1>0, LogGrows
<1>2. \A q, o, held : o \in Nat /\ o <= Len(log) + 1 /\ PassableUpTo(q, o, held) =>
        \A x \in DOMAIN log' : log'[x].queue = q /\ x < o =>
          x \in DOMAIN log /\ (Passable(x)' \/ x \in held)
  BY <1>0, PassesOn
<1>3. Bounds'
  BY <1>0, <1>1 DEF Bounds
<1>4. CommitPasses'
  <2> SUFFICES ASSUME NEW q \in Queue, NEW x \in DOMAIN log', log'[x].queue = q, x < committed[q]
               PROVE  Passable(x)'
    BY DEF CommitPasses, PassableUpTo
  <2>1. PassableUpTo(q, committed[q], {}) /\ committed[q] \in Nat /\ committed[q] <= Len(log) + 1
    BY <1>0 DEF CommitPasses, Bounds
  <2>2. QED BY <1>2, <2>1
<1>5. ReaderPasses'
  <2> SUFFICES ASSUME NEW q \in Queue, owner'[q] # NoProc,
                      NEW x \in DOMAIN log', log'[x].queue = q, x < pos[q]
               PROVE  Passable(x)' \/ x \in Range(batch'[owner'[q]])
    BY DEF ReaderPasses, PassableUpTo
  <2>1. owner'[q] = owner[q] /\ owner[q] \in Proc
    BY <1>0
  <2> DEFINE p == owner[q]
  <2>2. PassableUpTo(q, pos[q], Range(batch[p])) /\ pos[q] \in Nat /\ pos[q] <= Len(log) + 1
    BY <1>0, <2>1 DEF ReaderPasses, Bounds
  <2>3. x \in DOMAIN log /\ (Passable(x)' \/ x \in Range(batch[p]))
    BY <1>2, <2>2
  <2>4. CASE batch'[p] = batch[p]
    BY <2>1, <2>3, <2>4
  <2>5. CASE batch'[p] # batch[p]
    BY <1>1, <2>1, <2>3, <2>5
  <2>6. QED BY <2>4, <2>5
<1>6. HeldPasses'
  <2> SUFFICES ASSUME NEW p \in Proc, NEW i \in DOMAIN batch'[p],
                      NEW x \in DOMAIN log', log'[x].queue = log'[batch'[p][i]].queue, x < batch'[p][i]
               PROVE  Passable(x)' \/ x \in {batch'[p][j] : j \in 1..i - 1}
    BY DEF HeldPasses, PassableUpTo
  <2>1. batch'[p] = batch[p]
    OBVIOUS
  <2> DEFINE h == batch[p][i]
  <2>2. h \in DOMAIN log /\ h \in Nat /\ h <= Len(log) + 1
    <3>1. h \in Range(batch[p])
      BY <2>1 DEF Range
    <3>2. h \in DOMAIN log
      BY <1>0, <3>1 DEF TypeOK
    <3>3. QED BY <1>0, <3>2
  <2>3. PassableUpTo(log[h].queue, h, {batch[p][j] : j \in 1..i - 1})
    BY <1>0, <2>1 DEF HeldPasses
  <2>4. log'[h] = log[h]
    BY <1>1, <2>2
  <2> HIDE DEF h
  <2>5. Passable(x)' \/ x \in {batch[p][j] : j \in 1..i - 1}
    BY <1>2, <2>1, <2>2, <2>3, <2>4 DEF h
  <2>6. QED BY <2>1, <2>5
<1>7. QED BY <1>3, <1>4, <1>5, <1>6

(* One process moves: its own shape and its own acknowledgement matter.     *)
LEMMA OneMoves ==
  ASSUME IInv, Grows, handled \subseteq handled', stranded \subseteq stranded', NEW p \in Proc,
         \A k \in Proc \ {p} : pc'[k] = pc[k] /\ batch'[k] = batch[k],
         pc'[p] = "idle" => batch'[p] = <<>>,
         pc'[p] \notin {"idle", "drain"} => batch'[p] # <<>>,
         pc'[p] = "drain" => \A h \in Range(batch'[p]) : log'[h].queue = "dlq",
         \A h, k \in Range(batch'[p]) : log'[h].queue = log'[k].queue,
         pc'[p] \in {"ack", "abortAck"} => Replaced(Head(batch[p]))'
  PROVE  BatchShape' /\ AckPasses'
<1>0. /\ TypeOK /\ BatchShape /\ AckPasses /\ log \in Seq(Record)
      /\ \A k \in Proc : Range(batch[k]) \subseteq DOMAIN log
  BY DEF IInv, TypeOK, BrokerTypeOK
<1>1. \A x \in DOMAIN log : log'[x] = log[x]
  BY <1>0, LogGrows
<1>2. \A x \in DOMAIN log : Replaced(x) => Replaced(x)'
  BY <1>0, PassesOn
<1>3. BatchShape'
  <2> SUFFICES ASSUME NEW k \in Proc, k # p
               PROVE  /\ pc'[k] = "idle" => batch'[k] = <<>>
                      /\ pc'[k] \notin {"idle", "drain"} => batch'[k] # <<>>
                      /\ pc'[k] = "drain" => \A h \in Range(batch'[k]) : log'[h].queue = "dlq"
                      /\ \A g, h \in Range(batch'[k]) : log'[g].queue = log'[h].queue
    BY DEF BatchShape
  <2>1. pc'[k] = pc[k] /\ batch'[k] = batch[k] /\ \A h \in Range(batch[k]) : log'[h] = log[h]
    BY <1>0, <1>1
  <2>2. QED BY <1>0, <2>1 DEF BatchShape
<1>4. AckPasses'
  <2> SUFFICES ASSUME NEW k \in Proc, k # p, pc'[k] \in {"ack", "abortAck"}
               PROVE  Replaced(Head(batch[k]))'
    BY DEF AckPasses
  <2>1. pc[k] \in {"ack", "abortAck"} /\ batch'[k] = batch[k] /\ batch[k] # <<>>
    BY <1>0 DEF BatchShape
  <2>2. Replaced(Head(batch[k])) /\ Head(batch[k]) \in DOMAIN log
    BY <1>0, <2>1, HeldFacts DEF AckPasses
  <2>3. QED BY <1>2, <2>1, <2>2 DEF Replaced
<1>5. QED BY <1>3, <1>4

(* The reader moves past a record that its process holds from now on.       *)
LEMMA PopPasses ==
  ASSUME IInv, TypeOK', NEW p \in Proc, NEW q \in Queue, NEW o \in DOMAIN log, Pop(p, q, o),
         batch' = [batch EXCEPT ![p] = Append(@, o)], Range(batch'[p]) = Range(batch[p]) \cup {o},
         UNCHANGED <<handled, stranded>>
  PROVE  Bounds' /\ CommitPasses' /\ ReaderPasses' /\ HeldPasses'
<1>0. /\ TypeOK /\ Bounds /\ CommitPasses /\ ReaderPasses /\ HeldPasses
      /\ log \in Seq(Record) /\ pos \in [Queue -> Nat] /\ batch \in [Proc -> Seq(Nat)]
      /\ Len(log) \in Nat /\ DOMAIN log = 1..Len(log) /\ o \in Nat
  BY DEF IInv, TypeOK, BrokerTypeOK
<1>1. /\ owner[q] = p /\ o >= pos[q] /\ log[o].queue = q
      /\ \A x \in DOMAIN log : pos[q] <= x /\ x < o => log[x].queue # q
      /\ pos' = [pos EXCEPT ![q] = o + 1]
      /\ UNCHANGED <<log, committed, open, owner, closed>>
  BY DEF Pop
<1>2. \A x : Passable(x)' <=> Passable(x)
  BY <1>1 DEF Passable, Replaced
<1>3. Bounds'
  BY <1>0, <1>1 DEF Bounds
<1>4. CommitPasses'
  BY <1>0, <1>1, <1>2 DEF CommitPasses, PassableUpTo
<1>5. PassableUpTo(q, o, Range(batch[p]))
  <2>1. PassableUpTo(q, pos[q], Range(batch[p]))
    BY <1>0, <1>1, NoProcAssumption DEF ReaderPasses
  <2>2. QED BY <1>0, <1>1, <2>1 DEF PassableUpTo
<1>6. ReaderPasses'
  <2> SUFFICES ASSUME NEW r \in Queue, owner[r] # NoProc,
                      NEW x \in DOMAIN log, log[x].queue = r, x < pos'[r]
               PROVE  Passable(x) \/ x \in Range(batch'[owner[r]])
    BY <1>1, <1>2 DEF ReaderPasses, PassableUpTo
  <2>1. \A k \in Proc : Range(batch[k]) \subseteq Range(batch'[k])
    BY <1>0
  <2>2. CASE r = q
    <3>1. x < o \/ x = o
      BY <1>0, <1>1, <2>2
    <3>2. QED BY <1>1, <1>5, <2>2, <3>1 DEF PassableUpTo
  <2>3. CASE r # q
    <3>1. x < pos[r] /\ owner[r] \in Proc
      BY <1>0, <1>1, <2>3 DEF TypeOK, BrokerTypeOK
    <3>2. Passable(x) \/ x \in Range(batch[owner[r]])
      BY <1>0, <3>1 DEF ReaderPasses, PassableUpTo
    <3>3. QED BY <2>1, <3>1, <3>2
  <2>4. QED BY <2>2, <2>3
<1>7. HeldPasses'
  <2> SUFFICES ASSUME NEW k \in Proc, NEW i \in DOMAIN batch'[k],
                      NEW x \in DOMAIN log, log[x].queue = log[batch'[k][i]].queue, x < batch'[k][i]
               PROVE  Passable(x) \/ x \in {batch'[k][j] : j \in 1..i - 1}
    BY <1>1, <1>2 DEF HeldPasses, PassableUpTo
  <2>0. HeldPasses
    BY <1>0
  <2>1. CASE k # p
    <3>1. batch'[k] = batch[k]
      BY <1>0, <2>1
    <3>2. PassableUpTo(log[batch[k][i]].queue, batch[k][i], {batch[k][j] : j \in 1..i - 1})
      BY <2>0, <3>1 DEF HeldPasses
    <3>3. Passable(x) \/ x \in {batch[k][j] : j \in 1..i - 1}
      BY <3>1, <3>2 DEF PassableUpTo
    <3>4. QED BY <3>1, <3>3
  <2>2. CASE k = p
    <3> DEFINE n == Len(batch[p])
    <3>1. /\ n \in Nat /\ DOMAIN batch[p] = 1..n /\ DOMAIN batch'[p] = 1..n + 1
          /\ \A j \in 1..n : batch'[p][j] = batch[p][j]
          /\ batch'[p][n + 1] = o
      BY <1>0
    <3> HIDE DEF n
    <3>2. CASE i \in 1..n
      <4>1. batch'[p][i] = batch[p][i] /\ i \in DOMAIN batch[p]
        BY <3>1, <3>2
      <4>2. Passable(x) \/ x \in {batch[p][j] : j \in 1..i - 1}
        BY <2>0, <2>2, <4>1 DEF HeldPasses, PassableUpTo
      <4>3. \A j \in 1..i - 1 : batch'[p][j] = batch[p][j]
        BY <3>1, <3>2
      <4>4. \A y : y \in {batch[p][j] : j \in 1..i - 1} => y \in {batch'[p][j] : j \in 1..i - 1}
        BY <4>3
      <4>5. QED BY <2>2, <4>2, <4>4
    <3>3. CASE i = n + 1
      <4>1. Passable(x) \/ x \in Range(batch[p])
        BY <1>1, <1>5, <2>2, <3>1, <3>3 DEF PassableUpTo
      <4>2. Range(batch[p]) = {batch'[p][j] : j \in 1..i - 1}
        <5>1. i - 1 = n
          BY <3>1, <3>3
        <5>2. \A y : y \in Range(batch[p]) <=> y \in {batch'[p][j] : j \in 1..n}
          BY <3>1 DEF Range
        <5>3. QED BY <5>1, <5>2
      <4>3. QED BY <2>2, <4>1, <4>2
    <3>4. QED BY <2>2, <3>1, <3>2, <3>3
  <2>3. QED BY <2>1, <2>2
<1>8. QED BY <1>3, <1>4, <1>6, <1>7

(* The commit of the first record a process holds, which was replaced.      *)
LEMMA HeadCommitted ==
  ASSUME IInv, NEW p \in Proc, pc[p] \in {"ack", "abortAck"}, Commit(p, Head(batch[p])),
         UNCHANGED <<handled, stranded>>
  PROVE  /\ \A x : (Passable(x)' <=> Passable(x)) /\ (Replaced(x)' <=> Replaced(x))
         /\ Bounds' /\ CommitPasses'
<1> DEFINE h == Head(batch[p])
<1>0. /\ TypeOK /\ Bounds /\ CommitPasses /\ HeldPasses
      /\ log \in Seq(Record) /\ committed \in [Queue -> Nat]
      /\ Len(log) \in Nat /\ DOMAIN log = 1..Len(log)
      /\ batch[p] # <<>> /\ Replaced(h)
  BY DEF IInv, TypeOK, BrokerTypeOK, BatchShape, AckPasses
<1>1. h \in DOMAIN log /\ h = batch[p][1] /\ 1 \in DOMAIN batch[p] /\ h \in Nat
  BY <1>0, HeldFacts
<1>2. /\ UNCHANGED <<log, open, owner, pos, closed>>
      /\ committed' = committed \/ committed' = [committed EXCEPT ![log[h].queue] = h + 1]
  BY <1>0, <1>1, CommitFacts
<1>3. \A x : (Passable(x)' <=> Passable(x)) /\ (Replaced(x)' <=> Replaced(x))
  BY <1>2 DEF Passable, Replaced
<1>4. \A x \in DOMAIN log : log[x].queue = log[h].queue /\ x < h => Passable(x)
  <2>1. PassableUpTo(log[h].queue, h, {batch[p][j] : j \in 1..1 - 1})
    BY <1>0, <1>1 DEF HeldPasses
  <2>2. {batch[p][j] : j \in 1..1 - 1} = {}
    OBVIOUS
  <2>3. QED BY <2>1, <2>2 DEF PassableUpTo
<1> HIDE DEF h
<1>5. \A q \in Queue : committed'[q] = committed[q] \/ (q = log[h].queue /\ committed'[q] = h + 1)
  BY <1>0, <1>2
<1>6. Bounds'
  BY <1>0, <1>1, <1>2, <1>5 DEF Bounds
<1>7. CommitPasses'
  <2> SUFFICES ASSUME NEW q \in Queue, NEW x \in DOMAIN log, log[x].queue = q, x < committed'[q]
               PROVE  Passable(x)
    BY <1>2, <1>3 DEF CommitPasses, PassableUpTo
  <2>1. CASE committed'[q] = committed[q]
    BY <1>0, <2>1 DEF CommitPasses, PassableUpTo
  <2>2. CASE q = log[h].queue /\ committed'[q] = h + 1
    <3>1. x < h \/ x = h
      BY <1>0, <1>1, <2>2
    <3>2. QED BY <1>0, <1>4, <2>2, <3>1 DEF Passable
  <2>3. QED BY <1>5, <2>1, <2>2
<1>8. QED BY <1>3, <1>6, <1>7

LEMMA AckIInv == ASSUME IInv, NEW p \in Proc, Ack(p) PROVE IInv'
<1> DEFINE h == Head(batch[p])
           n == Len(batch[p])
<1>0. /\ TypeOK /\ BatchShape /\ ReaderPasses /\ HeldPasses
      /\ pc[p] = "ack" /\ Commit(p, h) /\ batch' = [batch EXCEPT ![p] = Tail(@)]
      /\ Goto(p, IF n = 1 THEN "idle" ELSE "item")
      /\ UNCHANGED <<handled, redrives, stranded>>
      /\ batch \in [Proc -> Seq(Nat)] /\ pc \in [Proc -> Steps]
      /\ \A k \in Proc : Range(batch[k]) \subseteq DOMAIN log
      /\ batch[p] # <<>> /\ Replaced(h)
  BY DEF Ack, IInv, TypeOK, BatchShape, AckPasses
<1>1. /\ h \in DOMAIN log /\ h = batch[p][1] /\ n \in Nat /\ n > 0
      /\ DOMAIN batch[p] = 1..n
  BY <1>0, HeldFacts
<1>2. BrokerTypeOK' /\ UNCHANGED <<log, open, owner, pos, closed>>
  BY <1>0, <1>1, CommitFacts
<1>3. /\ \A x : (Passable(x)' <=> Passable(x)) /\ (Replaced(x)' <=> Replaced(x))
      /\ Bounds' /\ CommitPasses'
  BY <1>0, HeadCommitted
<1>4. /\ Tail(batch[p]) \in Seq(Nat) /\ Len(Tail(batch[p])) = n - 1
      /\ DOMAIN Tail(batch[p]) = 1..n - 1
      /\ \A i \in 1..n - 1 : i + 1 \in DOMAIN batch[p] /\ Tail(batch[p])[i] = batch[p][i + 1]
      /\ Range(batch[p]) = {h} \cup Range(Tail(batch[p]))
  BY <1>0, TailFacts
<1>5. batch'[p] = Tail(batch[p]) /\ \A k \in Proc \ {p} : batch'[k] = batch[k] /\ pc'[k] = pc[k]
  BY <1>0 DEF Goto
<1> HIDE DEF h, n
<1>6. TypeOK'
  <2>1. batch' \in [Proc -> Seq(Nat)] /\ pc' \in [Proc -> Steps]
    BY <1>0, <1>4 DEF Goto, Steps
  <2>2. \A k \in Proc : Range(batch'[k]) \subseteq DOMAIN log
    BY <1>0, <1>4, <1>5
  <2>3. QED BY <1>0, <1>2, <2>1, <2>2 DEF TypeOK
<1>7. ReaderPasses'
  <2> SUFFICES ASSUME NEW q \in Queue, owner[q] # NoProc,
                      NEW x \in DOMAIN log, log[x].queue = q, x < pos[q]
               PROVE  Passable(x) \/ x \in Range(batch'[owner[q]])
    BY <1>2, <1>3 DEF ReaderPasses, PassableUpTo
  <2>1. Passable(x) \/ x \in Range(batch[owner[q]])
    BY <1>0 DEF ReaderPasses, PassableUpTo
  <2>2. owner[q] \in Proc
    BY <1>0 DEF TypeOK, BrokerTypeOK
  <2>3. QED BY <1>0, <1>4, <1>5, <2>1, <2>2 DEF Passable
<1>8. HeldPasses'
  <2> SUFFICES ASSUME NEW k \in Proc, NEW i \in DOMAIN batch'[k],
                      NEW x \in DOMAIN log, log[x].queue = log[batch'[k][i]].queue, x < batch'[k][i]
               PROVE  Passable(x) \/ x \in {batch'[k][j] : j \in 1..i - 1}
    BY <1>2, <1>3 DEF HeldPasses, PassableUpTo
  <2>1. CASE k # p
    BY <1>0, <1>5, <2>1 DEF HeldPasses, PassableUpTo
  <2>2. CASE k = p
    <3>1. i \in 1..n - 1 /\ i + 1 \in DOMAIN batch[p] /\ batch'[p][i] = batch[p][i + 1]
      BY <1>4, <1>5, <2>2
    <3>2. Passable(x) \/ x \in {batch[p][j] : j \in 1..i + 1 - 1}
      BY <1>0, <2>2, <3>1 DEF HeldPasses, PassableUpTo
    <3>3. ASSUME NEW j \in 1..i + 1 - 1, x = batch[p][j] PROVE Passable(x) \/ x \in {batch'[p][m] : m \in 1..i - 1}
      <4>1. CASE j = 1
        BY <1>0, <1>1, <3>3, <4>1 DEF Passable
      <4>2. CASE j # 1
        <5>1. j - 1 \in 1..i - 1 /\ j - 1 \in 1..n - 1 /\ j - 1 + 1 = j
          BY <1>1, <3>1, <4>2
        <5>2. batch'[p][j - 1] = x
          BY <1>4, <1>5, <3>3, <5>1
        <5>3. QED BY <5>1, <5>2
      <4>3. QED BY <4>1, <4>2
    <3>4. QED BY <2>2, <3>2, <3>3
  <2>3. QED BY <2>1, <2>2
<1>9. BatchShape' /\ AckPasses'
  <2>1. pc'[p] = IF n = 1 THEN "idle" ELSE "item"
    BY <1>0 DEF Goto
  <2>2. n = 1 => batch'[p] = <<>>
    BY <1>4, <1>5
  <2>3. n # 1 => batch'[p] # <<>>
    BY <1>1, <1>4, <1>5
  <2>4. \A g, k \in Range(batch'[p]) : log'[g].queue = log'[k].queue
    BY <1>0, <1>2, <1>4, <1>5 DEF BatchShape
  <2>5. Grows
    BY <1>2 DEF Grows
  <2>6. QED BY <1>0, <1>5, <2>1, <2>2, <2>3, <2>4, <2>5, OneMoves
<1>10. QED BY <1>3, <1>6, <1>7, <1>8, <1>9 DEF IInv

LEMMA AbortAckIInv == ASSUME IInv, NEW p \in Proc, AbortAck(p) PROVE IInv'
<1>0. /\ TypeOK /\ BatchShape /\ ReaderPasses /\ HeldPasses
      /\ pc[p] = "abortAck" /\ Commit(p, Head(batch[p])) /\ Goto(p, "rewind")
      /\ UNCHANGED <<batch, handled, redrives, stranded>>
      /\ pc \in [Proc -> Steps] /\ batch[p] # <<>>
  BY DEF AbortAck, IInv, TypeOK, BatchShape
<1>1. BrokerTypeOK' /\ UNCHANGED <<log, open, owner, pos, closed>>
  BY <1>0, HeldFacts, CommitFacts
<1>2. /\ \A x : (Passable(x)' <=> Passable(x)) /\ (Replaced(x)' <=> Replaced(x))
      /\ Bounds' /\ CommitPasses'
  BY <1>0, HeadCommitted
<1>3. TypeOK'
  BY <1>0, <1>1, StepTypes DEF Grows, TypeOK, Steps
<1>4. ReaderPasses' /\ HeldPasses'
  BY <1>0, <1>1, <1>2 DEF ReaderPasses, HeldPasses, PassableUpTo
<1>5. BatchShape' /\ AckPasses'
  <2>1. pc'[p] = "rewind" /\ \A k \in Proc \ {p} : pc'[k] = pc[k]
    BY <1>0 DEF Goto
  <2>2. \A g, k \in Range(batch'[p]) : log'[g].queue = log'[k].queue
    BY <1>0, <1>1 DEF BatchShape
  <2>3. QED BY <1>0, <1>1, <2>1, <2>2, OneMoves DEF Grows
<1>6. QED BY <1>2, <1>3, <1>4, <1>5 DEF IInv

(* A new assignment starts where the commits are, and what a member that    *)
(* lost the topic may still pass stays stranded.                            *)
LEMMA RebalanceIInv == ASSUME IInv, NEW q \in Queue, NEW p \in Proc, Rebalance(q, p) PROVE IInv'
<1>0. /\ TypeOK /\ BatchShape /\ Bounds /\ CommitPasses /\ ReaderPasses /\ HeldPasses /\ AckPasses
      /\ owner' = [owner EXCEPT ![q] = p] /\ pos' = [pos EXCEPT ![q] = committed[q]]
      /\ stranded' = {o \in stranded : log[o].queue # q \/ o < committed[q] \/ Overtaken(o)}
      /\ UNCHANGED <<log, committed, open, closed, pc, batch, handled, redrives>>
      /\ faults' \in Nat
  BY KafkaBounds DEF Rebalance, Assign, Fault, NoFault, IInv, TypeOK, BrokerTypeOK
<1>1. TypeOK'
  <2>1. owner' \in [Queue -> Proc \cup {NoProc}] /\ pos' \in [Queue -> Nat]
    BY <1>0 DEF TypeOK, BrokerTypeOK
  <2>2. QED BY <1>0, <2>1 DEF TypeOK, BrokerTypeOK
<1>2. \A x : Replaced(x)' <=> Replaced(x)
  BY <1>0 DEF Replaced
<1>3. \A x : Passable(x) /\ (log[x].queue # q \/ x < committed[q] \/ Overtaken(x)) => Passable(x)'
  BY <1>0, <1>2 DEF Passable
<1>4. Bounds' /\ BatchShape' /\ AckPasses'
  BY <1>0, <1>2 DEF Bounds, BatchShape, AckPasses, TypeOK, BrokerTypeOK
<1>5. \A r \in Queue : \A x \in DOMAIN log : log[x].queue = r /\ x < committed[r] => Passable(x)'
  BY <1>0, <1>3 DEF CommitPasses, PassableUpTo
<1>6. CommitPasses'
  BY <1>0, <1>5 DEF CommitPasses, PassableUpTo
<1>7. ReaderPasses'
  <2> SUFFICES ASSUME NEW r \in Queue, owner'[r] # NoProc,
                      NEW x \in DOMAIN log, log[x].queue = r, x < pos'[r]
               PROVE  Passable(x)' \/ x \in Range(batch[owner'[r]])
    BY <1>0 DEF ReaderPasses, PassableUpTo
  <2>1. CASE r = q
    BY <1>0, <1>5, <2>1 DEF TypeOK, BrokerTypeOK
  <2>2. CASE r # q
    <3>1. owner'[r] = owner[r] /\ pos'[r] = pos[r]
      BY <1>0, <2>2 DEF TypeOK, BrokerTypeOK
    <3>2. Passable(x) \/ x \in Range(batch[owner'[r]])
      BY <1>0, <3>1 DEF ReaderPasses, PassableUpTo
    <3>3. QED BY <1>3, <2>2, <3>2
  <2>3. QED BY <2>1, <2>2
<1>8. HeldPasses'
  <2> SUFFICES ASSUME NEW k \in Proc, NEW i \in DOMAIN batch[k],
                      NEW x \in DOMAIN log, log[x].queue = log[batch[k][i]].queue, x < batch[k][i]
               PROVE  Passable(x)' \/ x \in {batch[k][j] : j \in 1..i - 1}
    BY <1>0 DEF HeldPasses, PassableUpTo
  <2>1. Passable(x) \/ x \in {batch[k][j] : j \in 1..i - 1}
    BY <1>0 DEF HeldPasses, PassableUpTo
  <2>2. batch[k][i] \in Range(batch[k])
    BY DEF Range
  <2>3. Overtaken(x)
    BY <2>2 DEF Overtaken
  <2>4. QED BY <1>3, <2>1, <2>3
<1>9. QED BY <1>1, <1>4, <1>6, <1>7, <1>8 DEF IInv

-----------------------------------------------------------------------------
(* The steps that neither fetch nor commit.                                 *)

(* A process writes a copy of what it holds, and goes on or gives up.       *)
LEMMA CopyIInv ==
  ASSUME IInv, NEW p \in Proc, NEW r \in Record, NEW reply, NEW step \in Steps,
         pc[p] \notin {"idle", "drain"}, Write(p, r, reply), Goto(p, step), r.msg = Held(p).msg,
         step \notin {"idle", "drain"}, reply # "ok" => step \notin {"ack", "abortAck"},
         UNCHANGED <<batch, handled, redrives, stranded>>
  PROVE  IInv'
<1>0. /\ TypeOK /\ BatchShape /\ batch[p] # <<>> /\ log \in Seq(Record) /\ pc \in [Proc -> Steps]
      /\ \A k \in Proc : Range(batch[k]) \subseteq DOMAIN log
  BY DEF IInv, BatchShape, TypeOK, BrokerTypeOK
<1>1. /\ Grows /\ BrokerTypeOK' /\ (reply = "ok" => log' = Append(log, r))
      /\ UNCHANGED <<committed, open, owner, pos, closed>>
  BY <1>0, WriteFacts
<1>2. TypeOK'
  BY <1>0, <1>1, StepTypes DEF TypeOK
<1>3. Bounds' /\ CommitPasses' /\ ReaderPasses' /\ HeldPasses'
  BY <1>1, <1>2, KeepPasses
<1>4. reply = "ok" => Replaced(Head(batch[p]))'
  <2> SUFFICES ASSUME reply = "ok" PROVE Replaced(Head(batch[p]))'
    OBVIOUS
  <2>1. Head(batch[p]) \in DOMAIN log
    BY <1>0, HeldFacts
  <2>2. /\ Len(log) \in Nat /\ DOMAIN log = 1..Len(log) /\ DOMAIN log' = 1..Len(log) + 1
        /\ log'[Len(log) + 1] = r /\ \A x \in DOMAIN log : log'[x] = log[x]
    BY <1>0, <1>1
  <2>3. /\ Len(log) + 1 \in DOMAIN log' /\ Head(batch[p]) < Len(log) + 1
        /\ log'[Len(log) + 1].msg = log'[Head(batch[p])].msg
    BY <2>1, <2>2 DEF Held
  <2>4. QED BY <2>3 DEF Replaced
<1>5. BatchShape' /\ AckPasses'
  <2>1. pc'[p] = step /\ \A k \in Proc \ {p} : pc'[k] = pc[k]
    BY <1>0 DEF Goto
  <2>2. \A x \in DOMAIN log : log'[x] = log[x]
    BY <1>0, <1>1, LogGrows
  <2>3. \A g, k \in Range(batch'[p]) : log'[g].queue = log'[k].queue
    BY <1>0, <2>2 DEF BatchShape
  <2>4. QED BY <1>0, <1>1, <1>4, <2>1, <2>3, OneMoves
<1>6. QED BY <1>2, <1>3, <1>5 DEF IInv

(* A process gives up its batch: with the reader, or with the records that  *)
(* a failed drain strands.                                                  *)
LEMMA ReturnIInv ==
  ASSUME IInv, NEW p \in Proc, Return(p), BrokerTypeOK', UNCHANGED <<log, committed, pos, handled, redrives>>,
         stranded \subseteq stranded', stranded' \subseteq DOMAIN log,
         \A q \in Queue : owner'[q] = owner[q] \/ owner'[q] = NoProc,
         \A q \in Queue : owner'[q] = p =>
           \A x \in Range(batch[p]) : log[x].queue = q /\ x < pos[q] => x \in stranded'
  PROVE  IInv'
<1>0. TypeOK /\ batch \in [Proc -> Seq(Nat)] /\ pc \in [Proc -> Steps] /\ Grows
  BY DEF IInv, TypeOK, Grows
<1>1. TypeOK'
  BY <1>0, ReturnTypes
<1>2. /\ batch'[p] = <<>> /\ pc'[p] = "idle"
      /\ \A k \in Proc \ {p} : batch'[k] = batch[k] /\ pc'[k] = pc[k]
  BY <1>0 DEF Return, Goto
<1>3. Bounds' /\ CommitPasses' /\ ReaderPasses' /\ HeldPasses'
  <2>1. \A k \in Proc : batch'[k] = batch[k] \/ batch'[k] = <<>>
    BY <1>2
  <2>2. \A k \in Proc : batch'[k] # batch[k] =>
          \A q \in Queue : owner'[q] = k =>
            \A x \in Range(batch[k]) : log[x].queue = q /\ x < pos[q] => Passable(x)'
    BY <1>2 DEF Passable
  <2>3. QED BY <1>0, <1>1, <2>1, <2>2, KeepPasses
<1>4. BatchShape' /\ AckPasses'
  <2>1. Range(batch'[p]) = {}
    BY <1>2 DEF Range
  <2>2. QED BY <1>0, <1>2, <2>1, OneMoves
<1>5. QED BY <1>1, <1>3, <1>4 DEF IInv

(* Only the pc of a process, the history or the members of a group change.  *)
LEMMA QuietIInv ==
  ASSUME IInv, NEW p \in Proc, NEW step \in Steps, pc' = [pc EXCEPT ![p] = step], BrokerTypeOK',
         UNCHANGED <<log, committed, pos, batch, stranded>>,
         \A q \in Queue : owner'[q] = owner[q] \/ owner'[q] = NoProc,
         handled \subseteq handled', handled' \in SUBSET Msg, redrives' \in Nat,
         step = "idle" => batch[p] = <<>>, step = "drain" => batch[p] = <<>> \/ pc[p] = "drain",
         step \notin {"idle", "drain"} => batch[p] # <<>>,
         step \in {"ack", "abortAck"} => Replaced(Head(batch[p]))'
  PROVE  IInv'
<1>0. TypeOK /\ BatchShape /\ batch \in [Proc -> Seq(Nat)] /\ pc \in [Proc -> Steps] /\ Grows
  BY DEF IInv, TypeOK, Grows
<1>1. TypeOK'
  BY <1>0, StepTypes DEF Goto
<1>2. Bounds' /\ CommitPasses' /\ ReaderPasses' /\ HeldPasses'
  BY <1>0, <1>1, KeepPasses
<1>3. pc'[p] = step /\ \A k \in Proc \ {p} : pc'[k] = pc[k]
  BY <1>0
<1>4. \A g, k \in Range(batch'[p]) : log'[g].queue = log'[k].queue
  BY <1>0 DEF BatchShape
<1>5. step = "drain" => \A h \in Range(batch'[p]) : log'[h].queue = "dlq"
  BY <1>0 DEF BatchShape, Range
<1>6. BatchShape' /\ AckPasses'
  BY <1>0, <1>3, <1>4, <1>5, OneMoves
<1>7. QED BY <1>1, <1>2, <1>6 DEF IInv

(* A record is popped by a worker that holds none, or by a drain.           *)
LEMMA PopIInv ==
  ASSUME IInv, NEW p \in Proc, NEW q \in Queue, NEW o \in DOMAIN log, Pop(p, q, o), NEW step \in Steps,
         pc' = [pc EXCEPT ![p] = step], batch' = [batch EXCEPT ![p] = Append(@, o)],
         UNCHANGED <<faults, handled, redrives, stranded>>,
         \/ batch[p] = <<>> /\ step \notin {"idle", "drain", "ack", "abortAck"}
         \/ pc[p] = "drain" /\ step = "drain" /\ q = "dlq"
  PROVE  IInv'
<1>0. TypeOK /\ BatchShape /\ batch \in [Proc -> Seq(Nat)] /\ pc \in [Proc -> Steps] /\ o \in Nat
  BY DEF IInv, TypeOK, BrokerTypeOK
<1>1. log[o].queue = q /\ BrokerTypeOK' /\ log' = log /\ Grows
  BY <1>0 DEF Pop, TypeOK, BrokerTypeOK, Grows
<1>2. TypeOK' /\ Range(batch'[p]) = Range(batch[p]) \cup {o}
  BY <1>0, <1>1, PopTypes
<1>3. Bounds' /\ CommitPasses' /\ ReaderPasses' /\ HeldPasses'
  BY <1>2, PopPasses
<1>4. /\ pc'[p] = step /\ \A k \in Proc \ {p} : batch'[k] = batch[k] /\ pc'[k] = pc[k]
      /\ batch'[p] = Append(batch[p], o) /\ batch'[p] # <<>>
  BY <1>0
<1>5. /\ \A g, h \in Range(batch'[p]) : log[g].queue = log[h].queue
      /\ step = "drain" => \A h \in Range(batch'[p]) : log[h].queue = "dlq"
  <2>1. CASE batch[p] = <<>> /\ step # "drain"
    <3>1. Range(batch'[p]) = {o}
      BY <1>2, <2>1 DEF Range
    <3>2. QED BY <2>1, <3>1
  <2>2. CASE pc[p] = "drain" /\ q = "dlq"
    BY <1>0, <1>1, <1>2, <2>2 DEF BatchShape
  <2>3. QED BY <2>1, <2>2
<1>6. BatchShape' /\ AckPasses'
  BY <1>1, <1>4, <1>5, OneMoves
<1>7. QED BY <1>2, <1>3, <1>6 DEF IInv

-----------------------------------------------------------------------------
(* Every step keeps the invariant.                                          *)

LEMMA InitIInv == Init => IInv
<1> SUFFICES ASSUME Init PROVE IInv
  OBVIOUS
<1> USE DEF Init, BrokerInit
<1>1. Len(log) = 0 /\ DOMAIN log = {} /\ \A p \in Proc : Range(batch[p]) = {} /\ DOMAIN batch[p] = {}
  BY DEF Range
<1>2. TypeOK
  BY <1>1 DEF TypeOK, BrokerTypeOK, Steps
<1>3. BatchShape /\ Bounds /\ CommitPasses /\ ReaderPasses
  BY <1>1 DEF BatchShape, Bounds, CommitPasses, ReaderPasses, PassableUpTo
<1>4. HeldPasses /\ AckPasses
  BY <1>1 DEF HeldPasses, AckPasses
<1>5. QED BY <1>2, <1>3, <1>4 DEF IInv

LEMMA WorkIInv == ASSUME IInv, NEW p \in Proc, Work(p) PROVE IInv'
<1>0. TypeOK /\ BatchShape /\ pc \in [Proc -> Steps] /\ batch \in [Proc -> Seq(Nat)] /\ handled \in SUBSET Msg
      /\ redrives \in Nat /\ stranded \subseteq DOMAIN log /\ BrokerTypeOK
  BY DEF IInv, TypeOK
<1>a. "work" \in Queue /\ "dlq" \in Queue
  BY DEF Queue
<1>b. pc[p] \notin {"idle", "drain"} => batch[p] # <<>> /\ Held(p) \in Record
  BY <1>0, HeldFacts DEF BatchShape
<1>1. CASE Consume(p)
  <2>1. PICK o \in DOMAIN log :
          /\ Pop(p, "work", o) /\ batch' = [batch EXCEPT ![p] = <<o>>]
          /\ Goto(p, IF log[o].kind = "job" THEN "handle" ELSE "dlq")
    BY <1>1 DEF Consume
  <2> DEFINE step == IF log[o].kind = "job" THEN "handle" ELSE "dlq"
  <2>2. batch[p] = <<>> /\ UNCHANGED <<faults, handled, redrives, stranded>>
    BY <1>0, <1>1 DEF Consume, NoFault, BatchShape
  <2>3. <<o>> = Append(batch[p], o)
    BY <2>2
  <2>4. batch' = [batch EXCEPT ![p] = Append(@, o)]
    BY <2>1, <2>3
  <2>5. step \in Steps /\ step \notin {"idle", "drain", "ack", "abortAck"} /\ pc' = [pc EXCEPT ![p] = step]
    BY <2>1 DEF Steps, Goto
  <2> HIDE DEF step
  <2>6. QED BY <1>a, <2>1, <2>2, <2>4, <2>5, PopIInv
<1>2. CASE Handle(p)
  <2>1. pc[p] = "handle" /\ UNCHANGED <<log, committed, open, owner, pos, closed, faults, batch, redrives, stranded>>
    BY <1>2 DEF Handle, broker, NoFault
  <2>2. BrokerTypeOK'
    BY <1>0, <2>1 DEF BrokerTypeOK
  <2>3. CASE handled' = handled \cup {Held(p).msg} /\ Goto(p, "ack")
    <3>1. handled' \in SUBSET Msg /\ handled \subseteq handled'
      BY <1>0, <1>b, <2>1, <2>3 DEF Record
    <3>2. Replaced(Head(batch[p]))'
      BY <2>1, <2>3 DEF Replaced, Held
    <3>3. "ack" \in Steps
      BY DEF Steps
    <3>4. QED BY <1>0, <1>b, <2>1, <2>2, <2>3, <3>1, <3>2, <3>3, QuietIInv DEF Goto
  <2>4. CASE /\ Goto(p, IF Held(p).attempts + 1 < MaxAttempts THEN "retry" ELSE "dlq")
             /\ UNCHANGED handled
    <3> DEFINE step == IF Held(p).attempts + 1 < MaxAttempts THEN "retry" ELSE "dlq"
    <3>1. step \in Steps /\ step \notin {"idle", "drain", "ack", "abortAck"} /\ pc' = [pc EXCEPT ![p] = step]
      BY <2>4 DEF Steps, Goto
    <3> HIDE DEF step
    <3>2. QED BY <1>0, <1>b, <2>1, <2>2, <2>4, <3>1, QuietIInv
  <2>5. QED BY <1>2, <2>3, <2>4 DEF Handle
<1>3. CASE Retry(p)
  <2>1. PICK reply \in {"ok", "failed"} :
          /\ Write(p, [Held(p) EXCEPT !.attempts = @ + 1], reply)
          /\ Goto(p, IF reply = "ok" THEN "ack" ELSE "rewind")
    BY <1>3 DEF Retry
  <2>2. pc[p] = "retry" /\ UNCHANGED <<batch, handled, redrives, stranded>>
    BY <1>3 DEF Retry
  <2> DEFINE step == IF reply = "ok" THEN "ack" ELSE "rewind"
             r == [Held(p) EXCEPT !.attempts = @ + 1]
  <2>3. step \in Steps /\ step \notin {"idle", "drain"} /\ (reply # "ok" => step \notin {"ack", "abortAck"})
    BY DEF Steps
  <2>4. r \in Record /\ r.msg = Held(p).msg
    BY <1>b, <2>2, CopyTypes
  <2>5. Write(p, r, reply) /\ Goto(p, step)
    BY <2>1
  <2> HIDE DEF step, r
  <2>6. QED BY <2>2, <2>3, <2>4, <2>5, CopyIInv
<1>4. CASE DeadLetter(p)
  <2>1. PICK reply \in {"ok", "failed"} :
          /\ Write(p, [Held(p) EXCEPT !.queue = "dlq"], reply)
          /\ Goto(p, IF reply = "ok" THEN "ack" ELSE "rewind")
    BY <1>4 DEF DeadLetter
  <2>2. pc[p] = "dlq" /\ UNCHANGED <<batch, handled, redrives, stranded>>
    BY <1>4 DEF DeadLetter
  <2> DEFINE step == IF reply = "ok" THEN "ack" ELSE "rewind"
             r == [Held(p) EXCEPT !.queue = "dlq"]
  <2>3. step \in Steps /\ step \notin {"idle", "drain"} /\ (reply # "ok" => step \notin {"ack", "abortAck"})
    BY DEF Steps
  <2>4. r \in Record /\ r.msg = Held(p).msg
    BY <1>b, <2>2, CopyTypes
  <2>5. Write(p, r, reply) /\ Goto(p, step)
    BY <2>1
  <2> HIDE DEF step, r
  <2>6. QED BY <2>2, <2>3, <2>4, <2>5, CopyIInv
<1>5. CASE PublishRedriven(p)
  <2>1. PICK reply \in {"ok", "failed"} :
          /\ Write(p, [Held(p) EXCEPT !.queue = "work", !.attempts = 0], reply)
          /\ Goto(p, IF reply = "ok" THEN "ack" ELSE "abort")
    BY <1>5 DEF PublishRedriven
  <2>2. pc[p] = "item" /\ UNCHANGED <<batch, handled, redrives, stranded>>
    BY <1>5 DEF PublishRedriven
  <2> DEFINE step == IF reply = "ok" THEN "ack" ELSE "abort"
             r == [Held(p) EXCEPT !.queue = "work", !.attempts = 0]
  <2>3. step \in Steps /\ step \notin {"idle", "drain"} /\ (reply # "ok" => step \notin {"ack", "abortAck"})
    BY DEF Steps
  <2>4. r \in Record /\ r.msg = Held(p).msg
    BY <1>b, <2>2, CopyTypes
  <2>5. Write(p, r, reply) /\ Goto(p, step)
    BY <2>1
  <2> HIDE DEF step, r
  <2>6. QED BY <2>2, <2>3, <2>4, <2>5, CopyIInv
<1>6. CASE RestoreToDLQ(p)
  <2>1. PICK reply \in {"ok", "failed"} :
          /\ Write(p, Held(p), reply)
          /\ Goto(p, IF reply = "failed" THEN "rewind"
                     ELSE IF pc[p] = "abort" THEN "abortAck" ELSE "ack")
    BY <1>6 DEF RestoreToDLQ
  <2>2. pc[p] \in {"item", "abort"} /\ UNCHANGED <<batch, handled, redrives, stranded>>
    BY <1>6 DEF RestoreToDLQ
  <2> DEFINE step == IF reply = "failed" THEN "rewind"
                     ELSE IF pc[p] = "abort" THEN "abortAck" ELSE "ack"
  <2>3. step \in Steps /\ step \notin {"idle", "drain"} /\ (reply # "ok" => step \notin {"ack", "abortAck"})
    BY DEF Steps
  <2>4. Write(p, Held(p), reply) /\ Goto(p, step) /\ Held(p) \in Record
    BY <1>b, <2>1, <2>2
  <2> HIDE DEF step
  <2>5. QED BY <2>2, <2>3, <2>4, CopyIInv
<1>7. CASE RewindBatch(p)
  <2> DEFINE q == Held(p).queue
  <2>1. /\ pc[p] = "rewind" /\ DropReaders(p, {q}) /\ Return(p)
        /\ UNCHANGED <<log, committed, pos, closed, faults, handled, redrives, stranded>>
    BY <1>7 DEF RewindBatch, Rewind, NoFault
  <2>2. q \in Queue /\ \A h \in Range(batch[p]) : log[h].queue = q
    <3>1. Head(batch[p]) \in Range(batch[p]) /\ q = log[Head(batch[p])].queue /\ q \in Queue
      BY <1>0, <1>b, <2>1, HeldFacts DEF Held
    <3>2. QED BY <1>0, <3>1 DEF BatchShape
  <2>3. /\ open' \in [Queue -> SUBSET Proc] /\ owner' \in [Queue -> Proc \cup {NoProc}]
        /\ \A r \in Queue : owner'[r] = owner[r] \/ owner'[r] = NoProc
        /\ owner'[q] # p
    BY <1>0, <2>1, <2>2, DropFacts
  <2>4. BrokerTypeOK'
    BY <1>0, <2>1, <2>3 DEF BrokerTypeOK
  <2> HIDE DEF q
  <2>5. QED BY <1>0, <2>1, <2>2, <2>3, <2>4, ReturnIInv
<1>8. CASE DrainEnds(p)
  <2> DEFINE step == IF batch[p] = <<>> THEN "idle" ELSE "item"
  <2>1. /\ pc' = [pc EXCEPT ![p] = step] /\ redrives' = redrives + 1
        /\ UNCHANGED <<log, committed, open, owner, pos, closed, faults, batch, handled, stranded>>
    BY <1>8 DEF DrainEnds, Goto, broker, NoFault
  <2>2. BrokerTypeOK'
    BY <1>0, <2>1 DEF BrokerTypeOK
  <2>3. /\ step \in Steps /\ step \notin {"drain", "ack", "abortAck"}
        /\ step = "idle" => batch[p] = <<>>
        /\ step # "idle" => batch[p] # <<>>
    BY DEF Steps
  <2>4. redrives' \in Nat
    BY <1>0, <2>1
  <2> HIDE DEF step
  <2>5. QED BY <1>0, <2>1, <2>2, <2>3, <2>4, QuietIInv
<1>9. QED BY <1>1, <1>2, <1>3, <1>4, <1>5, <1>6, <1>7, <1>8, AckIInv, AbortAckIInv DEF Work

LEMMA NextIInv == IInv /\ [Next]_vars => IInv'
<1> SUFFICES ASSUME IInv, [Next]_vars PROVE IInv'
  OBVIOUS
<1>0. /\ TypeOK /\ BatchShape /\ AckPasses /\ BrokerTypeOK /\ log \in Seq(Record)
      /\ pc \in [Proc -> Steps] /\ batch \in [Proc -> Seq(Nat)] /\ handled \in SUBSET Msg
      /\ redrives \in Nat /\ stranded \subseteq DOMAIN log
      /\ \A k \in Proc : Range(batch[k]) \subseteq DOMAIN log
      /\ \A k \in Proc : pc[k] = "idle" => batch[k] = <<>>
  BY DEF IInv, TypeOK, BrokerTypeOK, BatchShape
<1>1. ASSUME NEW m \in Msg, NEW kind \in Kinds, Publish(m, kind) PROVE IInv'
  <2> DEFINE r == [queue |-> "work", msg |-> m, kind |-> kind, attempts |-> 0]
  <2>1. /\ r \in Record /\ log' = Append(log, r)
        /\ UNCHANGED <<committed, open, owner, pos, closed, faults, pc, batch, handled, redrives, stranded>>
    BY <1>1 DEF Publish, NoFault, Record, Queue
  <2> HIDE DEF r
  <2>2. Grows
    BY <2>1 DEF Grows
  <2>3. log' \in Seq(Record) /\ \A x \in DOMAIN log : x \in DOMAIN log' /\ log'[x] = log[x]
    BY <1>0, <2>2, LogGrows
  <2>4. TypeOK'
    BY <1>0, <2>1, <2>3 DEF TypeOK, BrokerTypeOK
  <2>5. Bounds' /\ CommitPasses' /\ ReaderPasses' /\ HeldPasses'
    BY <2>1, <2>2, <2>4, KeepPasses
  <2>6. BatchShape'
    BY <1>0, <2>1, <2>3 DEF BatchShape
  <2>7. AckPasses'
    <3> SUFFICES ASSUME NEW k \in Proc, pc[k] \in {"ack", "abortAck"} PROVE Replaced(Head(batch[k]))'
      BY <2>1 DEF AckPasses
    <3>1. Replaced(Head(batch[k])) /\ Head(batch[k]) \in DOMAIN log
      BY <1>0, HeldFacts DEF AckPasses, BatchShape
    <3>2. \A x \in DOMAIN log : Replaced(x) => Replaced(x)'
      BY <1>0, <2>1, <2>2, PassesOn
    <3>3. QED BY <2>1, <3>1, <3>2 DEF Replaced
  <2>8. QED BY <2>4, <2>5, <2>6, <2>7 DEF IInv
<1>2. ASSUME NEW p \in Proc, NEW q \in Queue, OpenReader(p, q) PROVE IInv'
  <2>1. /\ open' = [open EXCEPT ![q] = @ \cup {p}]
        /\ UNCHANGED <<log, committed, owner, pos, closed, faults, pc, batch, handled, redrives, stranded>>
    BY <1>2 DEF OpenReader, Reader, NoFault
  <2>2. BrokerTypeOK'
    BY <1>0, <2>1 DEF BrokerTypeOK
  <2>3. pc' = [pc EXCEPT ![p] = pc[p]]
    BY <1>0, <2>1
  <2>4. pc[p] \in {"ack", "abortAck"} => Replaced(Head(batch[p]))'
    BY <1>0, <2>1 DEF AckPasses, Replaced
  <2>5. pc[p] \in Steps /\ (pc[p] \notin {"idle", "drain"} => batch[p] # <<>>)
    BY <1>0 DEF BatchShape
  <2>6. QED BY <1>0, <2>1, <2>2, <2>3, <2>4, <2>5, QuietIInv
<1>3. ASSUME NEW p \in Proc, StartRedrive(p) PROVE IInv'
  <2>1. /\ pc[p] = "idle" /\ pc' = [pc EXCEPT ![p] = "drain"]
        /\ UNCHANGED <<log, committed, open, owner, pos, closed, faults, batch, handled, redrives, stranded>>
    BY <1>3 DEF StartRedrive, Goto, broker, NoFault
  <2>2. BrokerTypeOK' /\ "drain" \in Steps
    BY <1>0, <2>1 DEF BrokerTypeOK, Steps
  <2>3. QED BY <1>0, <2>1, <2>2, QuietIInv
<1>4. ASSUME NEW p \in Proc, Drain(p) PROVE IInv'
  <2>1. PICK o \in DOMAIN log : Pop(p, "dlq", o) /\ batch' = [batch EXCEPT ![p] = Append(@, o)]
    BY <1>4 DEF Drain
  <2>2. /\ pc[p] = "drain" /\ UNCHANGED <<pc, faults, handled, redrives, stranded>>
    BY <1>4 DEF Drain, NoFault
  <2>3. pc' = [pc EXCEPT ![p] = "drain"] /\ "drain" \in Steps /\ "dlq" \in Queue
    BY <1>0, <2>2 DEF Steps, Queue
  <2>4. QED BY <2>1, <2>2, <2>3, PopIInv
<1>5. ASSUME NEW p \in Proc, DrainFails(p) PROVE IInv'
  <2>1. /\ pc[p] = "drain" /\ Return(p) /\ faults' \in Nat
        /\ stranded' = stranded \cup {o \in Range(batch[p]) : owner["dlq"] = p /\ o < pos["dlq"]}
        /\ UNCHANGED <<log, committed, open, owner, pos, closed, handled, redrives>>
    BY <1>0, <1>5, KafkaBounds DEF DrainFails, broker, Fault, NoFault, BrokerTypeOK
  <2>2. BrokerTypeOK' /\ stranded \subseteq stranded' /\ stranded' \subseteq DOMAIN log
    BY <1>0, <2>1 DEF BrokerTypeOK
  <2>3. \A q \in Queue : owner'[q] = p =>
          \A x \in Range(batch[p]) : log[x].queue = q /\ x < pos[q] => x \in stranded'
    BY <1>0, <2>1 DEF BatchShape
  <2>4. QED BY <2>1, <2>2, <2>3, ReturnIInv
<1>6. ASSUME NEW p \in Proc, CloseTransport(p) PROVE IInv'
  <2>1. /\ DropReaders(p, Queue) /\ closed' = closed \cup {p} /\ faults' \in Nat
        /\ UNCHANGED <<log, committed, pos, pc, batch, handled, redrives, stranded>>
    BY <1>0, <1>6, KafkaBounds DEF CloseTransport, Close, Fault, BrokerTypeOK
  <2>2. /\ open' \in [Queue -> SUBSET Proc] /\ owner' \in [Queue -> Proc \cup {NoProc}]
        /\ \A q \in Queue : owner'[q] = owner[q] \/ owner'[q] = NoProc
    BY <1>0, <2>1, DropFacts
  <2>3. BrokerTypeOK' /\ pc' = [pc EXCEPT ![p] = pc[p]]
    BY <1>0, <2>1, <2>2 DEF BrokerTypeOK
  <2>4. pc[p] \in {"ack", "abortAck"} => Replaced(Head(batch[p]))'
    BY <1>0, <2>1 DEF AckPasses, Replaced
  <2>5. pc[p] \in Steps /\ (pc[p] \notin {"idle", "drain"} => batch[p] # <<>>)
    BY <1>0 DEF BatchShape
  <2>6. QED BY <1>0, <2>1, <2>2, <2>3, <2>4, <2>5, QuietIInv
<1>7. ASSUME NEW p \in Proc, Crash(p) PROVE IInv'
  <2>1. /\ DropReaders(p, Queue) /\ closed' = closed \ {p} /\ faults' \in Nat /\ Return(p)
        /\ UNCHANGED <<log, committed, pos, handled, redrives, stranded>>
    BY <1>0, <1>7, KafkaBounds DEF Crash, Restart, Fault, BrokerTypeOK
  <2>2. /\ open' \in [Queue -> SUBSET Proc] /\ owner' \in [Queue -> Proc \cup {NoProc}]
        /\ \A q \in Queue : owner'[q] = owner[q] \/ owner'[q] = NoProc
        /\ \A q \in Queue : owner'[q] # p
    BY <1>0, <2>1, DropFacts
  <2>3. BrokerTypeOK'
    BY <1>0, <2>1, <2>2 DEF BrokerTypeOK
  <2>4. QED BY <1>0, <2>1, <2>2, <2>3, ReturnIInv
<1>8. CASE UNCHANGED vars
  <2>1. \A x : (Passable(x)' <=> Passable(x)) /\ (Replaced(x)' <=> Replaced(x))
    BY <1>8 DEF vars, Passable, Replaced
  <2>2. TypeOK' /\ BatchShape' /\ Bounds'
    BY <1>8 DEF IInv, vars, TypeOK, BrokerTypeOK, BatchShape, Bounds
  <2>3. CommitPasses' /\ ReaderPasses' /\ HeldPasses' /\ AckPasses'
    BY <1>8, <2>1 DEF IInv, vars, CommitPasses, ReaderPasses, HeldPasses, AckPasses, PassableUpTo
  <2>4. QED BY <2>2, <2>3 DEF IInv
<1>9. QED BY <1>1, <1>2, <1>3, <1>4, <1>5, <1>6, <1>7, <1>8, WorkIInv, RebalanceIInv DEF Next

(* Every step keeps the types, and what a process holds is in the log.      *)
THEOREM TypeCorrect == Spec => []TypeOK
<1>1. IInv => TypeOK
  BY DEF IInv
<1>2. QED BY <1>1, InitIInv, NextIInv, PTL DEF Spec

(* Of the records of a message one is the last.                             *)
LastRecord ==
  \A o \in DOMAIN log : \E last \in DOMAIN log :
    /\ log[last].msg = log[o].msg
    /\ \A x \in DOMAIN log : log[x].msg = log[o].msg => x <= last

LEMMA GrowsNext == IInv /\ Next => Grows
<1> SUFFICES ASSUME IInv, Next PROVE Grows
  OBVIOUS
<1>0. TypeOK /\ BatchShape
  BY DEF IInv
<1>1. ASSUME NEW m \in Msg, NEW kind \in Kinds, Publish(m, kind) PROVE Grows
  <2>1. [queue |-> "work", msg |-> m, kind |-> kind, attempts |-> 0] \in Record
    BY DEF Record, Queue
  <2>2. QED BY <1>1, <2>1 DEF Publish, Grows
<1>2. ASSUME NEW p \in Proc, NEW q \in Queue, OpenReader(p, q) \/ Rebalance(q, p) PROVE Grows
  BY <1>2 DEF OpenReader, Reader, Rebalance, Assign, Grows
<1>3. ASSUME NEW p \in Proc, Work(p) PROVE Grows
  <2>1. CASE Retry(p) \/ DeadLetter(p) \/ PublishRedriven(p) \/ RestoreToDLQ(p)
    <3>1. Held(p) \in Record
      BY <1>0, <2>1, HeldFacts DEF Retry, DeadLetter, PublishRedriven, RestoreToDLQ, BatchShape
    <3>2. PICK r, reply : r \in Record /\ Write(p, r, reply)
      BY <2>1, <3>1, CopyTypes DEF Retry, DeadLetter, PublishRedriven, RestoreToDLQ
    <3>3. QED BY <1>0, <3>2, WriteFacts
  <2>2. CASE Consume(p) \/ Handle(p) \/ RewindBatch(p) \/ DrainEnds(p)
    BY <2>2 DEF Consume, Pop, Handle, RewindBatch, Rewind, DrainEnds, broker, Grows
  <2>3. CASE Ack(p) \/ AbortAck(p)
    BY <2>3 DEF Ack, AbortAck, Commit, Grows
  <2>4. QED BY <1>3, <2>1, <2>2, <2>3 DEF Work
<1>4. ASSUME NEW p \in Proc,
             StartRedrive(p) \/ Drain(p) \/ DrainFails(p) \/ CloseTransport(p) \/ Crash(p)
      PROVE  Grows
  BY <1>4 DEF StartRedrive, Drain, Pop, DrainFails, CloseTransport, Close, Crash, Restart, broker, Grows
<1>5. QED BY <1>1, <1>2, <1>3, <1>4 DEF Next

LEMMA NextLast == IInv /\ LastRecord /\ [Next]_vars => LastRecord'
<1> SUFFICES ASSUME IInv, LastRecord, [Next]_vars PROVE LastRecord'
  OBVIOUS
<1>1. CASE log' = log
  BY <1>1 DEF LastRecord
<1>2. CASE log' # log
  <2>1. Grows /\ log \in Seq(Record)
    BY <1>2, GrowsNext DEF vars, IInv, TypeOK, BrokerTypeOK
  <2>2. PICK r \in Record : log' = Append(log, r)
    BY <1>2, <2>1 DEF Grows
  <2> DEFINE n == Len(log) + 1
  <2>3. /\ n \in DOMAIN log' /\ log'[n] = r
        /\ \A x \in DOMAIN log : x \in DOMAIN log' /\ log'[x] = log[x] /\ x < n /\ x \in Nat
        /\ \A x \in DOMAIN log' : x \in DOMAIN log \/ x = n
        /\ n \in Nat
    BY <2>1, <2>2
  <2> HIDE DEF n
  <2> SUFFICES ASSUME NEW o \in DOMAIN log'
               PROVE  \E last \in DOMAIN log' :
                        /\ log'[last].msg = log'[o].msg
                        /\ \A x \in DOMAIN log' : log'[x].msg = log'[o].msg => x <= last
    BY DEF LastRecord
  <2>4. CASE log'[o].msg = r.msg
    BY <2>3, <2>4
  <2>5. CASE log'[o].msg # r.msg
    <3>1. o \in DOMAIN log /\ log'[o] = log[o]
      BY <2>3, <2>5
    <3>2. PICK last \in DOMAIN log :
            /\ log[last].msg = log[o].msg
            /\ \A x \in DOMAIN log : log[x].msg = log[o].msg => x <= last
      BY <3>1 DEF LastRecord
    <3>3. QED BY <2>3, <2>5, <3>1, <3>2
  <2>6. QED BY <2>4, <2>5
<1>3. QED BY <1>1, <1>2

(* Commit is cumulative, and still no message is lost: for every number of  *)
(* processes, messages, failed calls, lost replies, stale commits,          *)
(* rebalances, crashes, closed transports and Redrive runs, a published     *)
(* message was handled, or has a record no commit has passed, or a failed   *)
(* drain stranded it.                                                       *)
THEOREM NothingLost == Spec => []NoLoss
<1>1. Init => LastRecord
  BY DEF Init, BrokerInit, LastRecord
<1>2. IInv /\ LastRecord => NoLoss
  <2> SUFFICES ASSUME IInv, LastRecord, NEW o \in DOMAIN log
               PROVE  Safe(log[o].msg) \/ \E x \in stranded : log[x].msg = log[o].msg
    BY DEF NoLoss
  <2>1. PICK last \in DOMAIN log :
          /\ log[last].msg = log[o].msg
          /\ \A x \in DOMAIN log : log[x].msg = log[o].msg => x <= last
    BY DEF LastRecord
  <2>2. CASE Pending(last)
    BY <2>1, <2>2 DEF Safe
  <2>3. CASE ~Pending(last)
    <3>0. log \in Seq(Record) /\ committed \in [Queue -> Nat]
      BY DEF IInv, TypeOK, BrokerTypeOK
    <3>a. last \in Nat /\ log[last] \in Record
      BY <3>0
    <3>b. log[last].queue \in Queue
      BY <3>a DEF Record
    <3>1. log[last].queue \in Queue /\ last < committed[log[last].queue] /\ last \in Nat
      BY <2>3, <3>0, <3>a, <3>b DEF Pending
    <3>2. Passable(last)
      BY <3>1 DEF IInv, CommitPasses, PassableUpTo
    <3>3. \A y \in DOMAIN log : ~(last < y /\ log[y].msg = log[last].msg)
      BY <2>1, <3>1 DEF IInv, TypeOK, BrokerTypeOK
    <3>4. QED BY <2>1, <3>2, <3>3 DEF Passable, Replaced, Safe
  <2>4. QED BY <2>2, <2>3
<1>3. QED BY <1>1, <1>2, InitIInv, NextIInv, NextLast, PTL DEF Spec

-----------------------------------------------------------------------------
(* One place per message, as long as nothing fails.                         *)

Calm ==
  /\ closed = {}
  /\ \A p \in Proc : pc[p] \notin {"rewind", "abort", "abortAck"}
  /\ \A q \in Queue : committed[q] <= pos[q]
  /\ OwnerHolds
  /\ OneRecord

(* A fault is counted, and never forgotten.                                 *)
LEMMA NoFaultYet ==
  ASSUME TypeOK, faults' = 0
  PROVE  ~Fault /\ (NoFault => faults = 0)
BY DEF TypeOK, BrokerTypeOK, Fault, NoFault

(* A process moves on, and nothing else does.                               *)
LEMMA QuietCalm ==
  ASSUME Calm, UNCHANGED <<log, committed, pos, owner, closed, batch>>,
         \A p \in Proc : pc'[p] \notin {"rewind", "abort", "abortAck"},
         \A p \in Proc : pc[p] = "ack" => pc'[p] = "ack"
  PROVE  Calm'
<1>1. OwnerHolds'
  BY DEF Calm, OwnerHolds
<1>2. OneRecord'
  BY DEF Calm, OneRecord, Pending
<1>3. QED BY <1>1, <1>2 DEF Calm

(* A record is appended: a new message, or a copy of one that is about to   *)
(* be acknowledged.                                                         *)
LEMMA AppendCalm ==
  ASSUME IInv, Calm, NEW r \in Record, log' = Append(log, r),
         UNCHANGED <<committed, pos, owner, closed, batch>>,
         \A p \in Proc : pc'[p] \notin {"rewind", "abort", "abortAck"},
         \A p \in Proc : pc[p] = "ack" => pc'[p] = "ack",
         \A x \in DOMAIN log : log[x].msg = r.msg /\ Pending(x) =>
           \E p \in Proc : pc'[p] = "ack" /\ Head(batch[p]) = x
  PROVE  Calm'
<1>0. log \in Seq(Record) /\ \A p \in Proc : Range(batch[p]) \subseteq DOMAIN log
  BY DEF IInv, TypeOK, BrokerTypeOK
<1> DEFINE n == Len(log) + 1
<1>1. /\ \A x \in DOMAIN log : log'[x] = log[x] /\ x < n /\ x \in Nat
      /\ \A x \in DOMAIN log' : x \in DOMAIN log \/ x = n
      /\ log'[n] = r /\ n \in Nat
  BY <1>0
<1> HIDE DEF n
<1>2. OwnerHolds'
  <2>1. \A p \in Proc : \A h \in Range(batch[p]) : log'[h] = log[h]
    BY <1>0, <1>1
  <2>2. OwnerHolds
    BY DEF Calm
  <2>3. ASSUME NEW p \in Proc, NEW h \in Range(batch[p])
        PROVE  LET q == log'[h].queue IN owner[q] = p /\ committed[q] <= h /\ h < pos[q]
    <3>1. LET q == log[h].queue IN owner[q] = p /\ committed[q] <= h /\ h < pos[q]
      BY <2>2 DEF OwnerHolds
    <3>2. log'[h] = log[h]
      BY <2>1
    <3>3. QED BY <3>1, <3>2
  <2>4. QED BY <2>2, <2>3 DEF OwnerHolds
<1>3. OneRecord'
  <2> SUFFICES ASSUME NEW x \in DOMAIN log', NEW y \in DOMAIN log',
                      log'[x].msg = log'[y].msg, Pending(x)', x < y
               PROVE  \E p \in Proc : pc'[p] = "ack" /\ Head(batch[p]) = x
    BY DEF OneRecord
  <2>1. x \in DOMAIN log /\ log'[x] = log[x]
    BY <1>1
  <2>2. Pending(x)
    BY <2>1 DEF Pending
  <2>3. CASE y \in DOMAIN log
    BY <1>1, <2>1, <2>2, <2>3 DEF Calm, OneRecord
  <2>4. CASE y = n
    BY <1>1, <2>1, <2>2, <2>4
  <2>5. QED BY <1>1, <2>3, <2>4
<1>4. QED BY <1>2, <1>3 DEF Calm

(* The copies: the only other pending record of the message is the one the  *)
(* process holds.                                                           *)
LEMMA CopyCalm ==
  ASSUME IInv, Calm, NEW p \in Proc, NEW r \in Record, NEW reply, NEW step,
         pc[p] \notin {"idle", "drain", "ack"}, Write(p, r, reply), Goto(p, step), r.msg = Held(p).msg,
         reply \in {"ok", "failed"}, reply = "ok" => step = "ack",
         UNCHANGED <<batch, handled, redrives, stranded>>, faults' = 0
  PROVE  Calm'
<1>0. /\ TypeOK /\ BatchShape /\ closed = {} /\ pc \in [Proc -> Steps] /\ batch[p] # <<>>
      /\ OwnerHolds /\ OneRecord
  BY DEF IInv, Calm, TypeOK, BatchShape
<1>1. reply = "ok" /\ log' = Append(log, r) /\ UNCHANGED <<committed, open, owner, pos, closed>>
  BY <1>0, NoFaultYet DEF Write
<1>2. step = "ack" /\ pc'[p] = "ack" /\ \A k \in Proc \ {p} : pc'[k] = pc[k]
  BY <1>0, <1>1 DEF Goto
<1> DEFINE h == Head(batch[p])
<1>3. h \in DOMAIN log /\ h \in Range(batch[p]) /\ r.msg = log[h].msg /\ h \in Nat
  BY <1>0, HeldFacts DEF Held
<1>4. owner[log[h].queue] = p /\ Pending(h)
  <2>1. owner[log[h].queue] = p /\ committed[log[h].queue] <= h
    BY <1>0, <1>3 DEF OwnerHolds
  <2>2. log[h] \in Record /\ committed \in [Queue -> Nat]
    BY <1>0, <1>3 DEF TypeOK, BrokerTypeOK
  <2>3. log[h].queue \in Queue
    BY <2>2 DEF Record
  <2>4. QED BY <1>3, <2>1, <2>2, <2>3 DEF Pending
<1>5. ASSUME NEW k \in Proc, pc[k] = "ack" PROVE Head(batch[k]) # h
  <2>1. k # p /\ batch[k] # <<>>
    BY <1>0, <1>5 DEF BatchShape
  <2>2. Head(batch[k]) \in Range(batch[k])
    BY <1>0, <2>1, HeldFacts
  <2>3. QED BY <1>0, <1>4, <2>1, <2>2 DEF OwnerHolds
<1> HIDE DEF h
<1>6. ASSUME NEW x \in DOMAIN log, log[x].msg = r.msg, Pending(x)
      PROVE  \E k \in Proc : pc'[k] = "ack" /\ Head(batch[k]) = x
  <2>0. x \in Nat
    BY <1>0 DEF TypeOK, BrokerTypeOK
  <2>1. CASE x = h
    BY <1>2, <2>1 DEF h
  <2>2. CASE x < h
    <3>1. PICK k \in Proc : pc[k] = "ack" /\ Head(batch[k]) = x
      BY <1>0, <1>3, <1>6, <2>2 DEF OneRecord
    <3>2. QED BY <1>2, <3>1
  <2>3. CASE h < x
    <3>1. \E k \in Proc : pc[k] = "ack" /\ Head(batch[k]) = h
      BY <1>0, <1>3, <1>4, <1>6, <2>3 DEF OneRecord
    <3>2. QED BY <1>5, <3>1
  <2>4. QED BY <1>3, <2>0, <2>1, <2>2, <2>3
<1>7. /\ \A k \in Proc : pc'[k] \notin {"rewind", "abort", "abortAck"}
      /\ \A k \in Proc : pc[k] = "ack" => pc'[k] = "ack"
  BY <1>2 DEF Calm
<1>8. QED BY <1>1, <1>6, <1>7, AppendCalm

LEMMA PopCalm ==
  ASSUME IInv, TypeOK', Calm, NEW p \in Proc, NEW q \in Queue, NEW o \in DOMAIN log, Pop(p, q, o),
         batch' = [batch EXCEPT ![p] = Append(@, o)], Range(batch'[p]) = Range(batch[p]) \cup {o},
         \A k \in Proc : pc'[k] \notin {"rewind", "abort", "abortAck"},
         \A k \in Proc : pc[k] = "ack" => pc'[k] = "ack" /\ k # p,
         \A h \in Range(batch[p]) : log[h].queue = q
  PROVE  Calm'
<1>0. /\ TypeOK /\ OwnerHolds /\ OneRecord /\ pos \in [Queue -> Nat] /\ committed \in [Queue -> Nat]
      /\ batch \in [Proc -> Seq(Nat)] /\ log \in Seq(Record) /\ o \in Nat
      /\ \A r \in Queue : committed[r] <= pos[r]
      /\ \A k \in Proc : Range(batch[k]) \subseteq DOMAIN log
  BY DEF IInv, Calm, TypeOK, BrokerTypeOK
<1>1. /\ owner[q] = p /\ o >= pos[q] /\ log[o].queue = q
      /\ pos' = [pos EXCEPT ![q] = o + 1]
      /\ UNCHANGED <<log, committed, open, owner, closed>>
  BY DEF Pop
<1>2. \A r \in Queue : pos'[r] \in Nat /\ pos[r] <= pos'[r] /\ committed[r] <= pos'[r] /\ pos'[q] = o + 1
  BY <1>0, <1>1
<1>a. ASSUME NEW x \in DOMAIN log PROVE x \in Nat /\ log[x].queue \in Queue
  <2>1. x \in Nat /\ log[x] \in Record
    BY <1>0
  <2>2. QED BY <2>1 DEF Record
<1>3. OwnerHolds'
  <2> SUFFICES ASSUME NEW k \in Proc
               PROVE  /\ \A h \in Range(batch'[k]) :
                           /\ owner[log[h].queue] = k /\ committed[log[h].queue] <= h
                           /\ h < pos'[log[h].queue]
                      /\ \A i, j \in DOMAIN batch'[k] : i < j => batch'[k][i] < batch'[k][j]
    BY <1>1 DEF OwnerHolds
  <2>0. \A h \in Range(batch[k]) :
          /\ owner[log[h].queue] = k /\ committed[log[h].queue] <= h /\ h < pos[log[h].queue]
          /\ h < pos'[log[h].queue]
    <3> SUFFICES ASSUME NEW h \in Range(batch[k])
                 PROVE  /\ owner[log[h].queue] = k /\ committed[log[h].queue] <= h
                        /\ h < pos[log[h].queue] /\ h < pos'[log[h].queue]
      OBVIOUS
    <3>1. h \in DOMAIN log /\ h \in Nat /\ log[h].queue \in Queue
      BY <1>0, <1>a
    <3>2. owner[log[h].queue] = k /\ committed[log[h].queue] <= h /\ h < pos[log[h].queue]
      BY <1>0 DEF OwnerHolds
    <3>3. QED BY <1>0, <1>2, <3>1, <3>2
  <2>1. CASE k # p
    <3>1. batch'[k] = batch[k]
      BY <1>0, <2>1
    <3>2. QED BY <1>0, <2>0, <3>1 DEF OwnerHolds
  <2>2. CASE k = p
    <3>1. \A h \in Range(batch'[k]) :
            /\ owner[log[h].queue] = k /\ committed[log[h].queue] <= h /\ h < pos'[log[h].queue]
      BY <1>0, <1>1, <1>2, <2>0, <2>2
    <3> DEFINE n == Len(batch[p])
    <3>2. /\ n \in Nat /\ DOMAIN batch[p] = 1..n /\ DOMAIN batch'[p] = 1..n + 1
          /\ \A j \in 1..n : batch'[p][j] = batch[p][j]
          /\ batch'[p][n + 1] = o
      BY <1>0
    <3> HIDE DEF n
    <3>3. \A j \in 1..n : batch[p][j] \in Nat /\ batch[p][j] < o
      <4> SUFFICES ASSUME NEW j \in 1..n PROVE batch[p][j] \in Nat /\ batch[p][j] < o
        OBVIOUS
      <4> DEFINE h == batch[p][j]
      <4>1. h \in Range(batch[p])
        BY <3>2 DEF Range
      <4>2. h \in DOMAIN log /\ h \in Nat /\ log[h].queue \in Queue
        BY <1>0, <1>a, <4>1
      <4>3. log[h].queue = q
        BY <4>1
      <4>4. h < pos[q]
        BY <2>0, <2>2, <4>1, <4>3
      <4>5. QED BY <1>0, <1>1, <4>2, <4>4
    <3>4. \A i, j \in DOMAIN batch'[p] : i < j => batch'[p][i] < batch'[p][j]
      <4> SUFFICES ASSUME NEW i \in 1..n + 1, NEW j \in 1..n + 1, i < j
                   PROVE  batch'[p][i] < batch'[p][j]
        BY <3>2
      <4>1. CASE j \in 1..n
        <5>1. i \in 1..n /\ batch'[p][i] = batch[p][i] /\ batch'[p][j] = batch[p][j]
          BY <3>2, <4>1
        <5>2. batch[p][i] < batch[p][j]
          BY <1>0, <3>2, <4>1, <5>1 DEF OwnerHolds
        <5>3. QED BY <5>1, <5>2
      <4>2. CASE j = n + 1
        BY <3>2, <3>3, <4>2
      <4>3. QED BY <3>2, <4>1, <4>2
    <3>5. QED BY <2>2, <3>1, <3>4
  <2>3. QED BY <2>1, <2>2
<1>4. OneRecord'
  <2> SUFFICES ASSUME NEW x \in DOMAIN log, NEW y \in DOMAIN log,
                      log[x].msg = log[y].msg, Pending(x)', x < y
               PROVE  \E k \in Proc : pc'[k] = "ack" /\ Head(batch'[k]) = x
    BY <1>1 DEF OneRecord
  <2>1. Pending(x)
    BY <1>1 DEF Pending
  <2>2. PICK k \in Proc : pc[k] = "ack" /\ Head(batch[k]) = x
    BY <1>0, <2>1 DEF OneRecord
  <2>3. pc'[k] = "ack" /\ batch'[k] = batch[k]
    BY <1>0, <2>2
  <2>4. QED BY <2>2, <2>3
<1>5. QED BY <1>1, <1>2, <1>3, <1>4 DEF Calm

(* Without a fault the commit of an acknowledgement is the owner's own.     *)
LEMMA AckCalm == ASSUME IInv, Calm, NEW p \in Proc, Ack(p), faults' = 0 PROVE Calm'
<1> DEFINE h == Head(batch[p])
           n == Len(batch[p])
           q == log[h].queue
<1>0. /\ TypeOK /\ BatchShape /\ OwnerHolds /\ OneRecord /\ closed = {}
      /\ pc[p] = "ack" /\ batch' = [batch EXCEPT ![p] = Tail(@)]
      /\ Goto(p, IF n = 1 THEN "idle" ELSE "item") /\ Commit(p, h)
      /\ batch \in [Proc -> Seq(Nat)] /\ pc \in [Proc -> Steps] /\ batch[p] # <<>>
      /\ pos \in [Queue -> Nat] /\ committed \in [Queue -> Nat] /\ log \in Seq(Record)
      /\ \A k \in Proc : Range(batch[k]) \subseteq DOMAIN log
  BY DEF Ack, IInv, Calm, TypeOK, BrokerTypeOK, BatchShape
<1>1. /\ h \in DOMAIN log /\ h = batch[p][1] /\ n \in Nat /\ n > 0 /\ h \in Range(batch[p])
      /\ DOMAIN batch[p] = 1..n /\ h \in Nat /\ q \in Queue
  BY <1>0, HeldFacts DEF Held
<1>2. owner[q] = p /\ committed[q] <= h /\ h < pos[q]
  BY <1>0, <1>1 DEF OwnerHolds
<1>3. committed' = [committed EXCEPT ![q] = h + 1] /\ UNCHANGED <<log, open, owner, pos, closed>>
  BY <1>0, <1>2, NoFaultYet DEF Commit
<1>4. /\ DOMAIN Tail(batch[p]) = 1..n - 1
      /\ \A i \in 1..n - 1 : i + 1 \in DOMAIN batch[p] /\ Tail(batch[p])[i] = batch[p][i + 1]
  BY <1>0, TailFacts
<1>5. /\ batch'[p] = Tail(batch[p]) /\ pc'[p] \in {"idle", "item"}
      /\ \A k \in Proc \ {p} : batch'[k] = batch[k] /\ pc'[k] = pc[k]
  BY <1>0 DEF Goto
<1> HIDE DEF h, n, q
<1>6. /\ committed'[q] = h + 1 /\ h + 1 <= pos[q] /\ committed[q] <= h + 1
      /\ \A r \in Queue : r # q => committed'[r] = committed[r]
  BY <1>0, <1>1, <1>2, <1>3
<1>7. \A r \in Queue : committed'[r] <= pos[r]
  BY <1>6 DEF Calm
<1>8. OwnerHolds'
  <2> SUFFICES ASSUME NEW k \in Proc
               PROVE  /\ \A g \in Range(batch'[k]) :
                           /\ owner[log[g].queue] = k /\ committed'[log[g].queue] <= g
                           /\ g < pos[log[g].queue]
                      /\ \A i, j \in DOMAIN batch'[k] : i < j => batch'[k][i] < batch'[k][j]
    BY <1>3 DEF OwnerHolds
  <2>1. CASE k # p
    <3>1. batch'[k] = batch[k]
      BY <1>5, <2>1
    <3>2. ASSUME NEW g \in Range(batch[k])
          PROVE  /\ owner[log[g].queue] = k /\ committed'[log[g].queue] <= g
                 /\ g < pos[log[g].queue]
      <4>1. owner[log[g].queue] = k /\ committed[log[g].queue] <= g /\ g < pos[log[g].queue]
        BY <1>0 DEF OwnerHolds
      <4>2. log[g].queue # q
        BY <1>2, <2>1, <4>1
      <4>3. log[g] \in Record
        BY <1>0
      <4>4. log[g].queue \in Queue
        BY <4>3 DEF Record
      <4>5. QED BY <1>6, <4>1, <4>2, <4>4
    <3>3. QED BY <1>0, <3>1, <3>2 DEF OwnerHolds
  <2>2. CASE k = p
    <3>1. ASSUME NEW g \in Range(batch'[p])
          PROVE  /\ owner[log[g].queue] = p /\ committed'[log[g].queue] <= g
                 /\ g < pos[log[g].queue]
      <4>1. PICK i \in 1..n - 1 : g = batch'[p][i]
        BY <1>4, <1>5 DEF Range
      <4>2. i + 1 \in DOMAIN batch[p] /\ g = batch[p][i + 1]
        BY <1>4, <1>5, <4>1
      <4>3. g \in Range(batch[p])
        BY <4>2 DEF Range
      <4>4. owner[log[g].queue] = p /\ g < pos[log[g].queue] /\ log[g].queue = q
        BY <1>0, <1>1, <4>3 DEF OwnerHolds, BatchShape, q
      <4>5. h < g
        <5>1. 1 \in DOMAIN batch[p] /\ 1 < i + 1
          BY <1>1
        <5>2. batch[p][1] < batch[p][i + 1]
          BY <1>0, <4>2, <5>1 DEF OwnerHolds
        <5>3. QED BY <1>1, <4>2, <5>2
      <4>6. g \in Nat
        BY <1>0, <4>3
      <4>7. QED BY <1>1, <1>6, <4>4, <4>5, <4>6
    <3>2. ASSUME NEW i \in DOMAIN batch'[p], NEW j \in DOMAIN batch'[p], i < j
          PROVE  batch'[p][i] < batch'[p][j]
      <4>0. i \in 1..n - 1 /\ j \in 1..n - 1
        BY <1>4, <1>5
      <4>1. /\ i + 1 \in DOMAIN batch[p] /\ batch'[p][i] = batch[p][i + 1] /\ i \in Nat
            /\ j + 1 \in DOMAIN batch[p] /\ batch'[p][j] = batch[p][j + 1] /\ j \in Nat
        BY <1>1, <1>4, <1>5, <4>0
      <4>2. i + 1 < j + 1
        BY <3>2, <4>1
      <4>3. QED BY <1>0, <4>1, <4>2 DEF OwnerHolds
    <3>3. QED BY <2>2, <3>1, <3>2
  <2>3. QED BY <2>1, <2>2
<1>9. OneRecord'
  <2> SUFFICES ASSUME NEW x \in DOMAIN log, NEW y \in DOMAIN log,
                      log[x].msg = log[y].msg, Pending(x)', x < y
               PROVE  \E k \in Proc : pc'[k] = "ack" /\ Head(batch'[k]) = x
    BY <1>3 DEF OneRecord
  <2>0. log[x] \in Record /\ x \in Nat
    BY <1>0
  <2>a. log[x].queue \in Queue
    BY <2>0 DEF Record
  <2>b. x >= committed'[log[x].queue]
    BY <1>3 DEF Pending
  <2>1. Pending(x)
    <3>1. CASE log[x].queue = q
      <4>1. x >= h + 1 /\ committed[q] \in Nat
        BY <1>0, <1>1, <1>6, <2>b, <3>1
      <4>2. x >= committed[q]
        BY <1>1, <1>6, <2>0, <4>1
      <4>3. QED BY <3>1, <4>2 DEF Pending
    <3>2. CASE log[x].queue # q
      BY <1>6, <2>a, <2>b, <3>2 DEF Pending
    <3>3. QED BY <3>1, <3>2
  <2>2. x # h
    BY <1>1, <1>6, <2>b DEF q
  <2>3. PICK k \in Proc : pc[k] = "ack" /\ Head(batch[k]) = x
    BY <1>0, <2>1 DEF OneRecord
  <2>4. k # p
    BY <2>2, <2>3 DEF h
  <2>5. QED BY <1>5, <2>3, <2>4
<1>10. QED BY <1>3, <1>5, <1>7, <1>8, <1>9 DEF Calm

(* Without a fault only a topic nobody owns is assigned.                    *)
LEMMA RebalanceCalm ==
  ASSUME IInv, Calm, NEW q \in Queue, NEW p \in Proc, Rebalance(q, p), faults' = 0
  PROVE  Calm'
<1>0. /\ TypeOK /\ OwnerHolds /\ OneRecord /\ owner[q] = NoProc
      /\ owner' = [owner EXCEPT ![q] = p] /\ pos' = [pos EXCEPT ![q] = committed[q]]
      /\ UNCHANGED <<log, committed, closed, pc, batch>>
      /\ pos \in [Queue -> Nat] /\ committed \in [Queue -> Nat] /\ owner \in [Queue -> Proc \cup {NoProc}]
  BY NoFaultYet DEF IInv, Calm, Rebalance, Assign, TypeOK, BrokerTypeOK
<1>1. \A r \in Queue : committed[r] <= pos'[r]
  BY <1>0 DEF Calm
<1>2. OwnerHolds'
  <2>1. \A k \in Proc : \A h \in Range(batch[k]) : log[h].queue # q
    BY <1>0, NoProcAssumption DEF OwnerHolds
  <2>2. \A k \in Proc : \A h \in Range(batch[k]) :
          owner'[log[h].queue] = owner[log[h].queue] /\ pos'[log[h].queue] = pos[log[h].queue]
    <3> SUFFICES ASSUME NEW k \in Proc, NEW h \in Range(batch[k])
                 PROVE  owner'[log[h].queue] = owner[log[h].queue] /\ pos'[log[h].queue] = pos[log[h].queue]
      OBVIOUS
    <3>1. log[h] \in Record
      BY <1>0 DEF TypeOK, BrokerTypeOK
    <3>2. log[h].queue \in Queue
      BY <3>1 DEF Record
    <3>3. QED BY <1>0, <2>1, <3>2
  <2>3. QED BY <1>0, <2>2 DEF OwnerHolds
<1>3. OneRecord'
  BY <1>0 DEF OneRecord, Pending
<1>4. QED BY <1>0, <1>1, <1>2, <1>3 DEF Calm

LEMMA InitCalm == Init => Calm
<1> SUFFICES ASSUME Init PROVE Calm
  OBVIOUS
<1>0. \A p \in Proc : batch[p] = <<>>
  BY DEF Init
<1>1. ASSUME NEW p \in Proc PROVE Range(batch[p]) = {} /\ DOMAIN batch[p] = {}
  <2>1. DOMAIN batch[p] = {}
    BY <1>0
  <2>2. QED BY <2>1 DEF Range
<1>2. OwnerHolds /\ OneRecord
  BY <1>1 DEF Init, BrokerInit, OwnerHolds, OneRecord
<1>3. QED BY <1>2 DEF Init, BrokerInit, Calm

LEMMA NextCalm == ASSUME IInv, Calm, Next, faults' = 0 PROVE Calm'
<1>0. /\ TypeOK /\ BatchShape /\ closed = {} /\ pc \in [Proc -> Steps] /\ batch \in [Proc -> Seq(Nat)]
      /\ \A k \in Proc : pc[k] \notin {"rewind", "abort", "abortAck"}
      /\ \A k \in Proc : pc[k] = "idle" => batch[k] = <<>>
  BY DEF IInv, Calm, TypeOK, BatchShape
<1>a. TypeOK'
  BY NextIInv DEF IInv
<1>b. ASSUME NEW p \in Proc, NEW step, Goto(p, step), step \notin {"rewind", "abort", "abortAck"},
             pc[p] # "ack"
      PROVE  /\ \A k \in Proc : pc'[k] \notin {"rewind", "abort", "abortAck"}
             /\ \A k \in Proc : pc[k] = "ack" => pc'[k] = "ack" /\ k # p
  BY <1>0, <1>b DEF Goto
<1>c. ASSUME NEW p \in Proc, pc[p] \notin {"idle", "drain"} PROVE Held(p) \in Record
  BY <1>0, <1>c, HeldFacts DEF BatchShape
<1>1. ASSUME NEW m \in Msg, NEW kind \in Kinds, Publish(m, kind) PROVE Calm'
  <2> DEFINE r == [queue |-> "work", msg |-> m, kind |-> kind, attempts |-> 0]
  <2>1. /\ r \in Record /\ log' = Append(log, r) /\ r.msg = m
        /\ \A o \in DOMAIN log : log[o].msg # m
        /\ UNCHANGED <<committed, pos, owner, closed, pc, batch>>
    BY <1>1 DEF Publish, Record, Queue
  <2> HIDE DEF r
  <2>2. QED BY <1>0, <2>1, AppendCalm
<1>2. ASSUME NEW p \in Proc, NEW q \in Queue, OpenReader(p, q) PROVE Calm'
  <2>1. UNCHANGED <<log, committed, pos, owner, closed, pc, batch>>
    BY <1>2 DEF OpenReader, Reader
  <2>2. QED BY <1>0, <2>1, QuietCalm
<1>3. ASSUME NEW p \in Proc, Consume(p) PROVE Calm'
  <2>1. PICK o \in DOMAIN log :
          /\ Pop(p, "work", o) /\ batch' = [batch EXCEPT ![p] = <<o>>]
          /\ Goto(p, IF log[o].kind = "job" THEN "handle" ELSE "dlq")
    BY <1>3 DEF Consume
  <2>2. batch[p] = <<>> /\ pc[p] = "idle" /\ "work" \in Queue /\ Range(batch[p]) = {} /\ o \in Nat
    BY <1>0, <1>3 DEF Consume, Queue, Range, TypeOK, BrokerTypeOK
  <2>3. <<o>> = Append(batch[p], o)
    BY <2>2
  <2>4. batch' = [batch EXCEPT ![p] = Append(@, o)] /\ batch'[p] = <<o>>
    BY <1>0, <2>1, <2>3
  <2>5. Range(batch'[p]) = Range(batch[p]) \cup {o}
    BY <2>2, <2>4 DEF Range
  <2>6. /\ \A k \in Proc : pc'[k] \notin {"rewind", "abort", "abortAck"}
        /\ \A k \in Proc : pc[k] = "ack" => pc'[k] = "ack" /\ k # p
    BY <1>b, <2>1, <2>2
  <2>7. QED BY <1>a, <2>1, <2>2, <2>4, <2>5, <2>6, PopCalm
<1>4. ASSUME NEW p \in Proc, Drain(p) PROVE Calm'
  <2>1. PICK o \in DOMAIN log : Pop(p, "dlq", o) /\ batch' = [batch EXCEPT ![p] = Append(@, o)]
    BY <1>4 DEF Drain
  <2>2. pc[p] = "drain" /\ "dlq" \in Queue /\ UNCHANGED <<pc, handled, redrives, stranded>>
    BY <1>4 DEF Drain, Queue
  <2>3. pc' = [pc EXCEPT ![p] = "drain"] /\ "drain" \in Steps
    BY <1>0, <2>2 DEF Steps
  <2>a. log' = log /\ BrokerTypeOK'
    BY <1>a, <2>1 DEF Pop, TypeOK
  <2>4. Range(batch'[p]) = Range(batch[p]) \cup {o}
    BY <1>0, <2>1, <2>2, <2>3, <2>a, PopTypes
  <2>5. \A h \in Range(batch[p]) : log[h].queue = "dlq"
    BY <1>0, <2>2 DEF BatchShape
  <2>6. QED BY <1>0, <1>a, <2>1, <2>2, <2>4, <2>5, PopCalm
<1>5. ASSUME NEW p \in Proc, Handle(p) \/ DrainEnds(p) \/ StartRedrive(p) PROVE Calm'
  <2>1. UNCHANGED <<log, committed, pos, owner, closed, batch>> /\ pc[p] # "ack"
    BY <1>5 DEF Handle, DrainEnds, StartRedrive, broker
  <2>2. \E step : Goto(p, step) /\ step \notin {"rewind", "abort", "abortAck"}
    BY <1>5 DEF Handle, DrainEnds, StartRedrive
  <2>3. /\ \A k \in Proc : pc'[k] \notin {"rewind", "abort", "abortAck"}
        /\ \A k \in Proc : pc[k] = "ack" => pc'[k] = "ack"
    BY <1>b, <2>1, <2>2
  <2>4. QED BY <2>1, <2>3, QuietCalm
<1>6. ASSUME NEW p \in Proc, Retry(p) \/ DeadLetter(p) \/ PublishRedriven(p) \/ RestoreToDLQ(p)
      PROVE  Calm'
  <2>1. pc[p] \in {"retry", "dlq", "item"} /\ UNCHANGED <<batch, handled, redrives, stranded>>
    BY <1>0, <1>6 DEF Retry, DeadLetter, PublishRedriven, RestoreToDLQ
  <2>2. Held(p) \in Record
    BY <1>c, <2>1
  <2>3. \E r \in Record, reply \in {"ok", "failed"}, step \in Steps :
          /\ Write(p, r, reply) /\ Goto(p, step) /\ r.msg = Held(p).msg /\ (reply = "ok" => step = "ack")
    <3>1. CASE Retry(p)
      BY <2>2, <3>1, CopyTypes DEF Retry, Steps
    <3>2. CASE DeadLetter(p)
      BY <2>2, <3>2, CopyTypes DEF DeadLetter, Steps
    <3>3. CASE PublishRedriven(p)
      BY <2>2, <3>3, CopyTypes DEF PublishRedriven, Steps
    <3>4. CASE RestoreToDLQ(p)
      BY <2>1, <2>2, <3>4 DEF RestoreToDLQ, Steps
    <3>5. QED BY <1>6, <3>1, <3>2, <3>3, <3>4
  <2>4. QED BY <2>1, <2>3, CopyCalm
<1>7. ASSUME NEW p \in Proc, RewindBatch(p) \/ AbortAck(p) PROVE FALSE
  BY <1>0, <1>7 DEF RewindBatch, AbortAck
<1>8. ASSUME NEW p \in Proc, DrainFails(p) \/ CloseTransport(p) \/ Crash(p) PROVE FALSE
  BY <1>0, <1>8, NoFaultYet DEF DrainFails, CloseTransport, Crash
<1>9. ASSUME NEW p \in Proc, Work(p) PROVE Calm'
  BY <1>3, <1>5, <1>6, <1>7, <1>9, AckCalm DEF Work
<1>10. QED BY <1>1, <1>2, <1>4, <1>5, <1>8, <1>9, RebalanceCalm DEF Next

LEMMA FaultsKept == IInv /\ [Next]_vars /\ faults' = 0 => faults = 0
<1> SUFFICES ASSUME IInv, [Next]_vars, faults' = 0 PROVE faults = 0
  OBVIOUS
<1>0. TypeOK /\ ~Fault
  BY NoFaultYet DEF IInv
<1>1. CASE UNCHANGED vars
  BY <1>1 DEF vars
<1>2. ASSUME NEW m \in Msg, NEW kind \in Kinds, Publish(m, kind) PROVE faults' = faults
  BY <1>2 DEF Publish, NoFault
<1>3. ASSUME NEW p \in Proc, NEW q \in Queue, OpenReader(p, q) \/ Rebalance(q, p) PROVE faults' = faults
  BY <1>0, <1>3 DEF OpenReader, Rebalance, Assign, NoFault
<1>4. ASSUME NEW p \in Proc, Work(p) PROVE faults' = faults
  BY <1>0, <1>4 DEF Work, Consume, Handle, Retry, DeadLetter, Ack, RewindBatch, DrainEnds,
                    PublishRedriven, RestoreToDLQ, AbortAck, Write, Commit, NoFault
<1>5. ASSUME NEW p \in Proc,
             StartRedrive(p) \/ Drain(p) \/ DrainFails(p) \/ CloseTransport(p) \/ Crash(p)
      PROVE  faults' = faults
  BY <1>0, <1>5 DEF StartRedrive, Drain, DrainFails, CloseTransport, Crash, NoFault
<1>6. QED BY <1>1, <1>2, <1>3, <1>4, <1>5 DEF Next

LEMMA NextUndisturbed == IInv /\ Undisturbed /\ [Next]_vars => Undisturbed'
<1> SUFFICES ASSUME IInv, Undisturbed, [Next]_vars, faults' = 0 PROVE Calm'
  BY DEF Undisturbed, Calm
<1>1. faults = 0
  BY FaultsKept
<1>2. Calm
  BY <1>1 DEF Undisturbed, Calm
<1>3. CASE Next
  BY <1>2, <1>3, NextCalm
<1>4. CASE UNCHANGED vars
  BY <1>2, <1>4, QuietCalm DEF vars, Calm
<1>5. QED BY <1>3, <1>4

(* As long as nothing fails, a message has one pending record, however many *)
(* processes and Redrive runs move it from topic to topic: the old one is   *)
(* about to be acknowledged when there are two.                             *)
THEOREM OnePlaceKept == Spec => []OnePlace
<1>1. Init => Undisturbed
  BY InitCalm DEF Undisturbed, Calm
<1>2. Undisturbed => OnePlace
  BY DEF Undisturbed, OneRecord, OnePlace
<1>3. QED BY <1>1, <1>2, InitIInv, NextIInv, NextUndisturbed, PTL DEF Spec
=============================================================================
