----------------------------- MODULE AppProofs -----------------------------
(***************************************************************************)
(* Proofs about App, for every set of workers, messages and options.       *)
(***************************************************************************)
EXTENDS App, TLAPS

(* Routing always names a step a worker can take.                           *)
LEMMA DispatchType ==
  ASSUME NEW kind \in Kinds, NEW attempts \in Nat, cfg \in Config
  PROVE  /\ Dispatch(kind, attempts) \in Steps
         /\ RetryOrDeadLetter(attempts) \in Steps
         /\ Unsettled \in Steps
         /\ Reencode(kind) \in Kinds
BY DEF Dispatch, RetryOrDeadLetter, RoutePoison, RouteUnknown, SettleVersionGated,
       Unsettled, Steps, Config, Capabilities, Kinds, Reencode, Strategies

LEMMA CidType == Cid \subseteq Nat
BY BoundsAssumption DEF Cid

(* The type invariant holds initially.                                      *)
LEMMA InitType == Init => TypeOK
<1> SUFFICES ASSUME Init PROVE TypeOK
  OBVIOUS
<1>1. 1 \in Cid
  BY BoundsAssumption DEF Cid
<1>2. (CHOOSE m \in Msg : TRUE) \in Msg
  BY MsgAssumption
<1>3. NoCopy \in Copy
  BY <1>2 DEF NoCopy, Copy, Kinds
<1>4. NoJob \in Job
  BY <1>1 DEF NoJob, Job
<1> QED
  BY <1>3, <1>4 DEF Init, TypeOK, Zero, Steps

(* Every step of the App, the broker and the environment keeps the types.   *)
LEMMA NextType == TypeOK /\ [Next]_vars => TypeOK'
<1> SUFFICES ASSUME TypeOK, [Next]_vars PROVE TypeOK'
  OBVIOUS
<1> USE DEF TypeOK
<1>0. cfg \in Config /\ T.kinds \subseteq Kinds
  BY ConfigsAssumption DEF Config, Capabilities, T
<1>1. ASSUME NEW m \in Msg, NEW kind \in T.kinds, Publish(m, kind) PROVE TypeOK'
  BY <1>0, <1>1 DEF Publish, NoFault, history, Copy
<1>2. ASSUME NEW w \in Worker, NEW c \in Cid, Consume(w, c) PROVE TypeOK'
  <2> DEFINE n == copy[c].count + 1
             a == Floor(copy[c].kind, copy[c].attempts, n)
  <2>1. copy[c] \in Copy /\ n \in Nat \ {0}
    BY DEF Copy
  <2>2. a \in Nat
    BY <2>1 DEF Floor, Copy
  <2>3. Dispatch(copy[c].kind, a) \in Steps
    BY <1>0, <2>1, <2>2, DispatchType DEF Copy
  <2>4. copy' \in [Cid -> Copy]
    BY <1>2, <2>1 DEF Consume, Copy
  <2>5. [c |-> c, count |-> n, attempts |-> a] \in Job
    BY <2>1, <2>2 DEF Job
  <2>6. deliveries' \in [Msg -> Nat]
    BY <1>2, <2>1 DEF Consume, Copy
  <2> QED
    BY <1>2, <2>3, <2>4, <2>5, <2>6 DEF Consume, Goto, NoFault
<1>3. ASSUME NEW w \in Worker PROVE job[w] \in Job /\ job[w].c \in Cid /\ copy[job[w].c] \in Copy
                                    /\ MsgOf(w) \in Msg /\ job[w].attempts \in Nat
  BY DEF Job, Copy, MsgOf
<1>4. ASSUME NEW w \in Worker, Handle(w) PROVE TypeOK'
  <2>1. RetryOrDeadLetter(job[w].attempts) \in Steps
    BY <1>0, <1>3, DispatchType DEF Kinds
  <2> QED
    BY <1>3, <1>4, <2>1 DEF Handle, Goto, NoFault, broker, Steps, history
<1>5. ASSUME NEW w \in Worker, Ack(w) PROVE TypeOK'
  BY <1>3, <1>5 DEF Ack, Settle, Goto, NoFault, Fault, history, Steps
<1>6. ASSUME NEW w \in Worker, Release(w) PROVE TypeOK'
  <2>1. copy' \in [Cid -> Copy]
    <3> DEFINE n == job[w].attempts + 1
    <3>0. n \in Nat
      BY <1>3
    <3> HIDE DEF n
    <3>1. [copy[job[w].c] EXCEPT !.attempts = n] \in Copy
      BY <1>3, <3>0 DEF Copy
    <3>2. [copy EXCEPT ![job[w].c].attempts = n] \in [Cid -> Copy]
      BY <1>3, <3>1
    <3> QED
      BY <1>6, <3>2 DEF Release, broker, n
  <2>2. at' \in [Cid -> {"free", "ready", "reserved", "gone"}] /\ faults' \in Nat
    BY <1>3, <1>6 DEF Release, Settle, broker, NoFault, Fault
  <2> QED
    BY <1>6, <2>1, <2>2 DEF Release, Goto, history, Steps
<1>7. ASSUME NEW w \in Worker, RepublishCopy(w) PROVE TypeOK'
  <2> DEFINE attempts == IF pc[w] = "retry" THEN job[w].attempts + 1 ELSE job[w].attempts
  <2>1. Unsettled \in Steps
    BY <1>0, DispatchType DEF Kinds
  <2>2. attempts \in Nat
    BY <1>3
  <2>3. ASSUME Republish(w, attempts) PROVE at' \in [Cid -> {"free", "ready", "reserved", "gone"}]
                                            /\ copy' \in [Cid -> Copy]
    <3>1. Reencode(copy[job[w].c].kind) \in Kinds
      BY <1>0, <1>3, DispatchType DEF Copy
    <3> QED
      BY <1>3, <2>2, <2>3, <3>1 DEF Republish, Copy
  <2> QED
    BY <1>7, <2>1, <2>3 DEF RepublishCopy, Goto, NoFault, Fault, history, broker, Steps
<1>8. ASSUME NEW w \in Worker, DeadLetterGated(w) PROVE TypeOK'
  BY <1>0, <1>3, <1>8, DispatchType
     DEF DeadLetterGated, Settle, Bump, Goto, NoFault, Fault, Steps, Unsettled
<1>9. ASSUME NEW w \in Worker, DeadLetterRepublish(w) PROVE TypeOK'
  BY <1>0, <1>3, <1>9, DispatchType
     DEF DeadLetterRepublish, Bump, Goto, NoFault, Fault, Steps, Unsettled, broker
<1>10. ASSUME NEW w \in Worker, SettleNative(w) PROVE TypeOK'
  BY <1>3, <1>10 DEF SettleNative, Bump, Goto, NoFault, Fault, Steps
<1>11. ASSUME NEW w \in Worker, Rewind(w) PROVE TypeOK'
  <2>1. job[w].count - 1 \in Nat
    BY <1>3 DEF Job
  <2>2. [copy EXCEPT ![job[w].c].count = job[w].count - 1] \in [Cid -> Copy]
    BY <1>3, <2>1 DEF Copy
  <2> QED
    BY <1>3, <1>11, <2>2 DEF Rewind, Settle, Goto, NoFault, Fault, history, broker, Steps
<1>12. ASSUME NEW c \in Cid, Lapse(c) PROVE TypeOK'
  BY <1>12 DEF Lapse, NoFault, Fault, history
<1>13. ASSUME NEW c \in Cid, BrokerDeadLetter(c) PROVE TypeOK'
  BY <1>13 DEF BrokerDeadLetter, NoFault, Fault, Copy
<1>14. ASSUME NEW w \in Worker, Crash(w) PROVE TypeOK'
  BY <1>14 DEF Crash, Goto, Fault, broker, history, Steps
<1>15. CASE UNCHANGED vars
  BY <1>15 DEF vars
<1> QED
  BY <1>1, <1>2, <1>4, <1>5, <1>6, <1>7, <1>8, <1>9, <1>10, <1>11, <1>12, <1>13, <1>14, <1>15
     DEF Next, Work

(* TypeOK: the states of copies, deliveries and workers stay well formed    *)
(* under every option, fault and interleaving.                              *)
THEOREM TypeCorrect == Spec => []TypeOK
BY InitType, NextType, PTL DEF Spec

-----------------------------------------------------------------------------
(* NoLoss.  Grows is what every step keeps, Leaves(z) says that no copy but *)
(* z leaves the queue in this step.                                         *)
Grows ==
  /\ cfg' = cfg
  /\ \A c \in Cid : at[c] # "free" =>
       /\ at'[c] # "free"
       /\ copy'[c].msg = copy[c].msg
       /\ copy'[c].kind = copy[c].kind
  /\ \A m \in Msg : /\ deliveries[m] <= deliveries'[m]
                    /\ handled[m] <= handled'[m]
                    /\ dlq[m] <= dlq'[m]
                    /\ native[m] <= native'[m]

Leaves(z) ==
  /\ \A x \in Cid : x # z /\ Live(x) => Live(x)'
  /\ \A x \in Cid : at'[x] = "gone" => at[x] = "gone" \/ (x = z /\ Live(x))

(* A message that ended stays ended.                                        *)
LEMMA DoneKept ==
  ASSUME TypeOK, TypeOK', Grows, NEW m \in Msg, Done(m)
  PROVE  Done(m)'
<1>1. handled[m] \in Nat /\ dlq[m] \in Nat /\ native[m] \in Nat
  BY DEF TypeOK
<1>2. handled'[m] \in Nat /\ dlq'[m] \in Nat /\ native'[m] \in Nat
  BY DEF TypeOK
<1> QED
  BY <1>1, <1>2 DEF Grows, Done

(* What may be dropped may still be dropped later.                          *)
LEMMA MayDropKept ==
  ASSUME TypeOK, TypeOK', Grows, NEW c \in Cid, at[c] # "free", MayDrop(c)
  PROVE  MayDrop(c)'
<1>1. copy[c].msg \in Msg
  BY DEF TypeOK, Copy
<1>2. deliveries[copy[c].msg] \in Nat /\ deliveries'[copy[c].msg] \in Nat
  BY <1>1 DEF TypeOK
<1>3. cfg' = cfg /\ copy'[c].kind = copy[c].kind /\ copy'[c].msg = copy[c].msg
      /\ deliveries[copy[c].msg] <= deliveries'[copy[c].msg]
  BY <1>1 DEF Grows
<1>4. cfg.maxAttempts \in Nat
  BY ConfigsAssumption DEF TypeOK, Config
<1>5. deliveries[copy[c].msg] >= cfg.maxAttempts =>
        deliveries'[copy'[c].msg] >= cfg'.maxAttempts
  BY <1>2, <1>3, <1>4
<1> QED
  BY <1>3, <1>5 DEF MayDrop, Droppable, DeadLetterWritable, T

(* Whether a copy may be dropped depends on its message and its class.      *)
LEMMA MayDropClass ==
  ASSUME NEW c \in Cid, NEW x \in Cid, copy[x].msg = copy[c].msg,
         SameClass(copy[x].kind, copy[c].kind), MayDrop(x)
  PROVE  MayDrop(c)
BY DEF MayDrop, Droppable, SameClass

(* A copy that was accounted for still is after a step in which only z      *)
(* leaves, if z is accounted for or its message has ended.                  *)
LEMMA AccountedKept ==
  ASSUME TypeOK, TypeOK', KindsKept, Grows, NEW z \in Cid, Leaves(z),
         Live(z) /\ ~Live(z)' => Accounted(z) \/ Done(copy[z].msg)',
         NEW c \in Cid, at[c] # "free", Accounted(c)
  PROVE  Accounted(c)'
<1>0. copy[c].msg \in Msg /\ copy'[c].msg = copy[c].msg
  BY DEF TypeOK, Copy, Grows
<1>1. CASE Done(copy[c].msg)
  BY <1>0, <1>1, DoneKept DEF Accounted, Done
<1>2. CASE MayDrop(c)
  BY <1>2, MayDropKept DEF Accounted
<1>3. CASE \E x \in Cid : x > c /\ Carries(x, c)
  <2>1. PICK x \in Cid : x > c /\ Carries(x, c)
    BY <1>3
  <2>2. at[x] # "free" /\ copy'[x].msg = copy[x].msg /\ copy[x].msg = copy[c].msg
    BY <2>1 DEF Carries, Live, Grows
  <2>3. CASE Live(x)'
    BY <1>0, <2>1, <2>2, <2>3 DEF Accounted, Carries
  <2>4. CASE ~Live(x)'
    <3>1. x = z /\ Live(z)
      BY <2>1, <2>4 DEF Leaves, Carries
    <3>2. CASE Done(copy[z].msg)'
      BY <1>0, <2>2, <3>1, <3>2 DEF Accounted, Done
    <3>3. CASE Done(copy[z].msg)
      BY <1>0, <2>2, <3>1, <3>3, DoneKept DEF Accounted, Done
    <3>4. CASE MayDrop(z)
      <4>1. SameClass(copy[z].kind, copy[c].kind)
        BY <2>2, <3>1 DEF KindsKept
      <4>2. MayDrop(c)
        BY <2>2, <3>1, <3>4, <4>1, MayDropClass
      <4> QED
        BY <4>2, MayDropKept DEF Accounted
    <3>5. CASE \E y \in Cid : y > z /\ Carries(y, z)
      <4>1. PICK y \in Cid : y > z /\ Carries(y, z)
        BY <3>5
      <4>2. y > c /\ y # z
        BY <2>1, <3>1, <4>1, CidType
      <4>3. Live(y)' /\ copy'[y].msg = copy[c].msg
        BY <2>2, <3>1, <4>1, <4>2 DEF Leaves, Carries, Grows, Live
      <4> QED
        BY <1>0, <4>2, <4>3 DEF Accounted, Carries
    <3> QED
      BY <2>4, <3>1, <3>2, <3>3, <3>4, <3>5 DEF Accounted
  <2> QED
    BY <2>3, <2>4
<1> QED
  BY <1>1, <1>2, <1>3 DEF Accounted

(* The two accounting conjuncts after a step in which only z leaves and     *)
(* workers reach their ack with an accounted copy.                          *)
LEMMA AccountingStep ==
  ASSUME IInv, TypeOK', Grows, NEW z \in Cid, Leaves(z),
         Live(z) /\ ~Live(z)' => Accounted(z) \/ Done(copy[z].msg)',
         \A w \in Worker : pc'[w] = "ack" =>
           (pc[w] = "ack" /\ job'[w] = job[w]) \/ Accounted(job[w].c)'
  PROVE  GoneAccounted' /\ AckAccounted'
<1> USE DEF IInv
<1>1. ASSUME NEW c \in Cid, at'[c] = "gone" PROVE Accounted(c)'
  <2>1. CASE at[c] = "gone"
    BY <2>1, AccountedKept DEF GoneAccounted
  <2>2. CASE c = z /\ Live(z)
    <3>1. copy'[c].msg = copy[c].msg
      BY <2>2 DEF Live, Grows
    <3>2. ~Live(z)'
      BY <1>1, <2>2 DEF Live
    <3>3. CASE Accounted(z)
      BY <2>2, <3>3, AccountedKept DEF Live
    <3>4. CASE Done(copy[z].msg)'
      BY <2>2, <3>1, <3>4 DEF Accounted, Done
    <3> QED
      BY <2>2, <3>2, <3>3, <3>4
  <2> QED
    BY <1>1, <2>1, <2>2 DEF Leaves
<1>2. ASSUME NEW w \in Worker, pc'[w] = "ack" PROVE Accounted(job[w].c)'
  <2>1. CASE pc[w] = "ack" /\ job'[w] = job[w]
    <3>1. job[w].c \in Cid /\ at[job[w].c] # "free"
      BY <2>1 DEF TypeOK, Job, JobsRouted
    <3>2. Accounted(job[w].c)
      BY <2>1 DEF AckAccounted
    <3>3. \A c \in Cid : at[c] # "free" /\ Accounted(c) => Accounted(c)'
      BY AccountedKept
    <3> DEFINE d == job[w].c
    <3>4. d' = d
      BY <2>1
    <3> QED
      BY <3>1, <3>2, <3>3, <3>4
  <2> QED
    BY <1>2, <2>1
<1> QED
  BY <1>1, <1>2 DEF GoneAccounted, AckAccounted

(* The routing conjuncts survive a step that leaves the contents of copies  *)
(* and the deliveries alone and sends no worker where its body may not go.  *)
LEMMA RoutingStep ==
  ASSUME IInv, cfg' = cfg, copy' = copy, job' = job, deliveries' = deliveries,
         \A c \in Cid : at[c] # "free" <=> at'[c] # "free",
         \A w \in Worker :
           /\ pc'[w] # "idle" => pc[w] # "idle"
           /\ pc'[w] = "handle" => pc[w] = "handle"
           /\ pc'[w] \in {"retry", "requeue"} => pc[w] \in {"retry", "requeue", "handle"}
  PROVE  KindsKept' /\ JobsRouted' /\ AttemptsCounted' /\ BodyPreserved'
<1> USE DEF IInv
<1>0. ASSUME NEW w \in Worker PROVE job[w].c \in Cid
  BY DEF TypeOK, Job
<1>1. KindsKept'
  BY DEF KindsKept, T
<1>2. JobsRouted'
  BY <1>0 DEF JobsRouted, DeadLetterWritable
<1>3. AttemptsCounted'
  BY <1>0 DEF AttemptsCounted
<1>4. BodyPreserved'
  BY DEF BodyPreserved, DeadLetterWritable
<1> QED
  BY <1>1, <1>2, <1>3, <1>4

(* A worker's copy and message are among the copies and messages.           *)
LEMMA JobType ==
  ASSUME TypeOK, NEW w \in Worker
  PROVE  /\ job[w] \in Job
         /\ job[w].c \in Cid
         /\ job[w].attempts \in Nat
         /\ job[w].count \in Nat \ {0}
         /\ copy[job[w].c] \in Copy
         /\ MsgOf(w) \in Msg
BY DEF TypeOK, Job, Copy, MsgOf

(* A failed handler leads to a retry, a record, or a drop the options allow.*)
LEMMA FailedHandler ==
  ASSUME IInv, NEW w \in Worker, pc[w] = "handle",
         RetryOrDeadLetter(job[w].attempts) = "ack"
  PROVE  MayDrop(job[w].c)
<1> USE DEF IInv
<1>1. copy[job[w].c].msg \in Msg /\ deliveries[copy[job[w].c].msg] \in Nat
      /\ job[w].attempts \in Nat /\ cfg.maxAttempts \in Nat
  BY JobType, ConfigsAssumption DEF TypeOK, MsgOf, Config
<1>2. job[w].attempts < deliveries[copy[job[w].c].msg]
  BY DEF AttemptsCounted
<1>3. ~cfg.deadLetter /\ job[w].attempts + 1 >= cfg.maxAttempts
  BY <1>1 DEF RetryOrDeadLetter
<1>4. deliveries[copy[job[w].c].msg] >= cfg.maxAttempts
  BY <1>1, <1>2, <1>3
<1>5. copy[job[w].c].kind \in {"known", "routed"}
  BY DEF JobsRouted
<1> QED
  BY <1>3, <1>4, <1>5 DEF MayDrop, Droppable

(* A delivery dispatch sends straight to the ack may be dropped.            *)
LEMMA DroppedByDispatch ==
  ASSUME NEW kind \in Kinds, NEW attempts \in Nat, NEW n \in Nat, cfg \in Config,
         attempts < n, Dispatch(kind, attempts) = "ack"
  PROVE  Droppable(kind, n)
<1>1. cfg.maxAttempts \in Nat /\ cfg.strategy \in Strategies
  BY DEF Config
<1>2. ASSUME RetryOrDeadLetter(attempts) = "ack"
      PROVE ~cfg.deadLetter /\ n >= cfg.maxAttempts
  BY <1>1, <1>2 DEF RetryOrDeadLetter
<1>3. CASE kind = "gated"
  BY <1>3 DEF Dispatch, SettleVersionGated, Droppable
<1>4. CASE kind \in {"noident", "garbage"}
  <2>1. Dispatch(kind, attempts) = RoutePoison(attempts)
    BY <1>4 DEF Dispatch
  <2>2. CASE cfg.strategy = "delete"
    BY <1>4, <2>2 DEF Droppable
  <2>3. CASE cfg.strategy \in {"fail", "release"}
    <3>1. RetryOrDeadLetter(attempts) = "ack"
      BY <2>1, <2>3 DEF RoutePoison, RouteUnknown
    <3> QED
      BY <1>2, <1>4, <2>3, <3>1 DEF Droppable
  <2>4. CASE cfg.strategy = "dead_letter"
    BY <2>1, <2>4 DEF RoutePoison, DeadLetterWritable
  <2> QED
    BY <1>1, <2>2, <2>3, <2>4 DEF Strategies
<1>5. CASE kind = "unknown"
  <2>1. Dispatch(kind, attempts) = RouteUnknown(attempts)
    BY <1>5 DEF Dispatch
  <2>2. CASE cfg.strategy = "delete"
    BY <1>5, <2>2 DEF Droppable
  <2>3. CASE cfg.strategy = "fail"
    BY <1>2, <1>5, <2>1, <2>3 DEF RouteUnknown, Droppable
  <2>4. CASE cfg.strategy \in {"release", "dead_letter"}
    BY <2>1, <2>4 DEF RouteUnknown
  <2> QED
    BY <1>1, <2>2, <2>3, <2>4 DEF Strategies
<1>6. CASE kind \in {"known", "routed", "poison"}
  BY <1>6 DEF Dispatch
<1> QED
  BY <1>3, <1>4, <1>5, <1>6 DEF Kinds

(* Only a body with a handler reaches it, and a body that does not decode   *)
(* is never retried when a DLQ can be written.                              *)
LEMMA DispatchRoutes ==
  ASSUME NEW kind \in Kinds, NEW attempts \in Nat, cfg \in Config
  PROVE  /\ Dispatch(kind, attempts) = "handle" => kind \in {"known", "routed"}
         /\ Dispatch(kind, attempts) \in {"retry", "requeue"} /\ DeadLetterWritable
              => kind # "garbage"
BY DEF Dispatch, RetryOrDeadLetter, RoutePoison, RouteUnknown, SettleVersionGated, Kinds,
       DeadLetterWritable, Config, Strategies

(* The inductive invariant holds initially.                                 *)
LEMMA InitInv == Init => IInv
<1> SUFFICES ASSUME Init PROVE IInv
  OBVIOUS
<1>1. TypeOK
  BY InitType
<1>2. \A c \in Cid : at[c] = "free"
  BY DEF Init
<1>3. \A w \in Worker : pc[w] = "idle"
  BY DEF Init
<1> QED
  BY <1>1, <1>2, <1>3 DEF IInv, KindsKept, JobsRouted, AttemptsCounted, BodyPreserved,
                          GoneAccounted, AckAccounted

(* Steps that leave the contents of copies and the deliveries alone.        *)
LEMMA SettlingStep ==
  ASSUME IInv, TypeOK', NEW w \in Worker,
         Handle(w) \/ Ack(w) \/ DeadLetterGated(w) \/ DeadLetterRepublish(w)
           \/ SettleNative(w) \/ Crash(w)
  PROVE  IInv'
<1> USE DEF IInv
<1>0. job[w] \in Job /\ job[w].c \in Cid /\ job[w].attempts \in Nat /\ MsgOf(w) \in Msg
      /\ MsgOf(w) = copy[job[w].c].msg
  BY JobType DEF MsgOf
<1>1. cfg' = cfg /\ copy' = copy /\ job' = job /\ deliveries' = deliveries
  BY DEF Handle, Ack, DeadLetterGated, DeadLetterRepublish, SettleNative, Crash,
         broker, history
<1>2. /\ \A x \in Cid : x # job[w].c => at'[x] = at[x]
      /\ at'[job[w].c] # at[job[w].c] =>
           at[job[w].c] = "reserved" /\ at'[job[w].c] \in {"ready", "gone"}
  BY <1>0 DEF Handle, Ack, DeadLetterGated, DeadLetterRepublish, SettleNative, Crash,
              broker, Settle, Current, TypeOK
<1>3. \A v \in Worker : v # w => pc'[v] = pc[v]
  BY DEF Handle, Ack, DeadLetterGated, DeadLetterRepublish, SettleNative, Crash,
         Goto, TypeOK
<1>4. \A m \in Msg : handled[m] <= handled'[m] /\ dlq[m] <= dlq'[m] /\ native[m] <= native'[m]
                     /\ deliveries[m] <= deliveries'[m]
  BY <1>0, <1>1 DEF Handle, Ack, DeadLetterGated, DeadLetterRepublish, SettleNative,
                    Crash, history, Bump, TypeOK
<1>5. Grows
  BY <1>1, <1>2, <1>4 DEF Grows
<1>6. Leaves(job[w].c)
  BY <1>0, <1>2 DEF Leaves, Live, TypeOK
<1>7. pc[w] # "idle"
  BY DEF Handle, Ack, DeadLetterGated, DeadLetterRepublish, SettleNative, Crash
<1>8. /\ pc'[w] # "handle"
      /\ pc'[w] \in {"retry", "requeue"} => pc[w] = "handle"
  BY <1>0 DEF Handle, Ack, DeadLetterGated, DeadLetterRepublish, SettleNative, Crash,
              Goto, Unsettled, TypeOK, RetryOrDeadLetter
<1>9. KindsKept' /\ JobsRouted' /\ AttemptsCounted' /\ BodyPreserved'
  <2>1. \A c \in Cid : at[c] # "free" <=> at'[c] # "free"
    BY <1>0, <1>2
  <2> QED
    BY <1>1, <1>3, <1>7, <1>8, <2>1, RoutingStep
<1>10. ASSUME at'[job[w].c] = "gone", at[job[w].c] # "gone"
       PROVE  Accounted(job[w].c) \/ Done(copy[job[w].c].msg)'
  <2>1. CASE Ack(w)
    BY <2>1 DEF Ack, AckAccounted
  <2>2. CASE DeadLetterGated(w)
    <3>1. dlq' = [dlq EXCEPT ![MsgOf(w)] = @ + 1]
      BY <1>0, <1>10, <2>2 DEF DeadLetterGated, Settle, Bump, TypeOK
    <3> QED
      BY <1>0, <1>1, <3>1 DEF Done, TypeOK
  <2>3. CASE SettleNative(w)
    <3>1. native' = [native EXCEPT ![MsgOf(w)] = @ + 1]
      BY <1>0, <1>10, <2>3 DEF SettleNative, Bump, TypeOK
    <3> QED
      BY <1>0, <1>1, <3>1 DEF Done, TypeOK
  <2>4. CASE Handle(w) \/ DeadLetterRepublish(w) \/ Crash(w)
    BY <1>10, <2>4 DEF Handle, DeadLetterRepublish, Crash, broker
  <2> QED
    BY <2>1, <2>2, <2>3, <2>4
<1>11. pc'[w] = "ack" => Accounted(job[w].c)'
  <2> SUFFICES ASSUME pc'[w] = "ack" PROVE Accounted(job[w].c)'
    OBVIOUS
  <2>1. CASE Handle(w)
    <3>1. CASE handled' = [handled EXCEPT ![MsgOf(w)] = @ + 1]
      BY <1>0, <1>1, <3>1 DEF Accounted, Done, TypeOK
    <3>2. CASE pc' = [pc EXCEPT ![w] = RetryOrDeadLetter(job[w].attempts)]
      <4>1. MayDrop(job[w].c)
        BY <2>1, <3>2, FailedHandler DEF Handle, TypeOK
      <4>2. at[job[w].c] # "free"
        BY <1>7 DEF JobsRouted
      <4>3. MayDrop(job[w].c)'
        <5> DEFINE d == job[w].c
        <5>1. d' = d
          BY <1>1
        <5>2. \A c \in Cid : at[c] # "free" /\ MayDrop(c) => MayDrop(c)'
          BY <1>5, MayDropKept
        <5> QED
          BY <1>0, <4>1, <4>2, <5>1, <5>2
      <4> QED
        BY <4>3 DEF Accounted
    <3> QED
      BY <2>1, <3>1, <3>2 DEF Handle, Goto
  <2>2. CASE DeadLetterRepublish(w)
    <3>1. dlq' = [dlq EXCEPT ![MsgOf(w)] = @ + 1]
      BY <1>0, <2>2 DEF DeadLetterRepublish, Bump, Goto, Unsettled, TypeOK
    <3> QED
      BY <1>0, <1>1, <3>1 DEF Accounted, Done, TypeOK
  <2>3. CASE Ack(w) \/ DeadLetterGated(w) \/ SettleNative(w) \/ Crash(w)
    BY <2>3 DEF Ack, DeadLetterGated, SettleNative, Crash, Goto, Unsettled, TypeOK
  <2> QED
    BY <2>1, <2>2, <2>3
<1>12. GoneAccounted' /\ AckAccounted'
  <2>1. Live(job[w].c) /\ ~(at'[job[w].c] \in {"ready", "reserved"})
           => Accounted(job[w].c) \/ Done(copy[job[w].c].msg)'
    BY <1>0, <1>2, <1>10 DEF Live
  <2> DEFINE d == job[w].c
  <2>2. d \in Cid /\ d' = d
    BY <1>0, <1>1
  <2>3. Live(d) /\ ~(at'[d] \in {"ready", "reserved"}) => Accounted(d) \/ Done(copy[d].msg)'
    BY <2>1
  <2>4. \A v \in Worker : pc'[v] = "ack" =>
          (pc[v] = "ack" /\ job'[v] = job[v]) \/ Accounted(job[v].c)'
    BY <1>1, <1>3, <1>11
  <2>5. PICK z \in Cid : z = d
    BY <2>2
  <2>6. Live(z) /\ ~Live(z)' => Accounted(z) \/ Done(copy[z].msg)'
    BY <1>1, <2>2, <2>3, <2>5 DEF Live
  <2>7. Leaves(z)
    BY <1>6, <2>5
  <2> QED
    BY <1>5, <2>4, <2>6, <2>7, AccountingStep
<1> QED
  BY <1>9, <1>12

(* Accounting over a step in which no copy leaves and no worker reaches its *)
(* ack other than with an accounted copy.                                   *)
LEMMA NothingLeaves ==
  ASSUME IInv, TypeOK', Grows,
         \A x \in Cid : Live(x) => Live(x)',
         \A x \in Cid : at'[x] = "gone" => at[x] = "gone",
         \A w \in Worker : pc'[w] = "ack" =>
           (pc[w] = "ack" /\ job'[w] = job[w]) \/ Accounted(job[w].c)'
  PROVE  GoneAccounted' /\ AckAccounted'
<1>1. PICK z \in Cid : z = 1
  BY BoundsAssumption DEF Cid
<1>2. Leaves(z)
  BY DEF Leaves
<1> QED
  BY <1>2, AccountingStep

(* The broker's own steps: a lapse returns a copy, a native dead-letter     *)
(* records the message it takes.                                            *)
LEMMA BrokerStep ==
  ASSUME IInv, TypeOK', NEW c \in Cid, Lapse(c) \/ BrokerDeadLetter(c)
  PROVE  IInv'
<1> USE DEF IInv
<1>1. cfg' = cfg /\ copy' = copy /\ job' = job /\ pc' = pc /\ deliveries' = deliveries
      /\ handled' = handled /\ dlq' = dlq
  BY DEF Lapse, BrokerDeadLetter, history
<1>2. copy[c].msg \in Msg
  BY DEF TypeOK, Copy
<1>3. \A m \in Msg : native[m] <= native'[m]
  BY <1>2 DEF Lapse, BrokerDeadLetter, history, TypeOK
<1>4. /\ \A x \in Cid : x # c => at'[x] = at[x]
      /\ at[c] \in {"ready", "reserved"} /\ at'[c] \in {"ready", "gone"}
  BY DEF Lapse, BrokerDeadLetter, TypeOK
<1>5. Grows
  BY <1>1, <1>3, <1>4 DEF Grows, TypeOK
<1>6. Leaves(c)
  BY <1>4 DEF Leaves, Live
<1>7. KindsKept' /\ JobsRouted' /\ AttemptsCounted' /\ BodyPreserved'
  <2>1. \A x \in Cid : at[x] # "free" <=> at'[x] # "free"
    BY <1>4
  <2> QED
    BY <1>1, <2>1, RoutingStep
<1>8. ~Live(c)' => Done(copy[c].msg)'
  <2> SUFFICES ASSUME ~Live(c)' PROVE Done(copy[c].msg)'
    OBVIOUS
  <2>1. BrokerDeadLetter(c)
    BY DEF Lapse, Live, TypeOK
  <2>2. native' = [native EXCEPT ![copy[c].msg] = @ + 1]
    BY <2>1 DEF BrokerDeadLetter
  <2> QED
    BY <1>1, <1>2, <2>2 DEF Done, TypeOK
<1>9. GoneAccounted' /\ AckAccounted'
  BY <1>1, <1>5, <1>6, <1>8, AccountingStep
<1> QED
  BY <1>7, <1>9

(* An in-place release or a rewind: the copy is ready again, its attempts   *)
(* advanced where the transport rewrites the body, its count taken back     *)
(* where the broker does not count the delivery.                            *)
LEMMA HandBackStep ==
  ASSUME IInv, TypeOK', NEW w \in Worker, Release(w) \/ Rewind(w)
  PROVE  IInv'
<1> USE DEF IInv
<1> DEFINE d == job[w].c
<1>0. d \in Cid /\ job[w].attempts \in Nat /\ job[w].count \in Nat \ {0}
      /\ copy[d] \in Copy /\ pc[w] # "idle"
  BY JobType DEF Release, Rewind
<1>1. cfg' = cfg /\ job' = job /\ deliveries' = deliveries /\ handled' = handled
      /\ dlq' = dlq /\ native' = native
  BY DEF Release, Rewind, history
<1>2. /\ \A x \in Cid : x # d => at'[x] = at[x] /\ copy'[x] = copy[x]
      /\ at'[d] = at[d] \/ (at[d] = "reserved" /\ at'[d] = "ready")
  BY <1>0 DEF Release, Rewind, Settle, broker, Current, TypeOK
<1>3. /\ copy'[d].msg = copy[d].msg /\ copy'[d].kind = copy[d].kind
      /\ copy'[d].intact = copy[d].intact /\ copy'[d].count <= copy[d].count
      /\ copy'[d].attempts \in {copy[d].attempts, job[w].attempts + 1}
  <2>1. copy \in [Cid -> Copy] /\ copy[d].count \in Nat
    BY <1>0 DEF TypeOK, Copy
  <2>2. CASE Release(w)
    BY <1>0, <2>1, <2>2 DEF Release, broker, Copy
  <2>3. CASE Rewind(w)
    <3>1. CASE copy' = copy
      BY <2>1, <3>1
    <3>2. CASE Current(w) /\ copy' = [copy EXCEPT ![d].count = job[w].count - 1]
      BY <1>0, <2>1, <3>2 DEF Current, Copy
    <3> QED
      BY <2>3, <3>1, <3>2 DEF Rewind, broker
  <2> QED
    BY <2>2, <2>3
<1>4. \A v \in Worker : pc'[v] = pc[v] \/ pc'[v] = "idle"
  BY DEF Release, Rewind, Goto, TypeOK
<1>5. at[d] # "free"
  BY <1>0 DEF JobsRouted
<1>6. Grows
  BY <1>1, <1>2, <1>3 DEF Grows, TypeOK
<1>7. \A x \in Cid : at[x] # "free" <=> at'[x] # "free"
  BY <1>0, <1>2
<1>8. \A x \in Cid : copy'[x].msg = copy[x].msg /\ copy'[x].kind = copy[x].kind
                     /\ copy'[x].intact = copy[x].intact
  BY <1>2, <1>3
<1>9. \A v \in Worker : job[v].c \in Cid
  BY JobType
<1>10. KindsKept'
  BY <1>1, <1>7, <1>8 DEF KindsKept, T
<1>11. JobsRouted'
  BY <1>1, <1>4, <1>7, <1>8, <1>9 DEF JobsRouted, DeadLetterWritable
<1>12. BodyPreserved'
  BY <1>1, <1>7, <1>8 DEF BodyPreserved, DeadLetterWritable
<1>13. AttemptsCounted'
  <2>1. copy'[d].attempts <= deliveries[copy[d].msg]
    <3>1. copy[d].attempts <= deliveries[copy[d].msg] /\ job[w].attempts < deliveries[copy[d].msg]
      BY <1>0, <1>5 DEF AttemptsCounted
    <3>2. deliveries[copy[d].msg] \in Nat /\ copy[d].attempts \in Nat
      BY <1>0 DEF TypeOK, Copy
    <3> QED
      BY <1>0, <1>3, <3>1, <3>2
  <2>2. \A x \in Cid : at[x] # "free" => copy'[x].count <= deliveries[copy[x].msg]
    <3> SUFFICES ASSUME NEW x \in Cid, at[x] # "free"
                 PROVE copy'[x].count <= deliveries[copy[x].msg]
      OBVIOUS
    <3>1. copy[x].count <= deliveries[copy[x].msg]
      BY DEF AttemptsCounted
    <3>2. deliveries[copy[x].msg] \in Nat /\ copy[x].count \in Nat /\ copy'[x].count \in Nat
      BY DEF TypeOK, Copy
    <3>3. copy'[x].count <= copy[x].count
      BY <1>2, <1>3, <3>2
    <3> QED
      BY <3>1, <3>2, <3>3
  <2> QED
    BY <1>1, <1>2, <1>4, <1>7, <1>8, <1>9, <2>1, <2>2 DEF AttemptsCounted
<1>14. GoneAccounted' /\ AckAccounted'
  <2>1. \A x \in Cid : Live(x) => Live(x)'
    BY <1>0, <1>2 DEF Live
  <2>2. \A x \in Cid : at'[x] = "gone" => at[x] = "gone"
    BY <1>0, <1>2
  <2> QED
    BY <1>1, <1>4, <1>6, <2>1, <2>2, NothingLeaves
<1> QED
  BY <1>10, <1>11, <1>12, <1>13, <1>14

(* Pop and dispatch: the delivery is counted before it is routed, so what   *)
(* goes straight to the ack may be dropped.                                 *)
LEMMA ConsumeStep ==
  ASSUME IInv, TypeOK', NEW w \in Worker, NEW c \in Cid, Consume(w, c)
  PROVE  IInv'
<1> USE DEF IInv
<1> DEFINE n == copy[c].count + 1
           a == Floor(copy[c].kind, copy[c].attempts, n)
           m == copy[c].msg
<1>0. copy[c] \in Copy /\ m \in Msg /\ n \in Nat /\ copy[c].kind \in Kinds
      /\ copy[c].attempts \in Nat /\ copy[c].count \in Nat
      /\ deliveries[m] \in Nat /\ cfg \in Config
  BY ConfigsAssumption DEF TypeOK, Copy
<1>1. cfg' = cfg /\ handled' = handled /\ dlq' = dlq /\ native' = native
  BY DEF Consume
<1>2. /\ at[c] = "ready" /\ at'[c] = "reserved"
      /\ \A x \in Cid : x # c => at'[x] = at[x] /\ copy'[x] = copy[x]
  BY DEF Consume, TypeOK
<1>3. copy'[c].msg = m /\ copy'[c].kind = copy[c].kind /\ copy'[c].intact = copy[c].intact
      /\ copy'[c].attempts = copy[c].attempts /\ copy'[c].count = n
  BY <1>0 DEF Consume, TypeOK, Copy
<1>4. deliveries' = [deliveries EXCEPT ![m] = @ + 1]
  BY DEF Consume
<1>5. \A k \in Msg : deliveries[k] \in Nat /\ deliveries'[k] \in Nat /\ deliveries[k] <= deliveries'[k]
  BY <1>0, <1>4 DEF TypeOK
<1>6. deliveries'[m] = deliveries[m] + 1
  BY <1>0, <1>4 DEF TypeOK
<1>7. /\ \A v \in Worker : v # w => pc'[v] = pc[v] /\ job'[v] = job[v]
      /\ pc'[w] = Dispatch(copy[c].kind, a)
      /\ job'[w] = [c |-> c, count |-> n, attempts |-> a]
  BY DEF Consume, Goto, TypeOK
<1>8. \A x \in Cid : copy'[x].msg = copy[x].msg /\ copy'[x].kind = copy[x].kind
                     /\ copy'[x].intact = copy[x].intact
                     /\ copy'[x].attempts = copy[x].attempts
  BY <1>2, <1>3
<1>9. \A x \in Cid : at[x] # "free" <=> at'[x] # "free"
  BY <1>2
<1>10. \A x \in Cid : copy[x].msg \in Msg /\ copy[x].attempts \in Nat /\ copy[x].count \in Nat
  BY DEF TypeOK, Copy
<1>11. copy[c].attempts <= deliveries[m] /\ copy[c].count <= deliveries[m]
  BY <1>2 DEF AttemptsCounted
<1>12. a \in Nat /\ a <= deliveries[m]
  BY <1>0, <1>11 DEF Floor
<1> HIDE DEF a, n
<1>13. Grows
  BY <1>1, <1>2, <1>5, <1>8, <1>9 DEF Grows, TypeOK
<1>14. KindsKept'
  BY <1>1, <1>8, <1>9 DEF KindsKept, T
<1>15. BodyPreserved'
  BY <1>1, <1>8, <1>9 DEF BodyPreserved, DeadLetterWritable
<1>16. JobsRouted'
  <2>1. ASSUME NEW v \in Worker, v # w
        PROVE  /\ pc'[v] # "idle" => at'[job'[v].c] # "free"
               /\ pc'[v] = "handle" => copy'[job'[v].c].kind \in {"known", "routed"}
               /\ pc'[v] \in {"retry", "requeue"} /\ DeadLetterWritable' => copy'[job'[v].c].kind # "garbage"
    <3>1. job[v].c \in Cid
      BY JobType
    <3> QED
      BY <1>1, <1>7, <1>8, <1>9, <2>1, <3>1 DEF JobsRouted, DeadLetterWritable
  <2>2. /\ at'[job'[w].c] # "free"
        /\ pc'[w] = "handle" => copy'[job'[w].c].kind \in {"known", "routed"}
        /\ pc'[w] \in {"retry", "requeue"} /\ DeadLetterWritable' => copy'[job'[w].c].kind # "garbage"
    <3>1. job'[w].c = c
      BY <1>7
    <3>2. DeadLetterWritable' <=> DeadLetterWritable
      BY <1>1 DEF DeadLetterWritable
    <3> QED
      BY <1>0, <1>2, <1>3, <1>7, <1>12, <3>1, <3>2, DispatchRoutes
  <2> QED
    BY <2>1, <2>2 DEF JobsRouted
<1>17. AttemptsCounted'
  <2>1. ASSUME NEW x \in Cid, at'[x] # "free"
        PROVE  copy'[x].attempts <= deliveries'[copy'[x].msg] /\ copy'[x].count <= deliveries'[copy'[x].msg]
    <3>1. copy[x].attempts <= deliveries[copy[x].msg] /\ copy[x].count <= deliveries[copy[x].msg]
      BY <1>9, <2>1 DEF AttemptsCounted
    <3>2. CASE x # c
      BY <1>2, <1>5, <1>10, <3>1, <3>2
    <3>3. CASE x = c
      BY <1>0, <1>3, <1>6, <1>11, <3>3 DEF n
    <3> QED
      BY <3>2, <3>3
  <2>2. ASSUME NEW v \in Worker, pc'[v] # "idle"
        PROVE  job'[v].attempts < deliveries'[copy'[job'[v].c].msg]
    <3>1. CASE v = w
      BY <1>0, <1>3, <1>6, <1>7, <1>12, <3>1
    <3>2. CASE v # w
      <4>1. job[v].c \in Cid /\ job[v].attempts \in Nat
        BY JobType
      <4>2. job[v].attempts < deliveries[copy[job[v].c].msg]
        BY <1>7, <2>2, <3>2 DEF AttemptsCounted
      <4> QED
        BY <1>5, <1>7, <1>8, <1>10, <3>2, <4>1, <4>2
    <3> QED
      BY <3>1, <3>2
  <2> QED
    BY <2>1, <2>2 DEF AttemptsCounted
<1>18. ASSUME pc'[w] = "ack" PROVE Accounted(job[w].c)'
  <2>0. PICK k \in Kinds, i \in Nat, j \in Nat : k = copy[c].kind /\ i = a /\ j = deliveries'[m]
    BY <1>0, <1>5, <1>12
  <2>1. Droppable(k, j)
    <3>1. Dispatch(k, i) = "ack" /\ i < j
      BY <1>0, <1>6, <1>7, <1>12, <1>18, <2>0
         DEF Dispatch, RoutePoison, RouteUnknown, RetryOrDeadLetter
    <3> QED
      BY <1>0, <3>1, DroppedByDispatch
  <2>2. MayDrop(c)'
    BY <1>1, <1>3, <2>0, <2>1 DEF MayDrop, Droppable, DeadLetterWritable, T
  <2>3. job'[w].c = c
    BY <1>7
  <2>4. (\A x \in Cid : MayDrop(x) => Accounted(x))'
    BY DEF Accounted
  <2> QED
    BY <2>2, <2>3, <2>4
<1>19. GoneAccounted' /\ AckAccounted'
  <2>1. \A x \in Cid : Live(x) => Live(x)'
    BY <1>2 DEF Live
  <2>2. \A x \in Cid : at'[x] = "gone" => at[x] = "gone"
    BY <1>2
  <2> QED
    BY <1>7, <1>13, <1>18, <2>1, <2>2, NothingLeaves
<1> QED
  BY <1>14, <1>15, <1>16, <1>17, <1>19

(* The first copy of a message no copy carries yet.                         *)
LEMMA PublishStep ==
  ASSUME IInv, TypeOK', NEW m \in Msg, NEW kind \in T.kinds, Publish(m, kind)
  PROVE  IInv'
<1> USE DEF IInv
<1>1. PICK c \in Cid :
        /\ Fresh(c)
        /\ \A x \in Cid : at[x] # "free" => copy[x].msg # m
        /\ at' = [at EXCEPT ![c] = "ready"]
        /\ copy' = [copy EXCEPT ![c] =
             [msg |-> m, kind |-> kind, intact |-> TRUE, attempts |-> 0, count |-> 0]]
  BY DEF Publish
<1>2. cfg' = cfg /\ pc' = pc /\ job' = job /\ deliveries' = deliveries /\ handled' = handled
      /\ dlq' = dlq /\ native' = native
  BY DEF Publish, history
<1>3. /\ at[c] = "free" /\ at'[c] = "ready"
      /\ copy'[c] = [msg |-> m, kind |-> kind, intact |-> TRUE, attempts |-> 0, count |-> 0]
      /\ \A x \in Cid : x # c => at'[x] = at[x] /\ copy'[x] = copy[x]
  BY <1>1 DEF Fresh, TypeOK
<1>4. kind = "routed" => T.keepsRoute
  BY RouteAssumption DEF TypeOK, T
<1>5. \A w \in Worker : job[w].c \in Cid /\ (pc[w] # "idle" => job[w].c # c)
  BY <1>3, JobType DEF JobsRouted
<1>6. Grows
  BY <1>2, <1>3 DEF Grows, TypeOK
<1>7. KindsKept'
  BY <1>1, <1>2, <1>3, <1>4 DEF KindsKept, SameClass, T
<1>8. JobsRouted'
  BY <1>2, <1>3, <1>5 DEF JobsRouted, DeadLetterWritable
<1>9. AttemptsCounted'
  BY <1>2, <1>3, <1>5 DEF AttemptsCounted, TypeOK
<1>10. BodyPreserved'
  BY <1>2, <1>3 DEF BodyPreserved, DeadLetterWritable
<1>11. GoneAccounted' /\ AckAccounted'
  <2>1. \A x \in Cid : Live(x) => Live(x)'
    BY <1>3 DEF Live
  <2>2. \A x \in Cid : at'[x] = "gone" => at[x] = "gone"
    BY <1>3
  <2> QED
    BY <1>2, <1>6, <2>1, <2>2, NothingLeaves
<1> QED
  BY <1>7, <1>8, <1>9, <1>10, <1>11

(* A re-publish: the new copy is later than every other, so it accounts for *)
(* the one the worker may acknowledge; a failed one acknowledges nothing.   *)
LEMMA RepublishStep ==
  ASSUME IInv, TypeOK', NEW w \in Worker, RepublishCopy(w)
  PROVE  IInv'
<1> USE DEF IInv
<1> DEFINE d == job[w].c
           attempts == IF pc[w] = "retry" THEN job[w].attempts + 1 ELSE job[w].attempts
<1>0. d \in Cid /\ job[w].attempts \in Nat /\ copy[d] \in Copy
      /\ pc[w] \in {"retry", "requeue"}
  BY JobType DEF RepublishCopy
<1>1. cfg' = cfg /\ job' = job /\ deliveries' = deliveries /\ handled' = handled
      /\ dlq' = dlq /\ native' = native
  BY DEF RepublishCopy, history
<1>2. \A v \in Worker : v # w => pc'[v] = pc[v]
  BY DEF RepublishCopy, Goto, TypeOK
<1>3. pc'[w] \in {"ack", "rewind", "idle"}
  BY DEF RepublishCopy, Goto, Unsettled, TypeOK
<1>4. at[d] # "free"
  BY <1>0 DEF JobsRouted
<1>5. CASE UNCHANGED broker /\ Goto(w, Unsettled)
  <2>1. at' = at /\ copy' = copy /\ pc'[w] # "ack"
    BY <1>5 DEF broker, Goto, Unsettled, TypeOK
  <2>2. KindsKept' /\ JobsRouted' /\ AttemptsCounted' /\ BodyPreserved'
    BY <1>0, <1>1, <1>2, <1>3, <2>1, RoutingStep
  <2>3. Grows
    BY <1>1, <2>1 DEF Grows, TypeOK
  <2>4. GoneAccounted' /\ AckAccounted'
    BY <1>1, <1>2, <2>1, <2>3, NothingLeaves DEF Live
  <2> QED
    BY <2>2, <2>4
<1>6. CASE Republish(w, attempts)
  <2>1. PICK c \in Cid :
          /\ Fresh(c)
          /\ at' = [at EXCEPT ![c] = "ready"]
          /\ copy' = [copy EXCEPT ![c] =
               [msg |-> copy[d].msg, kind |-> Reencode(copy[d].kind), attempts |-> attempts,
                count |-> 0, intact |-> copy[d].intact /\ copy[d].kind # "garbage"]]
    BY <1>6 DEF Republish
  <2>2. /\ at[c] = "free" /\ at'[c] = "ready"
        /\ \A x \in Cid : x # c => at'[x] = at[x] /\ copy'[x] = copy[x]
    BY <2>1 DEF Fresh, TypeOK
  <2>3. /\ copy'[c].msg = copy[d].msg
        /\ copy'[c].kind = Reencode(copy[d].kind)
        /\ copy'[c].attempts = attempts
        /\ copy'[c].count = 0
        /\ copy'[c].intact = (copy[d].intact /\ copy[d].kind # "garbage")
    BY <2>1 DEF TypeOK
  <2>4. c > d /\ d # c
    BY <1>0, <1>4, <2>1, CidType DEF Fresh
  <2>5. \A v \in Worker : job[v].c \in Cid /\ (pc[v] # "idle" => job[v].c # c)
    BY <2>2, JobType DEF JobsRouted
  <2>6. Grows
    BY <1>1, <2>2 DEF Grows, TypeOK
  <2>7. KindsKept'
    <3>1. copy[d].kind = "routed" => T.keepsRoute
      BY <1>0, <1>4 DEF KindsKept
    <3>2. SameClass(Reencode(copy[d].kind), copy[d].kind)
      BY <3>1 DEF SameClass, Reencode
    <3>3. Reencode(copy[d].kind) = "routed" => copy[d].kind = "routed"
      BY DEF Reencode
    <3>4. ASSUME NEW x \in Cid, at'[x] # "free", copy'[x].msg = copy[d].msg
          PROVE SameClass(copy'[x].kind, copy[d].kind)
      BY <1>0, <1>4, <2>2, <2>3, <3>2, <3>4 DEF KindsKept, SameClass
    <3>5. ASSUME NEW x \in Cid, NEW y \in Cid, at'[x] # "free", at'[y] # "free",
                 copy'[x].msg = copy'[y].msg
          PROVE SameClass(copy'[x].kind, copy'[y].kind)
      <4>1. CASE x # c /\ y # c
        BY <2>2, <3>5, <4>1 DEF KindsKept
      <4>2. CASE x = c \/ y = c
        <5>1. SameClass(copy'[x].kind, copy[d].kind) /\ SameClass(copy'[y].kind, copy[d].kind)
          BY <2>3, <3>4, <3>5, <4>2
        <5> QED
          BY <5>1 DEF SameClass
      <4> QED
        BY <4>1, <4>2
    <3>6. ASSUME NEW x \in Cid, at'[x] # "free", copy'[x].kind = "routed" PROVE T'.keepsRoute
      BY <1>1, <2>2, <2>3, <3>1, <3>3, <3>6 DEF KindsKept, T
    <3> QED
      BY <3>5, <3>6 DEF KindsKept
  <2>8. JobsRouted'
    BY <1>1, <1>2, <1>3, <1>4, <2>2, <2>4, <2>5 DEF JobsRouted, DeadLetterWritable
  <2>9. AttemptsCounted'
    <3>1. copy[d].msg \in Msg /\ deliveries[copy[d].msg] \in Nat
      BY <1>0 DEF TypeOK, Copy
    <3>2. job[w].attempts < deliveries[copy[d].msg]
      BY <1>0 DEF AttemptsCounted
    <3>3. attempts <= deliveries[copy[d].msg] /\ 0 <= deliveries[copy[d].msg]
      BY <1>0, <3>1, <3>2
    <3> HIDE DEF attempts
    <3>4. ASSUME NEW x \in Cid, at'[x] # "free"
          PROVE copy'[x].attempts <= deliveries'[copy'[x].msg] /\ copy'[x].count <= deliveries'[copy'[x].msg]
      BY <1>1, <2>2, <2>3, <3>3, <3>4 DEF AttemptsCounted
    <3>5. ASSUME NEW v \in Worker, pc'[v] # "idle"
          PROVE job'[v].attempts < deliveries'[copy'[job'[v].c].msg]
      <4>1. pc[v] # "idle"
        BY <1>0, <1>2, <3>5
      <4> QED
        BY <1>1, <2>2, <2>5, <4>1 DEF AttemptsCounted
    <3> QED
      BY <3>4, <3>5 DEF AttemptsCounted
  <2>10. BodyPreserved'
    <3>1. DeadLetterWritable => copy[d].intact /\ copy[d].kind # "garbage"
      BY <1>0, <1>4 DEF BodyPreserved, JobsRouted
    <3> QED
      BY <1>1, <2>2, <2>3, <3>1 DEF BodyPreserved, DeadLetterWritable
  <2>11. Accounted(job[w].c)'
    <3>1. Live(c)'
      BY <2>2 DEF Live
    <3>2. copy'[c].msg = copy'[d].msg
      BY <1>0, <2>2, <2>3, <2>4
    <3>3. d' = d
      BY <1>1
    <3>4. PICK z \in Cid : z = d
      BY <1>0
    <3>5. Carries(c, z)'
      BY <3>1, <3>2, <3>4 DEF Carries
    <3>6. Accounted(z)'
      BY <2>4, <3>4, <3>5 DEF Accounted
    <3> QED
      BY <3>3, <3>4, <3>6
  <2>12. GoneAccounted' /\ AckAccounted'
    <3>1. \A x \in Cid : Live(x) => Live(x)'
      BY <2>2 DEF Live
    <3>2. \A x \in Cid : at'[x] = "gone" => at[x] = "gone"
      BY <2>2
    <3> QED
      BY <1>1, <1>2, <2>6, <2>11, <3>1, <3>2, NothingLeaves
  <2> QED
    BY <2>7, <2>8, <2>9, <2>10, <2>12
<1> QED
  BY <1>5, <1>6 DEF RepublishCopy

(* IInv is inductive.                                                       *)
LEMMA NextInv == IInv /\ [Next]_vars => IInv'
<1> SUFFICES ASSUME IInv, [Next]_vars PROVE IInv'
  OBVIOUS
<1>0. TypeOK'
  BY NextType DEF IInv
<1>1. ASSUME NEW m \in Msg, NEW kind \in T.kinds, Publish(m, kind) PROVE IInv'
  BY <1>0, <1>1, PublishStep
<1>2. ASSUME NEW w \in Worker, Work(w) PROVE IInv'
  BY <1>0, <1>2, ConsumeStep, HandBackStep, RepublishStep, SettlingStep DEF Work
<1>3. ASSUME NEW c \in Cid, Lapse(c) \/ BrokerDeadLetter(c) PROVE IInv'
  BY <1>0, <1>3, BrokerStep
<1>4. ASSUME NEW w \in Worker, Crash(w) PROVE IInv'
  BY <1>0, <1>4, SettlingStep
<1>5. CASE UNCHANGED vars
  <2>1. cfg' = cfg /\ at' = at /\ copy' = copy /\ pc' = pc /\ job' = job
        /\ deliveries' = deliveries /\ handled' = handled /\ dlq' = dlq /\ native' = native
    BY <1>5 DEF vars
  <2>2. KindsKept' /\ JobsRouted' /\ AttemptsCounted' /\ BodyPreserved'
    BY <2>1, RoutingStep
  <2>3. Grows
    BY <2>1 DEF Grows, IInv, TypeOK
  <2>4. GoneAccounted' /\ AckAccounted'
    BY <1>0, <2>1, <2>3, NothingLeaves DEF Live
  <2> QED
    BY <1>0, <2>2, <2>4 DEF IInv
<1> QED
  BY <1>1, <1>2, <1>3, <1>4, <1>5 DEF Next

(* NoLoss: for every set of workers, option, transport capability and       *)
(* number of faults, dispatch and its settling calls never let a message    *)
(* disappear that was neither handled nor dead-lettered, unless the options *)
(* say it may be dropped.                                                   *)
THEOREM NothingLost == Spec => []NoLoss
<1>1. IInv => NoLoss
  BY DEF IInv, GoneAccounted, Accounted, NoLoss
<1> QED
  BY <1>1, InitInv, NextInv, PTL DEF Spec

(* BodyPreserved: with a dead-letter queue to write, routePoison never lets *)
(* a retry replace a body by an empty envelope, on any transport.           *)
THEOREM BodiesPreserved == Spec => []BodyPreserved
<1>1. IInv => BodyPreserved
  BY DEF IInv
<1> QED
  BY <1>1, InitInv, NextInv, PTL DEF Spec

-----------------------------------------------------------------------------
(* EventsConfirmedUngated is kept by a step that calls the observer only    *)
(* for a dead-letter it carries out.                                        *)
LEMMA EventsKept ==
  ASSUME TypeOK, TypeOK', EventsConfirmedUngated, cfg' = cfg,
         ~T.deadLetterer => \A m \in Msg :
           /\ dlq[m] <= dlq'[m] /\ native[m] <= native'[m]
           /\ \/ events'[m] = events[m]
              \/ events'[m] = events[m] + 1 /\ dlq'[m] + native'[m] > dlq[m] + native[m]
  PROVE  EventsConfirmedUngated'
<1> SUFFICES ASSUME ~T.deadLetterer, NEW m \in Msg
             PROVE  events'[m] <= dlq'[m] + native'[m]
  BY DEF EventsConfirmedUngated, T
<1>1. /\ events[m] \in Nat /\ dlq[m] \in Nat /\ native[m] \in Nat
      /\ dlq'[m] \in Nat /\ native'[m] \in Nat
  BY DEF TypeOK
<1>2. events[m] <= dlq[m] + native[m]
  BY DEF EventsConfirmedUngated
<1>3. dlq[m] <= dlq'[m] /\ native[m] <= native'[m]
  OBVIOUS
<1>4. CASE events'[m] = events[m]
  BY <1>1, <1>2, <1>3, <1>4
<1>5. CASE events'[m] = events[m] + 1 /\ dlq'[m] + native'[m] > dlq[m] + native[m]
  BY <1>1, <1>2, <1>5
<1> QED
  BY <1>4, <1>5

(* EventsConfirmedUngated is inductive, given TypeOK.                       *)
LEMMA NextEvents == TypeOK /\ TypeOK' /\ EventsConfirmedUngated /\ [Next]_vars
                      => EventsConfirmedUngated'
<1> SUFFICES ASSUME TypeOK, TypeOK', EventsConfirmedUngated, [Next]_vars
             PROVE  EventsConfirmedUngated'
  OBVIOUS
<1>0. \A m \in Msg : events[m] \in Nat /\ dlq[m] \in Nat /\ native[m] \in Nat
  BY DEF TypeOK
<1>1. CASE UNCHANGED <<cfg, dlq, native, events>>
  BY <1>0, <1>1, EventsKept
<1>2. ASSUME NEW w \in Worker, DeadLetterRepublish(w) PROVE EventsConfirmedUngated'
  <2>1. cfg' = cfg /\ native' = native /\ MsgOf(w) \in Msg
    BY <1>2, JobType DEF DeadLetterRepublish
  <2>2. \/ dlq' = [dlq EXCEPT ![MsgOf(w)] = @ + 1]
           /\ (events' = events \/ events' = [events EXCEPT ![MsgOf(w)] = @ + 1])
        \/ dlq' = dlq /\ events' = events
    BY <1>2 DEF DeadLetterRepublish, Bump
  <2>3. \A m \in Msg :
           /\ dlq[m] <= dlq'[m]
           /\ events'[m] = events[m] \/ (events'[m] = events[m] + 1 /\ dlq'[m] > dlq[m])
    BY <1>0, <2>1, <2>2 DEF TypeOK
  <2>4. \A m \in Msg : dlq'[m] \in Nat
    BY DEF TypeOK
  <2> QED
    BY <1>0, <2>1, <2>3, <2>4, EventsKept
<1>3. ASSUME NEW w \in Worker, SettleNative(w) PROVE EventsConfirmedUngated'
  <2>1. cfg' = cfg /\ dlq' = dlq /\ MsgOf(w) \in Msg
    BY <1>3, JobType DEF SettleNative
  <2>2. \/ native' = [native EXCEPT ![MsgOf(w)] = @ + 1]
           /\ (events' = events \/ events' = [events EXCEPT ![MsgOf(w)] = @ + 1])
        \/ native' = native /\ events' = events
    BY <1>3 DEF SettleNative, Bump
  <2>3. \A m \in Msg :
           /\ native[m] <= native'[m]
           /\ events'[m] = events[m] \/ (events'[m] = events[m] + 1 /\ native'[m] > native[m])
    BY <1>0, <2>1, <2>2 DEF TypeOK
  <2>4. \A m \in Msg : native'[m] \in Nat
    BY DEF TypeOK
  <2> QED
    BY <1>0, <2>1, <2>3, <2>4, EventsKept
<1>4. ASSUME NEW c \in Cid, BrokerDeadLetter(c) PROVE EventsConfirmedUngated'
  <2>1. /\ cfg' = cfg /\ dlq' = dlq /\ events' = events
        /\ native' = [native EXCEPT ![copy[c].msg] = @ + 1]
    BY <1>4 DEF BrokerDeadLetter
  <2>2. \A m \in Msg : native[m] <= native'[m]
    BY <1>0, <2>1 DEF TypeOK
  <2> QED
    BY <1>0, <2>1, <2>2, EventsKept
<1>5. ASSUME NEW w \in Worker, DeadLetterGated(w) PROVE EventsConfirmedUngated'
  BY <1>5 DEF DeadLetterGated, EventsConfirmedUngated, T
<1>6. ASSUME NEW w \in Worker,
             (\E c \in Cid : Consume(w, c)) \/ Handle(w) \/ Ack(w) \/ Release(w)
               \/ RepublishCopy(w) \/ Rewind(w) \/ Crash(w)
      PROVE  UNCHANGED <<cfg, dlq, native, events>>
  BY <1>6 DEF Consume, Handle, Ack, Release, RepublishCopy, Rewind, Crash, history
<1>7. ASSUME (\E m \in Msg, kind \in T.kinds : Publish(m, kind)) \/ (\E c \in Cid : Lapse(c))
               \/ UNCHANGED vars
      PROVE  UNCHANGED <<cfg, dlq, native, events>>
  BY <1>7 DEF Publish, Lapse, vars, history
<1> QED
  BY <1>1, <1>2, <1>3, <1>4, <1>5, <1>6, <1>7 DEF Next, Work

(* EventsConfirmedUngated: on every transport without a gated dead-letter,  *)
(* deadLetterRaw and settleNative call the observer at most as often as     *)
(* messages were dead-lettered, whatever reply is lost or lease lapses.     *)
THEOREM EventsConfirmed == Spec => []EventsConfirmedUngated
<1>1. Init => EventsConfirmedUngated
  BY DEF Init, EventsConfirmedUngated, Zero
<1> QED
  BY <1>1, InitType, NextType, NextEvents, PTL DEF Spec

-----------------------------------------------------------------------------
(* The counters of a message's ends are numbers.                            *)
LEMMA EndedType ==
  ASSUME TypeOK, NEW m \in Msg
  PROVE  /\ Ended(m) \in Nat /\ deliveries[m] \in Nat
         /\ handled[m] \in Nat /\ dlq[m] \in Nat /\ native[m] \in Nat
BY DEF TypeOK, Ended

(* Before a fault, the copy a worker has not finished with is open, and no  *)
(* other worker has it.                                                     *)
LEMMA WorkerOpen ==
  ASSUME IInv, Quiet, NEW w \in Worker, pc[w] # "idle"
  PROVE  /\ at[job[w].c] = "reserved" /\ copy[job[w].c].count = job[w].count
         /\ \A v \in Worker : v # w /\ pc[v] # "idle" => job[v].c # job[w].c
         /\ pc[w] # "ack" => Open(job[w].c)
<1>1. at[job[w].c] = "reserved" /\ copy[job[w].c].count = job[w].count
  BY DEF Quiet, HeldCurrent, Current
<1>2. \A v \in Worker : v # w /\ pc[v] # "idle" => job[v].c # job[w].c
  BY DEF Quiet, HeldCurrent
<1>3. ASSUME pc[w] # "ack" PROVE Open(job[w].c)
  BY <1>1, <1>2, <1>3 DEF Open, Live
<1> QED
  BY <1>1, <1>2, <1>3

(* Before a fault, a ready copy is open and nobody's.                       *)
LEMMA ReadyOpen ==
  ASSUME IInv, Quiet, NEW c \in Cid, at[c] = "ready"
  PROVE  Open(c) /\ \A v \in Worker : pc[v] # "idle" => job[v].c # c
<1>1. \A v \in Worker : pc[v] # "idle" => job[v].c # c
  BY DEF Quiet, HeldCurrent, Current
<1> QED
  BY <1>1 DEF Open, Live

(* A worker's own step: it changes its copy z and moves on to step.  What   *)
(* it must not do: leave z in force under another step's terms, end the     *)
(* message and leave z open, or lose count.                                 *)
OwnMove(w, z, step) ==
  /\ pc[w] # "idle" /\ pc' = [pc EXCEPT ![w] = step] /\ step # "rewind"
  /\ cfg' = cfg /\ job' = job /\ deliveries' = deliveries
  /\ z = job[w].c /\ at'[z] \in {"ready", "reserved", "gone"}
  /\ \A x \in Cid : x # z => at'[x] = at[x] /\ copy'[x] = copy[x]
  /\ copy'[z].msg = copy[z].msg /\ copy'[z].kind = copy[z].kind /\ copy'[z].count = copy[z].count
  /\ step # "idle" => at'[z] = "reserved"
  /\ pc[w] = "ack" => at'[z] = "gone"
  /\ \A m \in Msg :
       \/ Ended(m)' = Ended(m)
       \/ /\ m = copy[z].msg /\ pc[w] # "ack" /\ Ended(m)' = Ended(m) + 1
          /\ at'[z] = "gone" \/ step = "ack"
  /\ at'[z] = "reserved" /\ step = "idle" => ~HasHandler(z)
  /\ step \in {"native", "requeue"} => ~HasHandler(z)
  /\ T.release = "inPlace" => copy'[z].attempts = copy[z].attempts
  /\ HasHandler(z) /\ at'[z] = "ready" =>
       deliveries[copy[z].msg] <= NextAttempts(z)' /\ NextAttempts(z)' < cfg.maxAttempts
  /\ step \in {"handle", "retry"} /\ HasHandler(z) =>
       /\ pc[w] \in {"handle", "retry"} /\ copy'[z] = copy[z]
       /\ step = "retry" => job[w].attempts + 1 < cfg.maxAttempts

(* Such a step keeps the invariant.                                         *)
LEMMA OwnStep ==
  ASSUME IInv, Quiet, TypeOK', NEW w \in Worker, NEW z \in Cid, NEW step, OwnMove(w, z, step)
  PROVE  Quiet'
<1> USE DEF OwnMove
<1> USE DEF IInv
<1>1. /\ at[z] = "reserved" /\ copy[z].count = job[w].count
      /\ \A v \in Worker : v # w /\ pc[v] # "idle" => job[v].c # z
      /\ pc[w] # "ack" => Open(z)
  BY WorkerOpen
<1>2. pc'[w] = step /\ \A v \in Worker : v # w => pc'[v] = pc[v]
  BY DEF TypeOK
<1>3. /\ \A x \in Cid : at'[x] # "free" <=> at[x] # "free"
      /\ \A x \in Cid : copy'[x].msg = copy[x].msg /\ copy'[x].kind = copy[x].kind
      /\ \A x \in Cid : copy[x].msg \in Msg
      /\ \A v \in Worker : job[v].c \in Cid
  BY <1>1, JobType DEF TypeOK, Copy
<1>4. HeldCurrent'
  <2>1. ASSUME NEW v \in Worker, pc'[v] # "idle" PROVE Current(v)' /\ pc'[v] # "rewind"
    <3>1. CASE v = w
      BY <1>1, <1>2, <2>1, <3>1 DEF Current
    <3>2. CASE v # w
      <4>1. job[v].c # z /\ job[v].c \in Cid
        BY <1>1, <1>2, <1>3, <2>1, <3>2
      <4> QED
        BY <1>2, <2>1, <3>2, <4>1 DEF Quiet, HeldCurrent, Current
    <3> QED
      BY <3>1, <3>2
  <2>2. \A v \in Worker : pc'[v] # "idle" => pc[v] # "idle"
    BY <1>2
  <2>3. \A v, u \in Worker : v # u /\ pc'[v] # "idle" /\ pc'[u] # "idle" => job'[v].c # job'[u].c
    BY <2>2 DEF Quiet, HeldCurrent
  <2> QED
    BY <2>1, <2>3 DEF HeldCurrent
<1>5. ASSUME NEW x \in Cid, Open(x)' PROVE Open(x)
  <2>1. CASE x = z
    <3>1. at'[z] # "gone"
      BY <1>5, <2>1 DEF Open, Live
    <3> QED
      BY <1>1, <2>1, <3>1
  <2>2. CASE x # z
    <3>1. Live(x)
      BY <1>5, <2>2 DEF Open, Live
    <3>2. \A v \in Worker : pc[v] = "ack" => job[v].c # x
      BY <1>2, <1>5, <2>2 DEF Open
    <3> QED
      BY <3>1, <3>2 DEF Open
  <2> QED
    BY <2>1, <2>2
<1>6. (at'[z] = "gone" \/ step = "ack") => ~Open(z)'
  BY <1>2 DEF Open, Live
<1>7. OneOpen'
  <2>1. \A c, x \in Cid : Open(c)' /\ Open(x)' /\ copy'[c].msg = copy'[x].msg => c = x
    BY <1>3, <1>5 DEF Quiet, OneOpen
  <2>2. ASSUME NEW c \in Cid, Open(c)' PROVE (Ended(copy[c].msg) = 0)'
    <3>1. PICK m \in Msg : m = copy[c].msg /\ m = copy'[c].msg
      BY <1>3
    <3>2. Open(c) /\ Ended(m) = 0
      BY <1>5, <2>2, <3>1 DEF Quiet, OneOpen
    <3>3. Ended(m)' = 0
      <4>1. CASE Ended(m)' = Ended(m)
        BY <3>2, <4>1
      <4>2. CASE m = copy[z].msg /\ pc[w] # "ack" /\ (at'[z] = "gone" \/ step = "ack")
        <5>1. Open(z) /\ ~Open(z)'
          BY <1>1, <1>6, <4>2
        <5>2. c = z
          BY <3>1, <3>2, <4>2, <5>1 DEF Quiet, OneOpen
        <5> QED
          BY <2>2, <5>1, <5>2
      <4> QED
        BY <4>1, <4>2
    <3> QED
      BY <3>1, <3>3 DEF Ended
  <2>3. ASSUME NEW m \in Msg PROVE Ended(m)' <= 1
    <3>1. CASE Ended(m)' = Ended(m)
      BY <3>1 DEF Quiet, OneOpen
    <3>2. CASE m = copy[z].msg /\ pc[w] # "ack" /\ Ended(m)' = Ended(m) + 1
      <4>1. Ended(m) = 0
        BY <1>1, <3>2 DEF Quiet, OneOpen
      <4> QED
        BY <3>2, <4>1
    <3> QED
      BY <3>1, <3>2
  <2> QED
    BY <2>1, <2>2, <2>3 DEF OneOpen
<1>8. NothingBefore'
  <2> SUFFICES ASSUME NEW m \in Msg, \A c \in Cid : at'[c] # "free" => copy'[c].msg # m
               PROVE  Ended(m)' = 0 /\ deliveries'[m] = 0
    BY DEF NothingBefore
  <2>1. \A c \in Cid : at[c] # "free" => copy[c].msg # m
    BY <1>3
  <2>2. Ended(m) = 0 /\ deliveries[m] = 0 /\ m # copy[z].msg
    BY <1>1, <2>1 DEF Quiet, NothingBefore
  <2> QED
    BY <2>2
<1>9. \A x \in Cid : HasHandler(x)' <=> HasHandler(x)
  BY <1>3 DEF HasHandler
<1>10. HandledHeld'
  <2>1. ASSUME NEW c \in Cid, HasHandler(c)', at'[c] = "reserved"
        PROVE  \E v \in Worker : pc'[v] # "idle" /\ job'[v].c = c
    <3>1. CASE c = z
      BY <1>2, <1>9, <2>1, <3>1
    <3>2. CASE c # z
      <4>1. PICK v \in Worker : pc[v] # "idle" /\ job[v].c = c
        BY <1>9, <2>1, <3>2 DEF Quiet, HandledHeld
      <4> QED
        BY <1>2, <3>2, <4>1
    <3> QED
      BY <3>1, <3>2
  <2>2. ASSUME NEW v \in Worker, pc'[v] \in {"native", "requeue"}
        PROVE  (~HasHandler(job[v].c))'
    <3>1. PICK k \in Cid : k = job[v].c /\ k = job'[v].c
      BY <1>3
    <3>2. ~HasHandler(k)
      BY <1>2, <2>2, <3>1 DEF Quiet, HandledHeld
    <3>3. ~HasHandler(k)'
      BY <1>9, <3>2
    <3> QED
      BY <3>1, <3>3 DEF HasHandler
  <2> QED
    BY <2>1, <2>2 DEF HandledHeld
<1>11. DeliveriesCounted'
  <2>1. T' = T
    BY DEF T
  <2>2. T'.release = "inPlace" => \A c \in Cid : at'[c] # "free" => copy'[c].attempts = 0
    BY <1>3, <2>1 DEF Quiet, DeliveriesCounted
  <2>3. \A c \in Cid : HasHandler(c)' => Bounded(c)'
    BY <1>3, <1>9 DEF Quiet, DeliveriesCounted, Bounded
  <2>4. ASSUME NEW c \in Cid, HasHandler(c)', at'[c] = "ready"
        PROVE  /\ deliveries'[copy'[c].msg] <= NextAttempts(c)'
               /\ deliveries'[copy'[c].msg] = 0 \/ NextAttempts(c)' < cfg'.maxAttempts
    <3>1. CASE c = z
      BY <1>3, <1>9, <2>4, <3>1
    <3>2. CASE c # z
      <4>1. NextAttempts(c)' = NextAttempts(c) /\ at[c] = "ready"
        BY <2>1, <2>4, <3>2 DEF NextAttempts, Floor, Counted
      <4> QED
        BY <1>3, <1>9, <2>4, <4>1 DEF Quiet, DeliveriesCounted
    <3> QED
      BY <3>1, <3>2
  <2>5. ASSUME NEW v \in Worker, (pc[v] \in {"handle", "retry"} /\ HasHandler(job[v].c))'
        PROVE  /\ (job[v].attempts = Floor(copy[job[v].c].kind, copy[job[v].c].attempts,
                                           job[v].count))'
               /\ (deliveries[MsgOf(v)] <= job[v].attempts + 1)'
               /\ (pc[v] = "retry" => job[v].attempts + 1 < cfg.maxAttempts)'
    <3>1. PICK k \in Cid : k = job[v].c /\ k = job'[v].c
      BY <1>3
    <3>2. HasHandler(k)
      <4>1. HasHandler(k)'
        BY <2>5, <3>1 DEF HasHandler
      <4> QED
        BY <1>9, <4>1
    <3>3. pc[v] \in {"handle", "retry"} /\ copy'[k] = copy[k]
      <4>1. CASE v = w
        BY <1>2, <2>5, <3>1, <3>2, <4>1
      <4>2. CASE v # w
        BY <1>1, <1>2, <2>5, <3>1, <4>2
      <4> QED
        BY <4>1, <4>2
    <3>4. /\ job[v].attempts = Floor(copy[k].kind, copy[k].attempts, job[v].count)
          /\ deliveries[copy[k].msg] <= job[v].attempts + 1
          /\ pc[v] = "retry" => job[v].attempts + 1 < cfg.maxAttempts
      BY <3>1, <3>2, <3>3 DEF Quiet, DeliveriesCounted, MsgOf
    <3>5. pc'[v] = "retry" => job[v].attempts + 1 < cfg.maxAttempts
      BY <1>2, <2>5, <3>1, <3>2, <3>4
    <3> QED
      BY <2>1, <3>1, <3>3, <3>4, <3>5 DEF Floor, Counted, MsgOf
  <2> QED
    BY <2>2, <2>3, <2>4, <2>5 DEF DeliveriesCounted
<1> QED
  BY <1>4, <1>7, <1>8, <1>10, <1>11 DEF Quiet

(* Dispatch hands a body with a handler to it, and always gives the worker  *)
(* something to do other than a rewind.                                     *)
LEMMA DispatchHandled ==
  ASSUME NEW kind, NEW attempts
  PROVE  /\ Dispatch(kind, attempts) \notin {"idle", "rewind"}
         /\ kind \in {"known", "routed"} => Dispatch(kind, attempts) = "handle"
BY DEF Dispatch, RetryOrDeadLetter, RoutePoison, RouteUnknown, SettleVersionGated

(* The floor of an attempt count is a count, and at least the last one.     *)
LEMMA FloorType ==
  ASSUME NEW kind, NEW attempts \in Nat, NEW count \in Nat
  PROVE  /\ Floor(kind, attempts, count) \in Nat
         /\ attempts <= Floor(kind, attempts, count)
         /\ count = 1 => Floor(kind, attempts, count) = attempts
BY DEF Floor

(* A delivery taken by an idle worker: the copy was nobody's, its message   *)
(* has no other open copy, and its attempts cover the deliveries so far.    *)
LEMMA ConsumeQuiet ==
  ASSUME IInv, Quiet, TypeOK', NEW w \in Worker, NEW z \in Cid, Consume(w, z)
  PROVE  Quiet'
<1> USE DEF IInv
<1>1. PICK m \in Msg : m = copy[z].msg
  BY DEF TypeOK, Copy
<1>2. PICK n \in Nat : n = copy[z].count + 1
  BY DEF TypeOK, Copy
<1>3. copy[z].attempts \in Nat /\ copy[z].count \in Nat /\ deliveries[m] \in Nat
  BY DEF TypeOK, Copy
<1>4. PICK a \in Nat : a = Floor(copy[z].kind, copy[z].attempts, n)
  BY <1>2, <1>3, FloorType
<1>5. /\ pc[w] = "idle" /\ at[z] = "ready" /\ at'[z] = "reserved"
      /\ \A x \in Cid : x # z => at'[x] = at[x] /\ copy'[x] = copy[x]
      /\ cfg' = cfg /\ handled' = handled /\ dlq' = dlq /\ native' = native
      /\ deliveries'[m] = deliveries[m] + 1
      /\ \A k \in Msg : k # m => deliveries'[k] = deliveries[k]
  BY <1>1, <1>3 DEF Consume, TypeOK
<1>6. /\ copy'[z].msg = m /\ copy'[z].kind = copy[z].kind
      /\ copy'[z].attempts = copy[z].attempts /\ copy'[z].count = n
  BY <1>1, <1>2 DEF Consume, TypeOK, Copy
<1>7. /\ \A v \in Worker : v # w => pc'[v] = pc[v] /\ job'[v] = job[v]
      /\ pc'[w] = Dispatch(copy[z].kind, a)
      /\ job'[w].c = z /\ job'[w].count = n /\ job'[w].attempts = a
  BY <1>2, <1>4 DEF Consume, Goto, TypeOK
<1>8. /\ \A x \in Cid : at'[x] # "free" <=> at[x] # "free"
      /\ \A x \in Cid : copy'[x].msg = copy[x].msg /\ copy'[x].kind = copy[x].kind
                        /\ copy'[x].attempts = copy[x].attempts
      /\ \A x \in Cid : copy[x].msg \in Msg
      /\ \A v \in Worker : job[v].c \in Cid
  BY <1>1, <1>5, <1>6, JobType DEF TypeOK, Copy
<1>9. Open(z) /\ \A v \in Worker : pc[v] # "idle" => job[v].c # z
  BY <1>5, ReadyOpen
<1>10. \A x \in Cid : HasHandler(x)' <=> HasHandler(x)
  BY <1>8 DEF HasHandler
<1>11. T' = T
  BY <1>5 DEF T
<1>12. \A k \in Msg : Ended(k)' = Ended(k)
  BY <1>5 DEF Ended
<1>13. pc'[w] \notin {"idle", "rewind"} /\ (HasHandler(z) => pc'[w] = "handle")
  BY <1>7, DispatchHandled DEF HasHandler
<1>14. HeldCurrent'
  <2>1. ASSUME NEW v \in Worker, pc'[v] # "idle" PROVE Current(v)' /\ pc'[v] # "rewind"
    <3>1. CASE v = w
      BY <1>5, <1>6, <1>7, <1>13, <3>1 DEF Current
    <3>2. CASE v # w
      <4>1. job[v].c # z /\ job[v].c \in Cid
        BY <1>7, <1>8, <1>9, <2>1, <3>2
      <4> QED
        BY <1>5, <1>7, <2>1, <3>2, <4>1 DEF Quiet, HeldCurrent, Current
    <3> QED
      BY <3>1, <3>2
  <2>2. ASSUME NEW v \in Worker, NEW u \in Worker, v # u, pc'[v] # "idle", pc'[u] # "idle"
        PROVE  job'[v].c # job'[u].c
    BY <1>7, <1>9, <2>2 DEF Quiet, HeldCurrent
  <2> QED
    BY <2>1, <2>2 DEF HeldCurrent
<1>15. ASSUME NEW x \in Cid, Open(x)' PROVE Open(x)
  <2>1. CASE x = z
    BY <1>9, <2>1
  <2>2. CASE x # z
    <3>1. Live(x)
      BY <1>5, <1>15, <2>2 DEF Open, Live
    <3>2. \A v \in Worker : pc[v] = "ack" => job[v].c # x
      BY <1>5, <1>7, <1>15 DEF Open
    <3> QED
      BY <3>1, <3>2 DEF Open
  <2> QED
    BY <2>1, <2>2
<1>16. OneOpen'
  <2>1. \A c, x \in Cid : Open(c)' /\ Open(x)' /\ copy'[c].msg = copy'[x].msg => c = x
    BY <1>8, <1>15 DEF Quiet, OneOpen
  <2>2. ASSUME NEW c \in Cid, Open(c)' PROVE (Ended(copy[c].msg) = 0)'
    <3>1. PICK k \in Msg : k = copy[c].msg /\ k = copy'[c].msg
      BY <1>8
    <3>2. Ended(k)' = 0
      BY <1>12, <1>15, <2>2, <3>1 DEF Quiet, OneOpen
    <3> QED
      BY <3>1, <3>2 DEF Ended
  <2>3. \A k \in Msg : Ended(k)' <= 1
    BY <1>12 DEF Quiet, OneOpen
  <2> QED
    BY <2>1, <2>2, <2>3 DEF OneOpen
<1>17. NothingBefore'
  <2> SUFFICES ASSUME NEW k \in Msg, \A c \in Cid : at'[c] # "free" => copy'[c].msg # k
               PROVE  Ended(k)' = 0 /\ deliveries'[k] = 0
    BY DEF NothingBefore
  <2>1. \A c \in Cid : at[c] # "free" => copy[c].msg # k
    BY <1>8
  <2>2. Ended(k) = 0 /\ deliveries[k] = 0 /\ k # m
    BY <1>1, <1>5, <2>1 DEF Quiet, NothingBefore
  <2> QED
    BY <1>5, <1>12, <2>2
<1>18. HandledHeld'
  <2>1. ASSUME NEW c \in Cid, HasHandler(c)', at'[c] = "reserved"
        PROVE  \E v \in Worker : pc'[v] # "idle" /\ job'[v].c = c
    <3>1. CASE c = z
      BY <1>7, <1>13, <3>1
    <3>2. CASE c # z
      <4>1. PICK v \in Worker : pc[v] # "idle" /\ job[v].c = c
        BY <1>5, <1>10, <2>1, <3>2 DEF Quiet, HandledHeld
      <4> QED
        BY <1>5, <1>7, <4>1
    <3> QED
      BY <3>1, <3>2
  <2>2. ASSUME NEW v \in Worker, pc'[v] \in {"native", "requeue"}
        PROVE  (~HasHandler(job[v].c))'
    <3>1. PICK k \in Cid : k = job'[v].c
      BY <1>7, <1>8
    <3>2. ~HasHandler(k)
      <4>1. CASE v = w
        BY <1>7, <1>13, <2>2, <3>1, <4>1
      <4>2. CASE v # w
        BY <1>7, <2>2, <3>1, <4>2 DEF Quiet, HandledHeld
      <4> QED
        BY <4>1, <4>2
    <3>3. ~HasHandler(k)'
      BY <1>10, <3>2
    <3> QED
      BY <3>1, <3>3 DEF HasHandler
  <2> QED
    BY <2>1, <2>2 DEF HandledHeld
<1>19. HasHandler(z) => /\ deliveries[m] <= a
                        /\ deliveries[m] = 0 \/ a < cfg.maxAttempts
  BY <1>1, <1>2, <1>4, <1>5 DEF Quiet, DeliveriesCounted, NextAttempts
<1>20. cfg.maxAttempts \in Nat
  BY ConfigsAssumption DEF TypeOK, Config
<1>21. DeliveriesCounted'
  <2>1. T'.release = "inPlace" => \A c \in Cid : at'[c] # "free" => copy'[c].attempts = 0
    BY <1>8, <1>11 DEF Quiet, DeliveriesCounted
  <2>2. ASSUME NEW c \in Cid, HasHandler(c)' PROVE Bounded(c)'
    <3>1. CASE copy[c].msg = m
      <4>1. HasHandler(c)
        BY <1>10, <2>2
      <4>2. HasHandler(z)
        BY <1>1, <1>5, <3>1, <4>1 DEF KindsKept, SameClass, HasHandler
      <4> QED
        BY <1>3, <1>5, <1>8, <1>19, <1>20, <3>1, <4>2 DEF Bounded
    <3>2. CASE copy[c].msg # m
      <4>1. Bounded(c)
        BY <1>10, <2>2 DEF Quiet, DeliveriesCounted
      <4> QED
        BY <1>5, <1>8, <3>2, <4>1 DEF Bounded
    <3> QED
      BY <3>1, <3>2
  <2>3. ASSUME NEW c \in Cid, HasHandler(c)', at'[c] = "ready"
        PROVE  /\ deliveries'[copy'[c].msg] <= NextAttempts(c)'
               /\ deliveries'[copy'[c].msg] = 0 \/ NextAttempts(c)' < cfg'.maxAttempts
    <3>1. c # z /\ at[c] = "ready" /\ HasHandler(c)
      BY <1>5, <1>10, <2>3
    <3>2. copy[c].msg # m
      BY <1>1, <1>9, <3>1, ReadyOpen DEF Quiet, OneOpen
    <3>3. NextAttempts(c)' = NextAttempts(c)
      BY <1>5, <1>11, <3>1 DEF NextAttempts, Floor, Counted
    <3> QED
      BY <1>5, <1>8, <3>1, <3>2, <3>3 DEF Quiet, DeliveriesCounted
  <2>4. ASSUME NEW v \in Worker, (pc[v] \in {"handle", "retry"} /\ HasHandler(job[v].c))'
        PROVE  /\ (job[v].attempts = Floor(copy[job[v].c].kind, copy[job[v].c].attempts,
                                           job[v].count))'
               /\ (deliveries[MsgOf(v)] <= job[v].attempts + 1)'
               /\ (pc[v] = "retry" => job[v].attempts + 1 < cfg.maxAttempts)'
    <3>1. PICK k \in Cid : k = job'[v].c
      BY <1>7, <1>8
    <3>2. HasHandler(k)
      <4>1. HasHandler(k)'
        BY <2>4, <3>1 DEF HasHandler
      <4> QED
        BY <1>10, <4>1
    <3>3. CASE v = w
      <4>1. k = z /\ pc'[w] = "handle"
        BY <1>7, <1>13, <3>1, <3>2, <3>3
      <4>2. deliveries'[m] <= a + 1
        BY <1>3, <1>5, <1>19, <3>2, <4>1
      <4> QED
        BY <1>4, <1>5, <1>6, <1>7, <1>11, <3>3, <4>1, <4>2 DEF Floor, Counted, MsgOf
    <3>4. CASE v # w
      <4>1. pc[v] \in {"handle", "retry"} /\ job[v].c = k /\ job'[v] = job[v] /\ pc'[v] = pc[v]
        BY <1>7, <2>4, <3>1, <3>4
      <4>2. k # z /\ Open(k)
        BY <1>9, <4>1, WorkerOpen
      <4>3. copy[k].msg # m
        BY <1>1, <1>9, <4>2 DEF Quiet, OneOpen
      <4>4. copy'[k] = copy[k] /\ deliveries'[copy[k].msg] = deliveries[copy[k].msg]
        BY <1>5, <1>8, <4>2, <4>3
      <4>5. /\ job[v].attempts = Floor(copy[k].kind, copy[k].attempts, job[v].count)
            /\ deliveries[copy[k].msg] <= job[v].attempts + 1
            /\ pc[v] = "retry" => job[v].attempts + 1 < cfg.maxAttempts
        BY <3>2, <4>1 DEF Quiet, DeliveriesCounted, MsgOf
      <4> QED
        BY <1>5, <1>11, <3>1, <4>1, <4>4, <4>5 DEF Floor, Counted, MsgOf
    <3> QED
      BY <3>3, <3>4
  <2> QED
    BY <2>1, <2>2, <2>3, <2>4 DEF DeliveriesCounted
<1> QED
  BY <1>14, <1>16, <1>17, <1>18, <1>21 DEF Quiet

(* A new copy on the queue, published for a message that has no other open  *)
(* copy and has not ended, and carrying enough attempts.                    *)
LEMMA NewCopyQuiet ==
  ASSUME IInv, Quiet, TypeOK', NEW z \in Cid, NEW m \in Msg,
         at[z] = "free", at'[z] = "ready", copy'[z].msg = m,
         \A x \in Cid : x # z => at'[x] = at[x] /\ copy'[x] = copy[x],
         cfg' = cfg, job' = job, deliveries' = deliveries,
         handled' = handled, dlq' = dlq, native' = native,
         \A v \in Worker : \/ pc'[v] = pc[v]
                           \/ pc'[v] = "ack" /\ pc[v] # "idle",
         \A x \in Cid : x # z /\ Open(x)' => copy[x].msg # m,
         Ended(m) = 0,
         T.release = "inPlace" => copy'[z].attempts = 0,
         HasHandler(z)' => /\ deliveries[m] <= 1 \/ deliveries[m] <= cfg.maxAttempts
                           /\ deliveries[m] <= NextAttempts(z)'
                           /\ deliveries[m] = 0 \/ NextAttempts(z)' < cfg.maxAttempts
  PROVE  Quiet'
<1> USE DEF IInv
<1>1. /\ \A x \in Cid : at[x] # "free" => x # z /\ at'[x] # "free"
      /\ \A x \in Cid : copy[x].msg \in Msg /\ copy'[x].msg \in Msg
      /\ \A v \in Worker : job[v].c \in Cid
  BY JobType DEF TypeOK, Copy
<1>2. \A v \in Worker : pc[v] # "idle" =>
        at[job[v].c] = "reserved" /\ job[v].c # z /\ copy'[job[v].c] = copy[job[v].c]
        /\ at'[job[v].c] = "reserved" /\ copy[job[v].c].count = job[v].count
  BY <1>1, WorkerOpen
<1>3. \A x \in Cid : x # z => (HasHandler(x)' <=> HasHandler(x))
  BY DEF HasHandler
<1>4. T' = T
  BY DEF T
<1>5. \A k \in Msg : Ended(k)' = Ended(k)
  BY DEF Ended
<1>6. HeldCurrent'
  <2>1. \A v \in Worker : pc'[v] # "idle" => Current(v)' /\ pc'[v] # "rewind"
    BY <1>2 DEF Quiet, HeldCurrent, Current
  <2>2. \A v, u \in Worker : v # u /\ pc'[v] # "idle" /\ pc'[u] # "idle" => job'[v].c # job'[u].c
    BY DEF Quiet, HeldCurrent
  <2> QED
    BY <2>1, <2>2 DEF HeldCurrent
<1>7. ASSUME NEW x \in Cid, x # z, Open(x)' PROVE Open(x)
  <2>1. Live(x)
    BY <1>7 DEF Open, Live
  <2>2. \A v \in Worker : pc[v] = "ack" => job[v].c # x
    BY <1>7 DEF Open
  <2> QED
    BY <2>1, <2>2 DEF Open
<1>8. OneOpen'
  <2>1. \A c, x \in Cid : Open(c)' /\ Open(x)' /\ copy'[c].msg = copy'[x].msg => c = x
    BY <1>7 DEF Quiet, OneOpen
  <2>2. ASSUME NEW c \in Cid, Open(c)' PROVE (Ended(copy[c].msg) = 0)'
    <3>1. PICK k \in Msg : k = copy'[c].msg
      BY <1>1
    <3>2. Ended(k) = 0
      BY <1>7, <2>2, <3>1 DEF Quiet, OneOpen
    <3>3. Ended(k)' = 0
      BY <1>5, <3>2
    <3> QED
      BY <3>1, <3>3 DEF Ended
  <2>3. \A k \in Msg : Ended(k)' <= 1
    BY <1>5 DEF Quiet, OneOpen
  <2> QED
    BY <2>1, <2>2, <2>3 DEF OneOpen
<1>9. NothingBefore'
  <2> SUFFICES ASSUME NEW k \in Msg, \A c \in Cid : at'[c] # "free" => copy'[c].msg # k
               PROVE  Ended(k)' = 0 /\ deliveries'[k] = 0
    BY DEF NothingBefore
  <2>1. \A c \in Cid : at[c] # "free" => copy[c].msg # k
    BY <1>1
  <2> QED
    BY <1>5, <2>1 DEF Quiet, NothingBefore
<1>10. HandledHeld'
  <2>1. \A c \in Cid : HasHandler(c)' /\ at'[c] = "reserved"
          => \E v \in Worker : pc'[v] # "idle" /\ job'[v].c = c
    BY <1>3 DEF Quiet, HandledHeld
  <2>2. ASSUME NEW v \in Worker, pc'[v] \in {"native", "requeue"}
        PROVE  (~HasHandler(job[v].c))'
    <3>1. PICK k \in Cid : k = job[v].c /\ k # z
      BY <1>1, <1>2, <2>2
    <3>2. ~HasHandler(k)'
      BY <1>3, <2>2, <3>1 DEF Quiet, HandledHeld
    <3> QED
      BY <3>1, <3>2 DEF HasHandler
  <2> QED
    BY <2>1, <2>2 DEF HandledHeld
<1>11. DeliveriesCounted'
  <2>1. T'.release = "inPlace" => \A c \in Cid : at'[c] # "free" => copy'[c].attempts = 0
    BY <1>4 DEF Quiet, DeliveriesCounted
  <2>2. \A c \in Cid : HasHandler(c)' => Bounded(c)'
    BY <1>3 DEF Quiet, DeliveriesCounted, Bounded
  <2>3. ASSUME NEW c \in Cid, HasHandler(c)', at'[c] = "ready"
        PROVE  /\ deliveries'[copy'[c].msg] <= NextAttempts(c)'
               /\ deliveries'[copy'[c].msg] = 0 \/ NextAttempts(c)' < cfg'.maxAttempts
    <3>1. CASE c = z
      BY <2>3, <3>1
    <3>2. CASE c # z
      <4>1. NextAttempts(c)' = NextAttempts(c)
        BY <1>4, <3>2 DEF NextAttempts, Floor, Counted
      <4> QED
        BY <1>3, <2>3, <3>2, <4>1 DEF Quiet, DeliveriesCounted
    <3> QED
      BY <3>1, <3>2
  <2>4. ASSUME NEW v \in Worker, (pc[v] \in {"handle", "retry"} /\ HasHandler(job[v].c))'
        PROVE  /\ (job[v].attempts = Floor(copy[job[v].c].kind, copy[job[v].c].attempts,
                                           job[v].count))'
               /\ (deliveries[MsgOf(v)] <= job[v].attempts + 1)'
               /\ (pc[v] = "retry" => job[v].attempts + 1 < cfg.maxAttempts)'
    <3>1. pc'[v] = pc[v] /\ pc[v] \in {"handle", "retry"}
      BY <2>4
    <3>2. PICK k \in Cid : k = job[v].c /\ k # z /\ copy'[k] = copy[k]
      BY <1>1, <1>2, <3>1
    <3>3. HasHandler(k)
      <4>1. HasHandler(k)'
        BY <2>4, <3>2 DEF HasHandler
      <4> QED
        BY <1>3, <3>2, <4>1
    <3>4. /\ job[v].attempts = Floor(copy[k].kind, copy[k].attempts, job[v].count)
          /\ deliveries[copy[k].msg] <= job[v].attempts + 1
          /\ pc[v] = "retry" => job[v].attempts + 1 < cfg.maxAttempts
      BY <3>1, <3>2, <3>3 DEF Quiet, DeliveriesCounted, MsgOf
    <3> QED
      BY <1>4, <3>1, <3>2, <3>4 DEF Floor, Counted, MsgOf
  <2> QED
    BY <2>1, <2>2, <2>3, <2>4 DEF DeliveriesCounted
<1> QED
  BY <1>6, <1>8, <1>9, <1>10, <1>11 DEF Quiet

(* Nothing had happened to a message that is published now.                 *)
LEMMA PublishQuiet ==
  ASSUME IInv, Quiet, TypeOK', NEW m \in Msg, NEW kind \in T.kinds, Publish(m, kind)
  PROVE  Quiet'
<1> USE DEF IInv
<1>1. PICK z \in Cid :
        /\ at[z] = "free"
        /\ \A x \in Cid : at[x] # "free" => copy[x].msg # m
        /\ at' = [at EXCEPT ![z] = "ready"]
        /\ copy' = [copy EXCEPT ![z] =
             [msg |-> m, kind |-> kind, intact |-> TRUE, attempts |-> 0, count |-> 0]]
  BY DEF Publish, Fresh
<1>2. /\ at'[z] = "ready" /\ copy'[z].msg = m /\ copy'[z].attempts = 0 /\ copy'[z].count = 0
      /\ \A x \in Cid : x # z => at'[x] = at[x] /\ copy'[x] = copy[x]
  BY <1>1 DEF TypeOK
<1>3. /\ cfg' = cfg /\ job' = job /\ deliveries' = deliveries
      /\ handled' = handled /\ dlq' = dlq /\ native' = native /\ pc' = pc
  BY DEF Publish, history
<1>4. Ended(m) = 0 /\ deliveries[m] = 0
  BY <1>1 DEF Quiet, NothingBefore
<1>5. \A x \in Cid : x # z /\ Open(x)' => copy[x].msg # m
  BY <1>1, <1>2 DEF Open, Live
<1>6. NextAttempts(z)' = 0
  BY <1>2 DEF NextAttempts, Floor
<1> QED
  BY <1>1, <1>2, <1>3, <1>4, <1>5, <1>6, NewCopyQuiet

(* A retry that re-publishes hands the message on to the new copy: the old  *)
(* one is about to be acknowledged, and the attempts go with the new one.   *)
LEMMA RepublishQuiet ==
  ASSUME IInv, Quiet, TypeOK', NEW w \in Worker, RepublishCopy(w), NoFault, faults = 0
  PROVE  Quiet'
<1> USE DEF IInv
<1>1. PICK k \in Cid : k = job[w].c
  BY JobType
<1>2. PICK m \in Msg : m = copy[k].msg
  BY DEF TypeOK, Copy
<1>3. PICK attempts \in Nat :
        attempts = IF pc[w] = "retry" THEN job[w].attempts + 1 ELSE job[w].attempts
  BY JobType
<1>4. /\ Republish(w, attempts) /\ pc' = [pc EXCEPT ![w] = "ack"]
      /\ pc[w] \in {"retry", "requeue"} /\ T.release = "none"
      /\ cfg' = cfg /\ job' = job /\ deliveries' = deliveries
      /\ handled' = handled /\ dlq' = dlq /\ native' = native
  BY <1>3 DEF RepublishCopy, history, Goto, NoFault, Fault
<1>5. PICK z \in Cid :
        /\ at[z] = "free"
        /\ at' = [at EXCEPT ![z] = "ready"]
        /\ copy' = [copy EXCEPT ![z] =
             [msg |-> m, kind |-> Reencode(copy[k].kind), attempts |-> attempts, count |-> 0,
              intact |-> copy[k].intact /\ copy[k].kind # "garbage"]]
  BY <1>1, <1>2, <1>4 DEF Republish, Fresh
<1>6. /\ at'[z] = "ready" /\ copy'[z].msg = m /\ copy'[z].kind = Reencode(copy[k].kind)
      /\ copy'[z].attempts = attempts /\ copy'[z].count = 0
      /\ \A x \in Cid : x # z => at'[x] = at[x] /\ copy'[x] = copy[x]
  BY <1>5 DEF TypeOK
<1>7. pc'[w] = "ack" /\ \A v \in Worker : v # w => pc'[v] = pc[v]
  BY <1>4 DEF TypeOK
<1>8. at[k] = "reserved" /\ Open(k)
  BY <1>1, <1>4, WorkerOpen
<1>9. Ended(m) = 0
  BY <1>2, <1>8 DEF Quiet, OneOpen
<1>10. ASSUME NEW x \in Cid, x # z, Open(x)' PROVE copy[x].msg # m
  <2>1. x # k
    BY <1>1, <1>4, <1>7, <1>10 DEF Open
  <2>2. Open(x)
    <3>1. Live(x)
      BY <1>6, <1>10 DEF Open, Live
    <3>2. \A v \in Worker : pc[v] = "ack" => job[v].c # x
      BY <1>4, <1>7, <1>10 DEF Open
    <3> QED
      BY <3>1, <3>2 DEF Open
  <2> QED
    BY <1>2, <1>8, <2>1, <2>2 DEF Quiet, OneOpen
<1>11. NextAttempts(z)' = attempts
  BY <1>6 DEF NextAttempts, Floor
<1>12. ASSUME HasHandler(z)'
       PROVE  /\ deliveries[m] <= 1 \/ deliveries[m] <= cfg.maxAttempts
              /\ deliveries[m] <= attempts
              /\ attempts < cfg.maxAttempts
  <2>1. HasHandler(k)
    BY <1>6, <1>8, <1>12 DEF HasHandler, Reencode
  <2>2. pc[w] = "retry"
    BY <1>1, <1>4, <2>1 DEF Quiet, HandledHeld
  <2>3. Bounded(k)
    BY <2>1 DEF Quiet, DeliveriesCounted
  <2>4. deliveries[m] <= job[w].attempts + 1 /\ job[w].attempts + 1 < cfg.maxAttempts
    BY <1>1, <1>2, <2>1, <2>2 DEF Quiet, DeliveriesCounted, MsgOf
  <2> QED
    BY <1>2, <1>3, <2>2, <2>3, <2>4 DEF Bounded
<1> QED
  BY <1>4, <1>5, <1>6, <1>7, <1>9, <1>10, <1>11, <1>12, NewCopyQuiet

(* The broker's own steps on a copy no worker holds: it comes back, unless  *)
(* a handler owns it, or leaves for the native dead-letter queue.           *)
LEMMA UnheldQuiet ==
  ASSUME IInv, Quiet, TypeOK', NEW z \in Cid, Live(z),
         \A v \in Worker : pc[v] # "idle" => job[v].c # z,
         at'[z] = "gone" \/ (at'[z] = "ready" /\ ~HasHandler(z)),
         \A x \in Cid : x # z => at'[x] = at[x],
         cfg' = cfg, copy' = copy, pc' = pc, job' = job, deliveries' = deliveries,
         \A m \in Msg : \/ Ended(m)' = Ended(m)
                        \/ m = copy[z].msg /\ at'[z] = "gone" /\ Ended(m)' = Ended(m) + 1
  PROVE  Quiet'
<1> USE DEF IInv
<1>1. /\ \A x \in Cid : at'[x] # "free" <=> at[x] # "free"
      /\ \A x \in Cid : copy[x].msg \in Msg
      /\ \A v \in Worker : job[v].c \in Cid
  BY JobType DEF TypeOK, Copy, Live
<1>2. Open(z)
  BY DEF Open
<1>3. \A x \in Cid : HasHandler(x)' <=> HasHandler(x)
  BY <1>1 DEF HasHandler
<1>4. T' = T
  BY DEF T
<1>5. HeldCurrent'
  <2>1. \A v \in Worker : pc'[v] # "idle" => Current(v)' /\ pc'[v] # "rewind"
    BY <1>1 DEF Quiet, HeldCurrent, Current
  <2>2. \A v, u \in Worker : v # u /\ pc'[v] # "idle" /\ pc'[u] # "idle" => job'[v].c # job'[u].c
    BY DEF Quiet, HeldCurrent
  <2> QED
    BY <2>1, <2>2 DEF HeldCurrent
<1>6. ASSUME NEW x \in Cid, Open(x)' PROVE Open(x) /\ at'[x] # "gone"
  <2>1. at'[x] # "gone"
    BY <1>6 DEF Open, Live
  <2>2. CASE x = z
    BY <1>2, <2>1, <2>2
  <2>3. CASE x # z
    BY <1>6, <2>1, <2>3 DEF Open, Live
  <2> QED
    BY <2>2, <2>3
<1>7. OneOpen'
  <2>1. \A c, x \in Cid : Open(c)' /\ Open(x)' /\ copy'[c].msg = copy'[x].msg => c = x
    BY <1>6 DEF Quiet, OneOpen
  <2>2. ASSUME NEW c \in Cid, Open(c)' PROVE (Ended(copy[c].msg) = 0)'
    <3>1. PICK k \in Msg : k = copy[c].msg
      BY <1>1
    <3>2. Open(c) /\ at'[c] # "gone" /\ Ended(k) = 0
      BY <1>6, <2>2, <3>1 DEF Quiet, OneOpen
    <3>3. ~(k = copy[z].msg /\ at'[z] = "gone")
      BY <1>2, <3>1, <3>2 DEF Quiet, OneOpen
    <3>4. Ended(k)' = 0
      BY <3>2, <3>3
    <3> QED
      BY <3>1, <3>4 DEF Ended
  <2>3. ASSUME NEW k \in Msg PROVE Ended(k)' <= 1
    <3>1. CASE Ended(k)' = Ended(k)
      BY <3>1 DEF Quiet, OneOpen
    <3>2. CASE k = copy[z].msg /\ Ended(k)' = Ended(k) + 1
      <4>1. Ended(k) = 0
        BY <1>2, <3>2 DEF Quiet, OneOpen
      <4> QED
        BY <3>2, <4>1
    <3> QED
      BY <3>1, <3>2
  <2> QED
    BY <2>1, <2>2, <2>3 DEF OneOpen
<1>8. NothingBefore'
  <2> SUFFICES ASSUME NEW k \in Msg, \A c \in Cid : at'[c] # "free" => copy'[c].msg # k
               PROVE  Ended(k)' = 0 /\ deliveries'[k] = 0
    BY DEF NothingBefore
  <2>1. \A c \in Cid : at[c] # "free" => copy[c].msg # k
    BY <1>1
  <2>2. k # copy[z].msg
    BY <2>1 DEF Live
  <2> QED
    BY <2>1, <2>2 DEF Quiet, NothingBefore
<1>9. HandledHeld'
  <2>1. \A c \in Cid : HasHandler(c)' /\ at'[c] = "reserved"
          => \E v \in Worker : pc'[v] # "idle" /\ job'[v].c = c
    BY <1>3 DEF Quiet, HandledHeld
  <2>2. ASSUME NEW v \in Worker, pc'[v] \in {"native", "requeue"}
        PROVE  (~HasHandler(job[v].c))'
    <3>1. PICK k \in Cid : k = job[v].c
      BY <1>1
    <3>2. ~HasHandler(k)'
      BY <1>3, <2>2, <3>1 DEF Quiet, HandledHeld
    <3> QED
      BY <3>1, <3>2 DEF HasHandler
  <2> QED
    BY <2>1, <2>2 DEF HandledHeld
<1>10. DeliveriesCounted'
  <2>1. T'.release = "inPlace" => \A c \in Cid : at'[c] # "free" => copy'[c].attempts = 0
    BY <1>1, <1>4 DEF Quiet, DeliveriesCounted
  <2>2. \A c \in Cid : HasHandler(c)' => Bounded(c)'
    BY <1>3 DEF Quiet, DeliveriesCounted, Bounded
  <2>3. ASSUME NEW c \in Cid, HasHandler(c)', at'[c] = "ready"
        PROVE  /\ deliveries'[copy'[c].msg] <= NextAttempts(c)'
               /\ deliveries'[copy'[c].msg] = 0 \/ NextAttempts(c)' < cfg'.maxAttempts
    <3>1. HasHandler(c) /\ at[c] = "ready"
      BY <1>3, <2>3
    <3>2. NextAttempts(c)' = NextAttempts(c)
      BY <1>4 DEF NextAttempts, Floor, Counted
    <3> QED
      BY <3>1, <3>2 DEF Quiet, DeliveriesCounted
  <2>4. ASSUME NEW v \in Worker, (pc[v] \in {"handle", "retry"} /\ HasHandler(job[v].c))'
        PROVE  /\ (job[v].attempts = Floor(copy[job[v].c].kind, copy[job[v].c].attempts,
                                           job[v].count))'
               /\ (deliveries[MsgOf(v)] <= job[v].attempts + 1)'
               /\ (pc[v] = "retry" => job[v].attempts + 1 < cfg.maxAttempts)'
    <3>1. PICK k \in Cid : k = job[v].c
      BY <1>1
    <3>2. HasHandler(k)
      <4>1. HasHandler(k)'
        BY <2>4, <3>1 DEF HasHandler
      <4> QED
        BY <1>3, <4>1
    <3>3. /\ job[v].attempts = Floor(copy[k].kind, copy[k].attempts, job[v].count)
          /\ deliveries[copy[k].msg] <= job[v].attempts + 1
          /\ pc[v] = "retry" => job[v].attempts + 1 < cfg.maxAttempts
      BY <2>4, <3>1, <3>2 DEF Quiet, DeliveriesCounted, MsgOf
    <3> QED
      BY <1>4, <3>1, <3>3 DEF Floor, Counted, MsgOf
  <2> QED
    BY <2>1, <2>2, <2>3, <2>4 DEF DeliveriesCounted
<1> QED
  BY <1>5, <1>7, <1>8, <1>9, <1>10 DEF Quiet

(* An abandoned reservation lapses, or the broker gives up on a copy.       *)
LEMMA BrokerQuiet ==
  ASSUME IInv, Quiet, TypeOK', NEW z \in Cid, Lapse(z) \/ BrokerDeadLetter(z), NoFault,
         faults = 0
  PROVE  Quiet'
<1> USE DEF IInv
<1>1. ~Held(z)
  BY DEF Lapse, BrokerDeadLetter, Fault, NoFault
<1>2. \A v \in Worker : pc[v] # "idle" => job[v].c # z
  BY <1>1 DEF Held, Quiet, HeldCurrent
<1>3. Live(z) /\ cfg' = cfg /\ copy' = copy /\ pc' = pc /\ job' = job /\ deliveries' = deliveries
      /\ handled' = handled /\ dlq' = dlq
      /\ \A x \in Cid : x # z => at'[x] = at[x]
  BY DEF Lapse, BrokerDeadLetter, Live, history, TypeOK
<1>4. CASE Lapse(z)
  <2>1. at[z] = "reserved" /\ at'[z] = "ready" /\ native' = native
    BY <1>4 DEF Lapse, history, TypeOK
  <2>2. ~HasHandler(z)
    BY <1>2, <2>1 DEF Quiet, HandledHeld
  <2>3. \A m \in Msg : Ended(m)' = Ended(m)
    BY <1>3, <2>1 DEF Ended
  <2> QED
    BY <1>2, <1>3, <2>1, <2>2, <2>3, UnheldQuiet
<1>5. CASE BrokerDeadLetter(z)
  <2>1. at'[z] = "gone" /\ native' = [native EXCEPT ![copy[z].msg] = @ + 1]
    BY <1>5 DEF BrokerDeadLetter, TypeOK
  <2>2. ASSUME NEW m \in Msg
        PROVE  Ended(m)' = Ended(m) \/ (m = copy[z].msg /\ Ended(m)' = Ended(m) + 1)
    <3>1. handled[m] \in Nat /\ dlq[m] \in Nat /\ native[m] \in Nat
      BY EndedType
    <3>2. native'[m] = IF m = copy[z].msg THEN native[m] + 1 ELSE native[m]
      BY <2>1 DEF TypeOK
    <3> QED
      BY <1>3, <3>1, <3>2 DEF Ended
  <2> QED
    BY <1>2, <1>3, <2>1, <2>2, UnheldQuiet
<1> QED
  BY <1>4, <1>5

(* The handler returns: the message ends and only the ack is left, or the   *)
(* attempts say whether another delivery is allowed.                        *)
LEMMA HandleQuiet ==
  ASSUME IInv, Quiet, TypeOK', NEW w \in Worker, Handle(w)
  PROVE  Quiet'
<1> USE DEF IInv
<1>1. PICK z \in Cid : z = job[w].c
  BY JobType
<1>2. /\ pc[w] = "handle" /\ at' = at /\ copy' = copy /\ job' = job /\ cfg' = cfg
      /\ deliveries' = deliveries /\ dlq' = dlq /\ native' = native
  BY DEF Handle, broker
<1>3. at[z] = "reserved"
  BY <1>1, <1>2, WorkerOpen
<1>4. CASE handled' = [handled EXCEPT ![MsgOf(w)] = @ + 1] /\ Goto(w, "ack")
  <2>1. ASSUME NEW m \in Msg
        PROVE  Ended(m)' = Ended(m) \/ (m = copy[z].msg /\ Ended(m)' = Ended(m) + 1)
    <3>1. handled[m] \in Nat /\ dlq[m] \in Nat /\ native[m] \in Nat
      BY EndedType
    <3>2. handled'[m] = IF m = copy[z].msg THEN handled[m] + 1 ELSE handled[m]
      BY <1>1, <1>4 DEF MsgOf, TypeOK
    <3> QED
      BY <1>2, <3>1, <3>2 DEF Ended
  <2>2. OwnMove(w, z, "ack")
    BY <1>1, <1>2, <1>3, <1>4, <2>1 DEF OwnMove, Goto
  <2> QED
    BY <2>2, OwnStep
<1>5. CASE Goto(w, RetryOrDeadLetter(job[w].attempts)) /\ UNCHANGED handled
  <2>1. PICK step : step = RetryOrDeadLetter(job[w].attempts)
    OBVIOUS
  <2>2. /\ step \in {"retry", "dlq", "ack"}
        /\ step = "retry" => job[w].attempts + 1 < cfg.maxAttempts
    BY <2>1 DEF RetryOrDeadLetter
  <2>3. \A m \in Msg : Ended(m)' = Ended(m)
    BY <1>2, <1>5 DEF Ended
  <2>4. pc' = [pc EXCEPT ![w] = step]
    BY <1>5, <2>1 DEF Goto
  <2>5. OwnMove(w, z, step)
    BY <1>1, <1>2, <1>3, <2>2, <2>3, <2>4 DEF OwnMove
  <2> QED
    BY <2>5, OwnStep
<1> QED
  BY <1>4, <1>5 DEF Handle

(* The calls that take a worker's copy off the queue, or are about to.      *)
LEMMA FinishQuiet ==
  ASSUME IInv, Quiet, TypeOK', NEW w \in Worker, NoFault, faults = 0,
         Ack(w) \/ DeadLetterGated(w) \/ DeadLetterRepublish(w) \/ SettleNative(w)
  PROVE  Quiet'
<1> USE DEF IInv
<1>1. PICK z \in Cid : z = job[w].c
  BY JobType
<1>2. /\ pc[w] \in {"ack", "dlq", "native"} /\ copy' = copy /\ job' = job /\ cfg' = cfg
      /\ deliveries' = deliveries /\ handled' = handled
  BY DEF Ack, DeadLetterGated, DeadLetterRepublish, SettleNative, broker, history
<1>3. at[z] = "reserved" /\ Current(w)
  BY <1>1, <1>2, WorkerOpen DEF Quiet, HeldCurrent
<1>4. ~Fault
  BY DEF Fault, NoFault
<1>5. CASE Ack(w)
  <2>1. /\ pc[w] = "ack" /\ pc' = [pc EXCEPT ![w] = "idle"]
        /\ at' = [at EXCEPT ![z] = "gone"] /\ dlq' = dlq /\ native' = native
    BY <1>1, <1>3, <1>4, <1>5 DEF Ack, Settle, Goto, history
  <2>2. at'[z] = "gone" /\ \A x \in Cid : x # z => at'[x] = at[x]
    BY <2>1 DEF TypeOK
  <2>3. \A m \in Msg : Ended(m)' = Ended(m)
    BY <1>2, <2>1 DEF Ended
  <2>4. OwnMove(w, z, "idle")
    BY <1>1, <1>2, <2>1, <2>2, <2>3 DEF OwnMove
  <2> QED
    BY <2>4, OwnStep
<1>6. CASE DeadLetterGated(w)
  <2>1. /\ pc[w] = "dlq" /\ pc' = [pc EXCEPT ![w] = "idle"]
        /\ at' = [at EXCEPT ![z] = "gone"] /\ native' = native
        /\ dlq' = [dlq EXCEPT ![copy[z].msg] = @ + 1]
    BY <1>1, <1>3, <1>4, <1>6 DEF DeadLetterGated, Settle, Goto, Bump, MsgOf
  <2>2. at'[z] = "gone" /\ \A x \in Cid : x # z => at'[x] = at[x]
    BY <2>1 DEF TypeOK
  <2>3. ASSUME NEW m \in Msg
        PROVE  Ended(m)' = Ended(m) \/ (m = copy[z].msg /\ Ended(m)' = Ended(m) + 1)
    <3>1. handled[m] \in Nat /\ dlq[m] \in Nat /\ native[m] \in Nat
      BY EndedType
    <3>2. dlq'[m] = IF m = copy[z].msg THEN dlq[m] + 1 ELSE dlq[m]
      BY <2>1 DEF TypeOK
    <3> QED
      BY <1>2, <2>1, <3>1, <3>2 DEF Ended
  <2>4. OwnMove(w, z, "idle")
    BY <1>1, <1>2, <2>1, <2>2, <2>3 DEF OwnMove
  <2> QED
    BY <2>4, OwnStep
<1>7. CASE DeadLetterRepublish(w)
  <2>1. /\ pc[w] = "dlq" /\ pc' = [pc EXCEPT ![w] = "ack"] /\ at' = at /\ native' = native
        /\ dlq' = [dlq EXCEPT ![copy[z].msg] = @ + 1]
    BY <1>1, <1>4, <1>7 DEF DeadLetterRepublish, Goto, Bump, MsgOf, broker
  <2>2. ASSUME NEW m \in Msg
        PROVE  Ended(m)' = Ended(m) \/ (m = copy[z].msg /\ Ended(m)' = Ended(m) + 1)
    <3>1. handled[m] \in Nat /\ dlq[m] \in Nat /\ native[m] \in Nat
      BY EndedType
    <3>2. dlq'[m] = IF m = copy[z].msg THEN dlq[m] + 1 ELSE dlq[m]
      BY <2>1 DEF TypeOK
    <3> QED
      BY <1>2, <2>1, <3>1, <3>2 DEF Ended
  <2>3. OwnMove(w, z, "ack")
    BY <1>1, <1>2, <1>3, <2>1, <2>2 DEF OwnMove
  <2> QED
    BY <2>3, OwnStep
<1>8. CASE SettleNative(w)
  <2>1. pc[w] = "native" /\ pc' = [pc EXCEPT ![w] = "idle"] /\ dlq' = dlq
    BY <1>8 DEF SettleNative, Goto
  <2>2. ~HasHandler(z)
    BY <1>1, <2>1 DEF Quiet, HandledHeld
  <2>3. CASE T.native = "deadLetter"
    <3>1. /\ at' = [at EXCEPT ![z] = "gone"]
          /\ native' = [native EXCEPT ![copy[z].msg] = @ + 1]
      BY <1>1, <1>3, <1>4, <1>8, <2>3 DEF SettleNative, Bump, MsgOf
    <3>2. at'[z] = "gone" /\ \A x \in Cid : x # z => at'[x] = at[x]
      BY <3>1 DEF TypeOK
    <3>3. ASSUME NEW m \in Msg
          PROVE  Ended(m)' = Ended(m) \/ (m = copy[z].msg /\ Ended(m)' = Ended(m) + 1)
      <4>1. handled[m] \in Nat /\ dlq[m] \in Nat /\ native[m] \in Nat
        BY EndedType
      <4>2. native'[m] = IF m = copy[z].msg THEN native[m] + 1 ELSE native[m]
        BY <3>1 DEF TypeOK
      <4> QED
        BY <1>2, <2>1, <4>1, <4>2 DEF Ended
    <3>4. OwnMove(w, z, "idle")
      BY <1>1, <1>2, <2>1, <2>2, <3>2, <3>3 DEF OwnMove
    <3> QED
      BY <3>4, OwnStep
  <2>4. CASE T.native # "deadLetter"
    <3>1. at' = at /\ native' = native
      BY <1>8, <2>4 DEF SettleNative, Bump
    <3>2. \A m \in Msg : Ended(m)' = Ended(m)
      BY <1>2, <2>1, <3>1 DEF Ended
    <3>3. OwnMove(w, z, "idle")
      BY <1>1, <1>2, <1>3, <2>1, <2>2, <3>1, <3>2 DEF OwnMove
    <3> QED
      BY <3>3, OwnStep
  <2> QED
    BY <2>3, <2>4
<1> QED
  BY <1>5, <1>6, <1>7, <1>8

(* What a release leaves on the queue carries one attempt more: in the body *)
(* it rewrote, or in the broker's count where that is what counts.          *)
LEMMA ReleaseQuiet ==
  ASSUME IInv, Quiet, TypeOK', NEW w \in Worker, Release(w), NoFault, faults = 0
  PROVE  Quiet'
<1> USE DEF IInv
<1>1. PICK z \in Cid : z = job[w].c
  BY JobType
<1>2. /\ pc[w] \in {"retry", "requeue"} /\ job' = job /\ cfg' = cfg
      /\ deliveries' = deliveries /\ handled' = handled /\ dlq' = dlq /\ native' = native
      /\ pc' = [pc EXCEPT ![w] = "idle"] /\ T.release # "none"
  BY DEF Release, history, Goto
<1>3. at[z] = "reserved" /\ Current(w) /\ copy[z].count = job[w].count
  BY <1>1, <1>2, WorkerOpen DEF Quiet, HeldCurrent
<1>4. /\ at' = [at EXCEPT ![z] = "ready"]
      /\ copy' = IF T.release = "rewrite"
                 THEN [copy EXCEPT ![z].attempts = job[w].attempts + 1] ELSE copy
  BY <1>1, <1>3 DEF Release, Settle, Fault, NoFault
<1>5. /\ at'[z] = "ready"
      /\ \A x \in Cid : x # z => at'[x] = at[x] /\ copy'[x] = copy[x]
      /\ copy'[z].msg = copy[z].msg /\ copy'[z].kind = copy[z].kind
      /\ copy'[z].count = copy[z].count
      /\ copy'[z].attempts = IF T.release = "rewrite" THEN job[w].attempts + 1
                                                      ELSE copy[z].attempts
  BY <1>4 DEF TypeOK, Copy
<1>6. \A m \in Msg : Ended(m)' = Ended(m)
  BY <1>2 DEF Ended
<1>7. ASSUME HasHandler(z)
      PROVE  deliveries[copy[z].msg] <= NextAttempts(z)' /\ NextAttempts(z)' < cfg.maxAttempts
  <2>1. pc[w] = "retry"
    BY <1>1, <1>2, <1>7 DEF Quiet, HandledHeld
  <2>2. /\ job[w].attempts = Floor(copy[z].kind, copy[z].attempts, job[w].count)
        /\ deliveries[copy[z].msg] <= job[w].attempts + 1
        /\ job[w].attempts + 1 < cfg.maxAttempts
    BY <1>1, <1>7, <2>1 DEF Quiet, DeliveriesCounted, MsgOf
  <2>3. copy[z].attempts \in Nat /\ job[w].count \in Nat \ {0} /\ job[w].attempts \in Nat
    BY JobType DEF TypeOK, Copy
  <2>4. NextAttempts(z)' = IF Counted(copy[z].kind) /\ job[w].count + 1 > copy'[z].attempts + 1
                           THEN job[w].count ELSE copy'[z].attempts
    BY <1>2, <1>3, <1>5, <2>3 DEF NextAttempts, Floor, Counted, T
  <2>5. NextAttempts(z)' = job[w].attempts + 1
    <3>1. CASE T.release = "rewrite"
      BY <1>5, <2>2, <2>3, <2>4, <3>1 DEF Floor
    <3>2. CASE T.release = "inPlace"
      <4>1. copy[z].attempts = 0
        BY <1>3, <3>2 DEF Quiet, DeliveriesCounted
      <4>2. T.counts \in {"decoded", "all"}
        BY <3>2, ReleaseAssumption, ConfigsAssumption DEF TypeOK, T, Config, Capabilities
      <4>3. Counted(copy[z].kind)
        BY <1>7, <4>2 DEF Counted, HasHandler
      <4> QED
        BY <1>5, <2>2, <2>3, <2>4, <3>2, <4>1, <4>3 DEF Floor
    <3> QED
      BY <1>2, <3>1, <3>2, ConfigsAssumption DEF TypeOK, T, Config, Capabilities
  <2> QED
    BY <2>2, <2>5
<1>8. OwnMove(w, z, "idle")
  BY <1>1, <1>2, <1>5, <1>6, <1>7 DEF OwnMove
<1> QED
  BY <1>8, OwnStep

(* Before a fault, every step keeps the invariant.                          *)
LEMMA NextFaultFree == IInv /\ IInv' /\ FaultFree /\ [Next]_vars => FaultFree'
<1> SUFFICES ASSUME IInv, IInv', FaultFree, [Next]_vars, faults' = 0 PROVE Quiet'
  BY DEF FaultFree
<1> USE DEF IInv
<1>1. faults \in Nat /\ (NoFault \/ Fault \/ UNCHANGED vars)
  BY DEF TypeOK, Next, Work, Publish, Consume, Handle, Ack, Release, RepublishCopy,
         DeadLetterGated, DeadLetterRepublish, SettleNative, Rewind, Lapse,
         BrokerDeadLetter, Crash, vars
<1>2. NoFault /\ ~Fault /\ faults = 0 /\ Quiet
  BY <1>1 DEF NoFault, Fault, FaultFree, vars
<1>3. ASSUME NEW w \in Worker, Work(w) PROVE Quiet'
  <2>1. ~Rewind(w)
    BY <1>2 DEF Rewind, Quiet, HeldCurrent
  <2> QED
    BY <1>2, <1>3, <2>1, ConsumeQuiet, HandleQuiet, FinishQuiet, ReleaseQuiet, RepublishQuiet
       DEF Work
<1>4. ASSUME UNCHANGED vars PROVE Quiet'
  BY <1>2, <1>4 DEF vars, Quiet, HeldCurrent, OneOpen, NothingBefore, HandledHeld,
       DeliveriesCounted, Current, Open, Live, Ended, HasHandler, Bounded, NextAttempts,
       Floor, Counted, T, MsgOf
<1>5. ASSUME NEW w \in Worker PROVE ~Crash(w)
  BY <1>2 DEF Crash
<1> QED
  BY <1>2, <1>3, <1>4, <1>5, PublishQuiet, BrokerQuiet DEF Next

(* FaultFreeOnce: as long as no call fails, no reply is lost and no worker  *)
(* dies, a message is handled or dead-lettered at most once, and one with a *)
(* handler is delivered at most WithMaxAttempts times, whatever the options,*)
(* the transport's capabilities and the number of workers.                  *)
THEOREM EndsOnceFaultFree == Spec => []FaultFreeOnce
<1>1. Init => FaultFree
  <2> SUFFICES ASSUME Init PROVE Quiet
    BY DEF FaultFree
  <2>1. \A c \in Cid : at[c] = "free"
    BY DEF Init
  <2>2. \A w \in Worker : pc[w] = "idle"
    BY DEF Init
  <2>3. \A m \in Msg : Ended(m) = 0 /\ deliveries[m] = 0
    BY DEF Init, Zero, Ended
  <2> QED
    BY <2>1, <2>2, <2>3 DEF Quiet, HeldCurrent, OneOpen, NothingBefore, HandledHeld,
         DeliveriesCounted, Open, Live, HasHandler
<1>2. FaultFree => FaultFreeOnce
  BY DEF FaultFree, Quiet, OneOpen, DeliveriesCounted, FaultFreeOnce
<1> QED
  BY <1>1, <1>2, InitInv, NextInv, NextFaultFree, PTL DEF Spec
=============================================================================
