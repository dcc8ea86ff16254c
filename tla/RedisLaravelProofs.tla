------------------------- MODULE RedisLaravelProofs -------------------------
(***************************************************************************)
(* Proofs about RedisLaravel, for every set of consumers, dead, without    *)
(* retry_after or not, every mix of bodies and every batch size.           *)
(***************************************************************************)
EXTENDS RedisLaravel, FiniteSetTheorems, SequenceTheorems, TLAPS

-----------------------------------------------------------------------------
(* Counting the places of lists and what a batch of members is.            *)

\* The positions of list whose value is in the set kind.
Places(list, kind) == {i \in 1..Len(list) : list[i] \in kind}

(* Sets in one-to-one correspondence are equally large.                     *)
LEMMA SameCount ==
  ASSUME NEW S, NEW T, IsFiniteSet(S), NEW f \in [S -> T],
         \A a, b \in S : f[a] = f[b] => a = b, \A y \in T : \E a \in S : f[a] = y
  PROVE  IsFiniteSet(T) /\ Cardinality(T) = Cardinality(S)
<1>1. f \in Bijection(S, T)
  BY DEF Bijection, Injection, Surjection, IsInjective
<1>2. ExistsBijection(S, T)
  BY <1>1 DEF ExistsBijection
<1> QED
  BY <1>2, FS_Bijection

(* A list has finitely many places.                                         *)
LEMMA PlacesType ==
  ASSUME NEW list, Len(list) \in Nat, NEW kind
  PROVE  IsFiniteSet(Places(list, kind)) /\ Cardinality(Places(list, kind)) \in Nat
<1>1. IsFiniteSet(1..Len(list))
  BY FS_Interval
<1>2. IsFiniteSet(Places(list, kind))
  BY <1>1, FS_Subset DEF Places
<1> QED
  BY <1>2, FS_CardinalityType

(* A push adds one place, if its value is of the kind.                      *)
LEMMA PushCount ==
  ASSUME NEW V, NEW list \in Seq(V), NEW x \in V, NEW kind
  PROVE  Cardinality(Places(Append(list, x), kind))
           = IF x \in kind THEN Cardinality(Places(list, kind)) + 1 ELSE Cardinality(Places(list, kind))
<1> DEFINE n == Len(list)
<1>1. n \in Nat /\ Len(Append(list, x)) = n + 1
  OBVIOUS
<1>2. Append(list, x)[n + 1] = x /\ \A i \in 1..n : Append(list, x)[i] = list[i]
  OBVIOUS
<1>3. IsFiniteSet(Places(list, kind)) /\ Cardinality(Places(list, kind)) \in Nat
  BY <1>1, PlacesType
<1>4. n + 1 \notin Places(list, kind)
  BY <1>1 DEF Places
<1>5. CASE x \in kind
  <2>1. Places(Append(list, x), kind) = Places(list, kind) \cup {n + 1}
    BY <1>1, <1>2, <1>5 DEF Places
  <2> QED
    BY <1>3, <1>4, <1>5, <2>1, FS_AddElement
<1>6. CASE x \notin kind
  <2>1. Places(Append(list, x), kind) = Places(list, kind)
    BY <1>1, <1>2, <1>6 DEF Places
  <2> QED
    BY <1>6, <2>1
<1> QED
  BY <1>5, <1>6

(* A pop takes the head's place away, if it is one.                         *)
LEMMA PopCount ==
  ASSUME NEW V, NEW list \in Seq(V), list # <<>>, NEW kind
  PROVE  /\ Cardinality(Places(Tail(list), kind))
              = IF Head(list) \in kind THEN Cardinality(Places(list, kind)) - 1
                ELSE Cardinality(Places(list, kind))
         /\ Head(list) \in kind => Cardinality(Places(list, kind)) > 0
<1> DEFINE n == Len(list)
           S == Places(Tail(list), kind)
           T == Places(list, kind) \ {1}
<1>1. n \in Nat /\ n > 0 /\ Len(Tail(list)) = n - 1 /\ Head(list) = list[1]
  OBVIOUS
<1>2. \A i \in 1..(n - 1) : Tail(list)[i] = list[i + 1]
  OBVIOUS
<1>3. IsFiniteSet(S) /\ IsFiniteSet(Places(list, kind)) /\ Cardinality(Places(list, kind)) \in Nat
  <2>1. Len(Tail(list)) \in Nat
    BY <1>1
  <2> QED
    BY <1>1, <2>1, PlacesType
<1>4. Cardinality(T) = Cardinality(S)
  <2> DEFINE f == [i \in S |-> i + 1]
  <2>1. \A i \in S : i \in 1..(n - 1) /\ i + 1 \in T
    BY <1>1, <1>2 DEF Places
  <2>2. f \in [S -> T]
    BY <2>1
  <2>3. \A a, b \in S : f[a] = f[b] => a = b
    BY <2>1
  <2>4. ASSUME NEW y \in T PROVE \E a \in S : f[a] = y
    <3>1. y \in 1..n /\ y # 1 /\ list[y] \in kind
      BY DEF Places
    <3>2. y - 1 \in 1..(n - 1) /\ (y - 1) + 1 = y
      BY <1>1, <3>1
    <3>3. y - 1 \in S
      BY <1>1, <1>2, <3>1, <3>2 DEF Places
    <3> QED
      BY <3>2, <3>3
  <2> HIDE DEF f, S, T
  <2> QED
    BY <1>3, <2>2, <2>3, <2>4, SameCount
<1>5. 1 \in Places(list, kind) <=> Head(list) \in kind
  BY <1>1 DEF Places
<1>6. Cardinality(T) = IF 1 \in Places(list, kind) THEN Cardinality(Places(list, kind)) - 1
                       ELSE Cardinality(Places(list, kind))
  BY <1>3, FS_RemoveElement
<1>7. 1 \in Places(list, kind) => Cardinality(Places(list, kind)) # 0
  BY <1>3, FS_EmptySet
<1> QED
  BY <1>3, <1>4, <1>5, <1>6, <1>7

(* Appending a list adds its places.                                        *)
LEMMA ConcatCount ==
  ASSUME NEW V, NEW list \in Seq(V), NEW more \in Seq(V), NEW kind
  PROVE  Cardinality(Places(list \o more, kind))
           = Cardinality(Places(list, kind)) + Cardinality(Places(more, kind))
<1> DEFINE n == Len(list)
           k == Len(more)
           S == Places(more, kind)
           T == {i \in (n + 1)..(n + k) : more[i - n] \in kind}
<1>1. n \in Nat /\ k \in Nat /\ Len(list \o more) = n + k
  OBVIOUS
<1>2. /\ \A i \in 1..n : (list \o more)[i] = list[i]
      /\ \A i \in (n + 1)..(n + k) : (list \o more)[i] = more[i - n]
  OBVIOUS
<1>3. /\ IsFiniteSet(S) /\ Cardinality(S) \in Nat
      /\ IsFiniteSet(Places(list, kind)) /\ Cardinality(Places(list, kind)) \in Nat
  BY <1>1, PlacesType
<1>4. IsFiniteSet(T) /\ Cardinality(T) = Cardinality(S)
  <2> DEFINE f == [i \in S |-> i + n]
  <2>1. \A i \in S : i \in 1..k /\ i + n \in T
    <3> SUFFICES ASSUME NEW i \in S PROVE i \in 1..k /\ i + n \in T
      OBVIOUS
    <3>1. i \in 1..k /\ more[i] \in kind
      BY DEF Places
    <3>2. i + n \in (n + 1)..(n + k) /\ (i + n) - n = i
      BY <1>1, <3>1
    <3> QED
      BY <3>1, <3>2
  <2>2. f \in [S -> T]
    BY <2>1
  <2>3. \A a, b \in S : f[a] = f[b] => a = b
    BY <1>1, <2>1
  <2>4. ASSUME NEW y \in T PROVE \E a \in S : f[a] = y
    <3>1. y - n \in 1..k /\ more[y - n] \in kind /\ (y - n) + n = y
      BY <1>1
    <3>2. y - n \in S
      BY <3>1 DEF Places
    <3> QED
      BY <3>1, <3>2
  <2> HIDE DEF f, S, T
  <2> QED
    BY <1>3, <2>2, <2>3, <2>4, SameCount
<1>5. Places(list \o more, kind) = Places(list, kind) \cup T
  <2>1. ASSUME NEW i \in Places(list \o more, kind) PROVE i \in Places(list, kind) \cup T
    BY <1>1, <1>2 DEF Places
  <2>2. ASSUME NEW i \in Places(list, kind) \cup T PROVE i \in Places(list \o more, kind)
    BY <1>1, <1>2 DEF Places
  <2> QED
    BY <2>1, <2>2
<1>6. Places(list, kind) \cap T = {}
  BY <1>1 DEF Places
<1> HIDE DEF T
<1>7. Cardinality(Places(list, kind) \cup T)
        = Cardinality(Places(list, kind)) + Cardinality(T) - Cardinality(Places(list, kind) \cap T)
  BY <1>3, <1>4, FS_Union
<1>8. Cardinality(Places(list, kind) \cap T) = 0
  BY <1>6, FS_EmptySet
<1> QED
  BY <1>3, <1>4, <1>5, <1>7, <1>8

(* A batch is a list of different members whose score has passed.            *)
LEMMA BatchType ==
  ASSUME NEW zset, IsFiniteSet(zset), NEW t, NEW limit \in Nat,
         NEW s \in ZRangeByScore(zset, t, limit)
  PROVE  /\ Len(s) \in Nat
         /\ s \in [1..Len(s) -> zset]
         /\ \A i \in 1..Len(s) : s[i].score <= t
         /\ \A i, j \in 1..Len(s) : i # j => s[i] # s[j]
<1> DEFINE n == Taken(zset, t, limit)
<1>1. IsFiniteSet(Due(zset, t)) /\ Due(zset, t) \subseteq zset
  BY FS_Subset DEF Due
<1>2. n \in Nat
  BY <1>1, FS_CardinalityType DEF Taken
<1>3. /\ s \in [1..n -> Due(zset, t)]
      /\ \A i, j \in 1..n : i < j => s[i] # s[j]
  BY DEF ZRangeByScore
<1> HIDE DEF n
<1>4. Len(s) = n
  BY <1>2, <1>3
<1>5. s \in [1..n -> zset]
  BY <1>1, <1>3
<1>6. ASSUME NEW i \in 1..n, NEW j \in 1..n, i # j PROVE s[i] # s[j]
  <2>1. i \in Int /\ j \in Int
    BY <1>2
  <2>2. i < j \/ j < i
    BY <1>6, <2>1
  <2> QED
    BY <1>3, <2>2
<1>7. \A i \in 1..n : s[i].score <= t
  BY <1>3 DEF Due
<1> QED
  BY <1>2, <1>4, <1>5, <1>6, <1>7

-----------------------------------------------------------------------------

(* The invariant's parts hold initially.                                    *)
LEMMA InitType == Init => TypeInv
<1> SUFFICES ASSUME Init PROVE TypeInv
  OBVIOUS
<1>1. NoBody \in Body
  BY MsgAssumption DEF NoBody, Body
<1>2. NoJob \in [head : Body, member : Body] /\ NoJob.head = NoBody /\ NoJob.member = NoBody
  BY <1>1 DEF NoJob
<1> HIDE DEF NoJob, NoBody
<1>3. TypeOK
  BY <1>1, <1>2, ConsumersAssumption, LimitsAssumption DEF Init, TypeOK
<1>4. Shape
  BY <1>2, FS_EmptySet DEF Init, Shape, Step, Zero
<1>5. AttemptsDrawn /\ Jobs
  BY <1>2 DEF Init, AttemptsDrawn, Jobs
<1> QED
  BY <1>3, <1>4, <1>5 DEF TypeInv

(* Re-encoding a body with one more attempt keeps its message.              *)
LEMMA Advanced ==
  ASSUME NEW body \in Body, NEW codec \in {"sdk", "cjson"}
  PROVE  /\ Advance(body, codec) \in Body /\ Advance(body, codec).msg = body.msg
         /\ Advance(body, codec).attempts = body.attempts + 1 /\ body.attempts \in Nat
BY DEF Body, Advance

(* A ZADD leaves the other members and puts its own.                        *)
LEMMA ZAddMembers ==
  ASSUME NEW zset, IsFiniteSet(zset), NEW e
  PROVE  /\ IsFiniteSet(ZAdd(zset, e))
         /\ ZAdd(zset, e) \subseteq zset \cup {e}
         /\ e \in ZAdd(zset, e)
         /\ \A x \in zset : x.member # e.member => x \in ZAdd(zset, e)
<1>1. IsFiniteSet({x \in zset : x.member # e.member})
  BY FS_Subset
<1> QED
  BY <1>1, FS_AddElement DEF ZAdd

(* A migration pushes the members of its batch and nothing else.            *)
LEMMA PushedType ==
  ASSUME TypeInv, NEW s, Len(s) \in Nat, s \in [1..Len(s) -> delayed \cup reserved], Pushed(s)
  PROVE  /\ [i \in 1..Len(s) |-> s[i].member] \in Seq(Body)
         /\ ready' \in Seq(Body) /\ notify' \in Nat
         /\ \A i \in 1..Len(ready') : ready'[i].attempts <= drawn
<1> DEFINE more == [i \in 1..Len(s) |-> s[i].member]
<1>1. \A i \in 1..Len(s) : s[i].member \in Body /\ s[i].member.attempts <= drawn
  BY DEF TypeInv, TypeOK
<1>2. more \in Seq(Body) /\ Len(more) = Len(s)
  BY <1>1
<1>3. ready' = ready \o more /\ notify' = notify + Len(s) /\ ready \in Seq(Body) /\ notify \in Nat
  BY DEF Pushed, TypeInv, TypeOK
<1>4. \A i \in 1..Len(more) : more[i].attempts <= drawn
  BY <1>1, <1>2
<1> HIDE DEF more
<1>5. \A i \in 1..Len(ready') : ready'[i].attempts <= drawn
  <2> SUFFICES ASSUME NEW i \in 1..Len(ready') PROVE ready'[i].attempts <= drawn
    OBVIOUS
  <2>1. CASE i <= Len(ready)
    <3>1. i \in 1..Len(ready) /\ ready'[i] = ready[i]
      BY <1>2, <1>3, <2>1
    <3> QED
      BY <3>1 DEF TypeInv, AttemptsDrawn
  <2>2. CASE i > Len(ready)
    <3>1. i - Len(ready) \in 1..Len(more) /\ ready'[i] = more[i - Len(ready)]
      BY <1>2, <1>3, <2>2
    <3> QED
      BY <1>4, <3>1
  <2> QED
    BY <1>2, <1>3, <2>1, <2>2
<1>6. ready' \in Seq(Body) /\ notify' \in Nat
  BY <1>2, <1>3
<1> QED
  BY <1>2, <1>5, <1>6 DEF more

(* What a migration of the delayed set takes and leaves.                    *)
LEMMA DelayedBatch ==
  ASSUME TypeInv, NEW s \in ZRangeByScore(delayed, now, Batch)
  PROVE  /\ Len(s) \in Nat /\ s \in [1..Len(s) -> delayed]
         /\ \A i, j \in 1..Len(s) : i # j => s[i] # s[j]
BY BatchType, LimitsAssumption DEF TypeInv, Shape

(* What a migration of the reserved set takes and leaves.                   *)
LEMMA ReservedBatch ==
  ASSUME TypeInv, NEW c \in Consumer, NEW s \in ZRangeByScore(reserved, pinned[c], Batch)
  PROVE  Len(s) \in Nat /\ s \in [1..Len(s) -> reserved]
BY BatchType, LimitsAssumption DEF TypeInv, Shape

(* TypeInv is inductive.                                                    *)
LEMMA NextType == TypeInv /\ [Next]_vars => TypeInv'
<1> SUFFICES ASSUME TypeInv, [Next]_vars PROVE TypeInv'
  OBVIOUS
<1> DEFINE new(m) == [msg |-> m, attempts |-> 0, by |-> "sdk"]
<1>a. \A m \in Msg : new(m) \in Body /\ new(m).attempts = 0 /\ new(m).msg = m
  BY DEF Body
<1> HIDE DEF new
<1>b. now \in Nat /\ now + Delay \in Nat /\ drawn \in Nat /\ 0 <= drawn
  BY LimitsAssumption DEF TypeInv, TypeOK
<1>1. ASSUME NEW m \in Msg, Publish(m) PROVE TypeInv'
  <2>1. ready' = Append(ready, new(m)) /\ ready \in Seq(Body)
    BY <1>1 DEF Publish, TypeInv, TypeOK, new
  <2>2. ready' \in Seq(Body)
    BY <1>a, <2>1
  <2>3. \A i \in 1..Len(ready') : ready'[i].attempts <= drawn
    BY <1>a, <1>b, <2>1 DEF TypeInv, AttemptsDrawn
  <2>4. TypeOK'
    BY <1>1, <2>2 DEF Publish, TypeInv, TypeOK
  <2>5. Shape' /\ Jobs'
    BY <1>1 DEF Publish, TypeInv, Shape, Jobs
  <2>6. AttemptsDrawn'
    BY <1>1, <2>3 DEF Publish, TypeInv, AttemptsDrawn
  <2> QED
    BY <2>4, <2>5, <2>6 DEF TypeInv
<1>2. ASSUME NEW m \in Msg, PublishDelayed(m) PROVE TypeInv'
  <2> DEFINE e == [member |-> new(m), score |-> now + Delay]
  <2>1. delayed' = ZAdd(delayed, e)
    BY <1>2 DEF PublishDelayed, new
  <2>2. e.member \in Body /\ e.member.attempts <= drawn /\ e.score \in Nat
    BY <1>a, <1>b
  <2> HIDE DEF e
  <2>3. IsFiniteSet(delayed') /\ delayed' \subseteq delayed \cup {e}
    BY <2>1, ZAddMembers DEF TypeInv, Shape
  <2>4. TypeOK'
    BY <1>2, <2>2, <2>3 DEF PublishDelayed, TypeInv, TypeOK
  <2>5. Shape' /\ Jobs' /\ AttemptsDrawn'
    BY <1>2, <2>3 DEF PublishDelayed, TypeInv, Shape, Jobs, AttemptsDrawn
  <2> QED
    BY <2>4, <2>5 DEF TypeInv
<1>3. CASE Tick
  <2>1. TypeOK'
    BY <1>3, LimitsAssumption DEF Tick, keys, TypeInv, TypeOK
  <2>2. Shape' /\ Jobs' /\ AttemptsDrawn'
    BY <1>3 DEF Tick, keys, outcomes, TypeInv, Shape, Jobs, AttemptsDrawn
  <2> QED
    BY <2>1, <2>2 DEF TypeInv
<1>4. ASSUME NEW c \in Consumer, MigrateDelayed(c) PROVE TypeInv'
  <2>1. PICK s \in ZRangeByScore(delayed, now, Batch) :
          Pushed(s) /\ delayed' = delayed \ {s[i] : i \in 1..Len(s)}
    BY <1>4 DEF MigrateDelayed
  <2>2. Len(s) \in Nat /\ s \in [1..Len(s) -> delayed \cup reserved]
    BY DelayedBatch
  <2>3. /\ ready' \in Seq(Body) /\ notify' \in Nat
        /\ \A i \in 1..Len(ready') : ready'[i].attempts <= drawn
    BY <2>1, <2>2, PushedType
  <2>4. IsFiniteSet(delayed') /\ delayed' \subseteq delayed
    BY <2>1, FS_Subset DEF TypeInv, Shape
  <2>5. TypeOK'
    BY <1>4, <2>3, <2>4 DEF MigrateDelayed, TypeInv, TypeOK
  <2>6. Shape'
    BY <1>4, <1>b, <2>4 DEF MigrateDelayed, Goto, outcomes, TypeInv, Shape, Step
  <2>7. Jobs' /\ AttemptsDrawn'
    BY <1>4, <2>3 DEF MigrateDelayed, Goto, outcomes, TypeInv, Shape, Jobs, AttemptsDrawn
  <2> QED
    BY <2>5, <2>6, <2>7 DEF TypeInv
<1>5. ASSUME NEW c \in Consumer, MigrateReserved(c) PROVE TypeInv'
  <2>1. pc' = [pc EXCEPT ![c] = "reserve"]
        /\ UNCHANGED <<nullRetry, delayed, pinned, job, now, drawn, published, handled, dlq>>
    BY <1>5 DEF MigrateReserved, Goto, keys
  <2>2. /\ ready' \in Seq(Body) /\ notify' \in Nat
        /\ \A i \in 1..Len(ready') : ready'[i].attempts <= drawn
        /\ IsFiniteSet(reserved') /\ reserved' \subseteq reserved /\ recovered' \in BOOLEAN
    <3>1. CASE UNCHANGED <<keys, recovered>>
      BY <3>1 DEF keys, TypeInv, TypeOK, Shape, AttemptsDrawn
    <3>2. ASSUME NEW s \in ZRangeByScore(reserved, pinned[c], Batch), Pushed(s),
                 reserved' = reserved \ {s[i] : i \in 1..Len(s)},
                 recovered' = (recovered \/ Len(s) > 0)
          PROVE  /\ ready' \in Seq(Body) /\ notify' \in Nat
                 /\ \A i \in 1..Len(ready') : ready'[i].attempts <= drawn
                 /\ IsFiniteSet(reserved') /\ reserved' \subseteq reserved
                 /\ recovered' \in BOOLEAN
      <4>1. Len(s) \in Nat /\ s \in [1..Len(s) -> delayed \cup reserved]
        BY ReservedBatch
      <4>2. /\ ready' \in Seq(Body) /\ notify' \in Nat
            /\ \A i \in 1..Len(ready') : ready'[i].attempts <= drawn
        BY <3>2, <4>1, PushedType
      <4>3. IsFiniteSet(reserved') /\ reserved' \subseteq reserved
        BY <3>2, FS_Subset DEF TypeInv, Shape
      <4>4. recovered' \in BOOLEAN
        BY <3>2
      <4> QED
        BY <4>2, <4>3, <4>4
    <3> QED
      BY <1>5, <3>1, <3>2 DEF MigrateReserved
  <2>3. TypeOK'
    BY <2>1, <2>2 DEF TypeInv, TypeOK
  <2>4. Shape'
    BY <2>1, <2>2 DEF TypeInv, Shape, Step
  <2>5. Jobs' /\ AttemptsDrawn'
    BY <2>1, <2>2 DEF TypeInv, Shape, Jobs, AttemptsDrawn
  <2> QED
    BY <2>3, <2>4, <2>5 DEF TypeInv
<1>6. ASSUME NEW c \in Consumer, Reserve(c) PROVE TypeInv'
  <2> DEFINE body == Head(ready)
             r == [head |-> body, member |-> Reencoded(body)]
             e == [member |-> Reencoded(body), score |-> DeadlineArg(c)]
  <2>1. /\ ready' = Tail(ready) /\ reserved' = ZAdd(reserved, e) /\ job' = [job EXCEPT ![c] = r]
        /\ drawn' = drawn + 1 /\ drawn < MaxReservations /\ pc' = [pc EXCEPT ![c] = "working"]
        /\ notify' = IF body.msg \in Raw \/ notify = 0 THEN notify ELSE notify - 1
        /\ UNCHANGED <<nullRetry, delayed, pinned, now, outcomes>>
    BY <1>6 DEF Reserve, Goto
  <2>2. ready \in Seq(Body) /\ ready # <<>> /\ body = ready[1]
    BY <1>6 DEF Reserve, TypeInv, TypeOK
  <2>3. body \in Body /\ body.attempts <= drawn
    BY <2>2 DEF TypeInv, AttemptsDrawn
  <2>4. /\ Reencoded(body) \in Body /\ Reencoded(body).msg = body.msg
        /\ Reencoded(body).attempts <= drawn + 1
    BY <1>b, <2>3, Advanced DEF Reencoded
  <2>5. DeadlineArg(c) \in Nat
    BY LimitsAssumption, NeverAssumption DEF DeadlineArg, TypeInv, Shape
  <2>6. /\ r \in [head : Body, member : Body] /\ r.head = body /\ r.member.msg = body.msg
        /\ r.head \in Body /\ r.member \in Body
        /\ e.member \in Body /\ e.member.attempts <= drawn + 1 /\ e.score \in Nat
    BY <2>3, <2>4, <2>5
  <2>7. notify' \in Nat
    BY <2>1 DEF TypeInv, TypeOK
  <2> HIDE DEF r, e, body
  <2>8. IsFiniteSet(reserved') /\ reserved' \subseteq reserved \cup {e}
    BY <2>1, ZAddMembers DEF TypeInv, Shape
  <2>9. ready' \in Seq(Body) /\ \A i \in 1..Len(ready') : ready'[i].attempts <= drawn'
    <3>1. ready' \in Seq(Body) /\ \A i \in 1..Len(ready') :
            i + 1 \in 1..Len(ready) /\ ready'[i] = ready[i + 1]
      BY <2>1, <2>2
    <3>2. \A i \in 1..Len(ready) : ready[i].attempts <= drawn /\ ready[i].attempts \in Nat
      <4>1. \A i \in 1..Len(ready) : ready[i] \in Body
        BY <2>2
      <4> QED
        BY <4>1 DEF TypeInv, AttemptsDrawn, Body
    <3> QED
      BY <1>b, <2>1, <3>1, <3>2
  <2>10. job' \in [Consumer -> [head : Body, member : Body]] /\ job'[c] = r
         /\ \A k \in Consumer : k # c => job'[k] = job[k] /\ pc'[k] = pc[k]
    BY <2>1, <2>6 DEF TypeInv, Shape
  <2>11. \A x \in delayed' \cup reserved' :
           x.member \in Body /\ x.score \in Nat /\ x.member.attempts <= drawn'
    <3>1. \A x \in delayed \cup reserved :
            x.member \in Body /\ x.score \in Nat /\ x.member.attempts <= drawn
            /\ x.member.attempts \in Nat
      BY DEF TypeInv, TypeOK, Body
    <3> QED
      BY <1>b, <2>1, <2>6, <2>8, <3>1
  <2>12. \A k \in Consumer : job'[k].head \in Body /\ job'[k].member \in Body
    BY <2>6, <2>10 DEF TypeInv, TypeOK
  <2>13. drawn' \in 0..MaxReservations
    BY <1>b, <2>1, LimitsAssumption
  <2>14. TypeOK'
    BY <2>1, <2>7, <2>9, <2>11, <2>12, <2>13 DEF TypeInv, TypeOK
  <2>15. Shape'
    BY <2>1, <2>8, <2>10 DEF outcomes, TypeInv, Shape, Step
  <2>16. AttemptsDrawn'
    <3>1. \A k \in Consumer : job[k].head.attempts \in Nat
      BY DEF TypeInv, TypeOK, Body
    <3>2. body.attempts \in Nat
      BY <2>3 DEF Body
    <3>3. ASSUME NEW k \in Consumer, pc'[k] = "working" PROVE job'[k].head.attempts < drawn'
      <4>1. CASE k = c
        BY <1>b, <2>1, <2>3, <2>6, <2>10, <3>2, <4>1
      <4>2. CASE k # c
        BY <1>b, <2>1, <2>10, <3>1, <3>3, <4>2 DEF TypeInv, AttemptsDrawn
      <4> QED
        BY <4>1, <4>2
    <3> QED
      BY <2>9, <3>3 DEF AttemptsDrawn
  <2>17. Jobs'
    BY <2>1, <2>6, <2>10 DEF outcomes, TypeInv, Shape, Jobs
  <2> QED
    BY <2>14, <2>15, <2>16, <2>17 DEF TypeInv
<1>7. ASSUME NEW c \in Consumer, ReserveEmpty(c) \/ Abandon(c) \/ Wake(c) PROVE TypeInv'
  <2>1. /\ notify' \in Nat
        /\ pc' = [pc EXCEPT ![c] = "idle"] \/ pc' = [pc EXCEPT ![c] = "down"]
           \/ pc' = [pc EXCEPT ![c] = "wait"]
        /\ UNCHANGED <<nullRetry, ready, delayed, reserved, pinned, job, now, drawn, published,
                       handled, dlq, recovered>>
    BY <1>7 DEF ReserveEmpty, Abandon, Wake, Goto, keys, outcomes, TypeInv, TypeOK
  <2>2. TypeOK'
    BY <2>1 DEF TypeInv, TypeOK
  <2>3. Shape'
    BY <2>1 DEF TypeInv, Shape, Step
  <2>4. Jobs' /\ AttemptsDrawn'
    BY <2>1 DEF TypeInv, Shape, Jobs, AttemptsDrawn
  <2> QED
    BY <2>2, <2>3, <2>4 DEF TypeInv
<1>8. ASSUME NEW c \in Consumer, Handle(c) PROVE TypeInv'
  <2>1. /\ pc' = [pc EXCEPT ![c] = "ack"]
        /\ handled' = [handled EXCEPT ![job[c].head.msg] = @ + 1]
        /\ UNCHANGED <<nullRetry, keys, pinned, job, now, drawn, published, dlq, recovered>>
    BY <1>8 DEF Handle, Goto
  <2>2. \A k \in Consumer : job[k].head.msg \in Msg
    BY DEF TypeInv, TypeOK, Body
  <2>3. handled' \in [Msg -> Nat] /\ handled'[job[c].head.msg] > 0
        /\ \A m \in Msg : handled'[m] >= handled[m] /\ handled[m] \in Nat
    BY <2>1, <2>2 DEF TypeInv, Shape
  <2>4. TypeOK'
    BY <2>1 DEF keys, TypeInv, TypeOK
  <2>5. Shape'
    BY <2>1, <2>3 DEF keys, TypeInv, Shape, Step
  <2>6. AttemptsDrawn'
    BY <2>1 DEF keys, TypeInv, Shape, AttemptsDrawn
  <2>7. ASSUME NEW k \in Consumer, pc'[k] = "ack" PROVE handled'[job'[k].head.msg] > 0
    <3>1. CASE k = c
      BY <2>1, <2>3, <3>1
    <3>2. CASE k # c
      BY <2>1, <2>2, <2>3, <2>7, <3>2 DEF TypeInv, Shape, Jobs
    <3> QED
      BY <3>1, <3>2
  <2>8. Jobs'
    BY <2>1, <2>7 DEF TypeInv, Jobs
  <2> QED
    BY <2>4, <2>5, <2>6, <2>8 DEF TypeInv
<1>9. ASSUME NEW c \in Consumer, Ack(c) \/ DeadLetter(c) PROVE TypeInv'
  <2>1. /\ pc' = [pc EXCEPT ![c] = "idle"] /\ reserved' = reserved \ Mine(c)
        /\ UNCHANGED <<nullRetry, ready, delayed, notify, pinned, job, now, drawn, published,
                       handled, recovered>>
        /\ dlq' = dlq \/ dlq' = [dlq EXCEPT ![job[c].head.msg] = @ + 1]
    BY <1>9 DEF Ack, DeadLetter, Goto, outcomes
  <2>2. job[c].head.msg \in Msg
    BY DEF TypeInv, TypeOK, Body
  <2>3. dlq' \in [Msg -> Nat]
    BY <2>1, <2>2 DEF TypeInv, Shape
  <2>4. reserved' \subseteq reserved /\ IsFiniteSet(reserved')
    BY <2>1, FS_Subset DEF TypeInv, Shape
  <2>5. TypeOK'
    BY <2>1, <2>4 DEF TypeInv, TypeOK
  <2>6. Shape'
    BY <2>1, <2>3, <2>4 DEF TypeInv, Shape, Step
  <2>7. Jobs' /\ AttemptsDrawn'
    BY <2>1 DEF TypeInv, Shape, Jobs, AttemptsDrawn
  <2> QED
    BY <2>5, <2>6, <2>7 DEF TypeInv
<1>10. ASSUME NEW c \in Consumer, Release(c) PROVE TypeInv'
  <2> DEFINE b == Advance(job[c].head, "sdk")
             e == [member |-> b, score |-> now + Delay]
  <2>1. /\ pc[c] = "working" /\ pc' = [pc EXCEPT ![c] = "idle"]
        /\ reserved' = reserved \ Mine(c) /\ delayed' = ZAdd(delayed, e)
        /\ UNCHANGED <<nullRetry, ready, notify, pinned, job, now, drawn, outcomes>>
    BY <1>10 DEF Release, Goto
  <2>2. job[c].head \in Body /\ job[c].head.attempts < drawn
    BY <2>1 DEF TypeInv, TypeOK, AttemptsDrawn
  <2>3. b \in Body /\ b.attempts <= drawn
    BY <1>b, <2>2, Advanced
  <2>4. e.member \in Body /\ e.member.attempts <= drawn /\ e.score \in Nat
    BY <1>b, <2>3
  <2> HIDE DEF e, b
  <2>5. IsFiniteSet(delayed') /\ delayed' \subseteq delayed \cup {e}
    BY <2>1, ZAddMembers DEF TypeInv, Shape
  <2>6. reserved' \subseteq reserved /\ IsFiniteSet(reserved')
    BY <2>1, FS_Subset DEF TypeInv, Shape
  <2>7. TypeOK'
    BY <2>1, <2>4, <2>5, <2>6 DEF TypeInv, TypeOK
  <2>8. Shape'
    BY <2>1, <2>5, <2>6 DEF outcomes, TypeInv, Shape, Step
  <2>9. Jobs' /\ AttemptsDrawn'
    BY <2>1 DEF outcomes, TypeInv, Shape, Jobs, AttemptsDrawn
  <2> QED
    BY <2>7, <2>8, <2>9 DEF TypeInv
<1>11. CASE UNCHANGED vars
  BY <1>11 DEF vars, TypeInv, TypeOK, Shape, Jobs, AttemptsDrawn
<1> QED
  BY <1>1, <1>2, <1>3, <1>4, <1>5, <1>6, <1>7, <1>8, <1>9, <1>10, <1>11
  DEF Next, Poll, Finish

(* TypeOK: the three keys hold bodies under scores, and no stored body      *)
(* counts more attempts than there were reservations.                       *)
THEOREM TypeCorrect == Spec => []TypeOK
<1>1. TypeInv => TypeOK
  BY DEF TypeInv
<1> QED
  BY <1>1, InitType, NextType, PTL DEF Spec

-----------------------------------------------------------------------------
(* A ZADD loses no message: what it replaces has the bytes it adds.         *)
LEMMA ZAddKeeps ==
  ASSUME NEW zset, NEW e, NEW x \in zset
  PROVE  \E y \in ZAdd(zset, e) : y.member = x.member
BY DEF ZAdd

(* A migration keeps what was ready and pushes what it takes.               *)
LEMMA PushedKeeps ==
  ASSUME TypeInv, NEW s, Len(s) \in Nat, s \in [1..Len(s) -> delayed \cup reserved], Pushed(s)
  PROVE  /\ \A i \in 1..Len(ready) : \E j \in 1..Len(ready') : ready'[j] = ready[i]
         /\ \A i \in 1..Len(s) : \E j \in 1..Len(ready') : ready'[j] = s[i].member
<1> DEFINE more == [i \in 1..Len(s) |-> s[i].member]
<1>1. more \in Seq(Body) /\ ready \in Seq(Body)
  BY PushedType DEF TypeInv, TypeOK
<1>2. Len(more) = Len(s) /\ \A i \in 1..Len(s) : more[i] = s[i].member
  OBVIOUS
<1>3. ready' = ready \o more
  BY DEF Pushed
<1> HIDE DEF more
<1>4. ASSUME NEW i \in 1..Len(ready) PROVE \E j \in 1..Len(ready') : ready'[j] = ready[i]
  <2>1. i \in 1..Len(ready') /\ ready'[i] = ready[i]
    BY <1>1, <1>3
  <2> QED
    BY <2>1
<1>5. ASSUME NEW i \in 1..Len(s) PROVE \E j \in 1..Len(ready') : ready'[j] = s[i].member
  <2>1. Len(ready) + i \in 1..Len(ready') /\ ready'[Len(ready) + i] = more[i]
    BY <1>1, <1>2, <1>3
  <2> QED
    BY <1>2, <2>1
<1> QED
  BY <1>4, <1>5

(* A step that ends nothing and loses nothing stored keeps NoLoss, if it    *)
(* stores what it publishes.                                                *)
LEMMA LossKept ==
  ASSUME TypeInv, TypeInv', NoLoss,
         \A m \in Msg : handled'[m] >= handled[m] /\ dlq'[m] >= dlq[m],
         \A m \in Msg : Stored(m) => Stored(m)' \/ handled'[m] + dlq'[m] > 0,
         \A m \in Msg : published'[m] # published[m] => Stored(m)'
  PROVE  NoLoss'
<1> SUFFICES ASSUME NEW m \in Msg, published'[m] > 0
             PROVE  Stored(m)' \/ handled'[m] + dlq'[m] > 0
  BY DEF NoLoss
<1>1. /\ handled[m] \in Nat /\ dlq[m] \in Nat /\ handled'[m] \in Nat /\ dlq'[m] \in Nat
  BY DEF TypeInv, Shape
<1>2. CASE published'[m] = published[m]
  BY <1>1, <1>2 DEF NoLoss
<1>3. CASE published'[m] # published[m]
  BY <1>3
<1> QED
  BY <1>2, <1>3

(* NoLoss is kept by every step, given TypeInv.                             *)
LEMMA NextLoss == TypeInv /\ TypeInv' /\ NoLoss /\ [Next]_vars => NoLoss'
<1> SUFFICES ASSUME TypeInv, TypeInv', NoLoss, [Next]_vars PROVE NoLoss'
  OBVIOUS
<1>a. \A m \in Msg : handled[m] \in Nat /\ dlq[m] \in Nat
  BY DEF TypeInv, Shape
<1>b. ready \in Seq(Body)
  BY DEF TypeInv, TypeOK
<1>1. ASSUME NEW m \in Msg, Publish(m) PROVE NoLoss'
  <2> DEFINE b == [msg |-> m, attempts |-> 0, by |-> "sdk"]
  <2>1. /\ ready' = Append(ready, b) /\ published' = [published EXCEPT ![m] = @ + 1]
        /\ UNCHANGED <<delayed, reserved, handled, dlq>>
    BY <1>1 DEF Publish
  <2>2. b \in Body /\ b.msg = m
    BY DEF Body
  <2> HIDE DEF b
  <2>3. /\ Len(ready') = Len(ready) + 1 /\ ready'[Len(ready) + 1] = b /\ Len(ready) \in Nat
        /\ \A i \in 1..Len(ready) : i \in 1..Len(ready') /\ ready'[i] = ready[i]
    BY <1>b, <2>1, <2>2
  <2>4. \A k \in Msg : Stored(k) => Stored(k)'
    BY <2>1, <2>3 DEF Stored
  <2>5. Stored(m)'
    BY <2>2, <2>3 DEF Stored
  <2>6. \A k \in Msg : published'[k] # published[k] => Stored(k)'
    BY <2>1, <2>5 DEF TypeInv, Shape
  <2> QED
    BY <1>a, <2>1, <2>4, <2>6, LossKept
<1>2. ASSUME NEW m \in Msg, PublishDelayed(m) PROVE NoLoss'
  <2> DEFINE e == [member |-> [msg |-> m, attempts |-> 0, by |-> "sdk"], score |-> now + Delay]
  <2>1. /\ delayed' = ZAdd(delayed, e) /\ published' = [published EXCEPT ![m] = @ + 1]
        /\ UNCHANGED <<ready, reserved, handled, dlq>>
    BY <1>2 DEF PublishDelayed
  <2>2. e.member.msg = m
    OBVIOUS
  <2> HIDE DEF e
  <2>3. e \in delayed' /\ \A x \in delayed : \E y \in delayed' : y.member = x.member
    BY <2>1, ZAddKeeps, ZAddMembers DEF TypeInv, Shape
  <2>4. \A k \in Msg : Stored(k) => Stored(k)'
    BY <2>1, <2>3 DEF Stored
  <2>5. Stored(m)'
    BY <2>2, <2>3 DEF Stored
  <2>6. \A k \in Msg : published'[k] # published[k] => Stored(k)'
    BY <2>1, <2>5 DEF TypeInv, Shape
  <2> QED
    BY <1>a, <2>1, <2>4, <2>6, LossKept
<1>3. ASSUME UNCHANGED <<ready, delayed, reserved, published, dlq>>,
             \A m \in Msg : handled'[m] >= handled[m]
      PROVE  NoLoss'
  BY <1>a, <1>3, LossKept DEF Stored
<1>4. ASSUME NEW c \in Consumer, MigrateDelayed(c) PROVE NoLoss'
  <2>1. PICK s \in ZRangeByScore(delayed, now, Batch) :
          Pushed(s) /\ delayed' = delayed \ {s[i] : i \in 1..Len(s)}
    BY <1>4 DEF MigrateDelayed
  <2>2. Len(s) \in Nat /\ s \in [1..Len(s) -> delayed \cup reserved]
    BY DelayedBatch
  <2>3. /\ \A i \in 1..Len(ready) : \E j \in 1..Len(ready') : ready'[j] = ready[i]
        /\ \A i \in 1..Len(s) : \E j \in 1..Len(ready') : ready'[j] = s[i].member
    BY <2>1, <2>2, PushedKeeps
  <2>4. UNCHANGED <<reserved, published, handled, dlq>>
    BY <1>4 DEF MigrateDelayed, outcomes
  <2>5. \A m \in Msg : Stored(m) => Stored(m)'
    BY <2>1, <2>3, <2>4 DEF Stored
  <2> QED
    BY <1>a, <2>4, <2>5, LossKept
<1>5. ASSUME NEW c \in Consumer, MigrateReserved(c) PROVE NoLoss'
  <2>1. UNCHANGED <<delayed, published, handled, dlq>>
    BY <1>5 DEF MigrateReserved, keys
  <2>2. CASE UNCHANGED <<keys, recovered>>
    BY <1>3, <1>a, <2>1, <2>2 DEF keys
  <2>3. ASSUME NEW s \in ZRangeByScore(reserved, pinned[c], Batch), Pushed(s),
               reserved' = reserved \ {s[i] : i \in 1..Len(s)}
        PROVE  NoLoss'
    <3>1. Len(s) \in Nat /\ s \in [1..Len(s) -> delayed \cup reserved]
      BY ReservedBatch
    <3>2. /\ \A i \in 1..Len(ready) : \E j \in 1..Len(ready') : ready'[j] = ready[i]
          /\ \A i \in 1..Len(s) : \E j \in 1..Len(ready') : ready'[j] = s[i].member
      BY <2>3, <3>1, PushedKeeps
    <3>3. \A m \in Msg : Stored(m) => Stored(m)'
      BY <2>1, <2>3, <3>2 DEF Stored
    <3> QED
      BY <1>a, <2>1, <3>3, LossKept
  <2> QED
    BY <1>5, <2>2, <2>3 DEF MigrateReserved
<1>6. ASSUME NEW c \in Consumer, Reserve(c) PROVE NoLoss'
  <2> DEFINE body == Head(ready)
             e == [member |-> Reencoded(body), score |-> DeadlineArg(c)]
  <2>1. /\ ready' = Tail(ready) /\ reserved' = ZAdd(reserved, e)
        /\ UNCHANGED <<delayed, published, handled, dlq>>
    BY <1>6 DEF Reserve, outcomes
  <2>2. ready # <<>> /\ body = ready[1] /\ body \in Body
    BY <1>6, <1>b DEF Reserve
  <2>3. e.member.msg = body.msg
    BY <2>2, Advanced DEF Reencoded
  <2> HIDE DEF e, body
  <2>4. e \in reserved' /\ \A x \in reserved : \E y \in reserved' : y.member = x.member
    BY <2>1, ZAddKeeps, ZAddMembers DEF TypeInv, Shape
  <2>5. \A i \in 1..Len(ready) : i = 1 \/ \E j \in 1..Len(ready') : ready'[j] = ready[i]
    <3> SUFFICES ASSUME NEW i \in 1..Len(ready), i # 1
                 PROVE  \E j \in 1..Len(ready') : ready'[j] = ready[i]
      OBVIOUS
    <3>1. i - 1 \in 1..Len(ready') /\ ready'[i - 1] = ready[i]
      BY <1>b, <2>1, <2>2
    <3> QED
      BY <3>1
  <2>6. \A m \in Msg : Stored(m) => Stored(m)'
    <3> SUFFICES ASSUME NEW m \in Msg, Stored(m) PROVE Stored(m)'
      OBVIOUS
    <3>1. CASE \E i \in 1..Len(ready) : ready[i].msg = m
      <4>1. PICK i \in 1..Len(ready) : ready[i].msg = m
        BY <3>1
      <4> QED
        BY <2>2, <2>3, <2>4, <2>5, <4>1 DEF Stored
    <3>2. CASE \E x \in delayed \cup reserved : x.member.msg = m
      BY <2>1, <2>4, <3>2 DEF Stored
    <3> QED
      BY <3>1, <3>2 DEF Stored
  <2> QED
    BY <1>a, <2>1, <2>6, LossKept
<1>7. ASSUME NEW c \in Consumer, Handle(c) PROVE NoLoss'
  <2>1. /\ handled' = [handled EXCEPT ![job[c].head.msg] = @ + 1]
        /\ UNCHANGED <<ready, delayed, reserved, published, dlq>>
    BY <1>7 DEF Handle, keys
  <2>2. \A m \in Msg : handled'[m] >= handled[m]
    BY <1>a, <2>1 DEF TypeInv, Shape
  <2> QED
    BY <1>3, <2>1, <2>2
<1>8. ASSUME NEW c \in Consumer, Ack(c) PROVE NoLoss'
  <2> DEFINE m0 == job[c].head.msg
  <2>1. /\ pc[c] = "ack" /\ reserved' = reserved \ Mine(c)
        /\ UNCHANGED <<ready, delayed, published, handled, dlq>>
    BY <1>8 DEF Ack, outcomes
  <2>2. handled[m0] > 0 /\ m0 \in Msg /\ \A x \in Mine(c) : x.member.msg = m0
    BY <2>1 DEF TypeInv, TypeOK, Body, Jobs, Mine
  <2>3. \A m \in Msg : Stored(m) => Stored(m)' \/ m = m0
    BY <2>1, <2>2 DEF Stored
  <2>4. \A m \in Msg : Stored(m) => Stored(m)' \/ handled'[m] + dlq'[m] > 0
    BY <1>a, <2>1, <2>2, <2>3
  <2> QED
    BY <1>a, <2>1, <2>4, LossKept
<1>9. ASSUME NEW c \in Consumer, Release(c) PROVE NoLoss'
  <2> DEFINE m0 == job[c].head.msg
             e == [member |-> Advance(job[c].head, "sdk"), score |-> now + Delay]
  <2>1. /\ reserved' = reserved \ Mine(c) /\ delayed' = ZAdd(delayed, e)
        /\ UNCHANGED <<ready, published, handled, dlq>>
    BY <1>9 DEF Release, outcomes
  <2>2. m0 \in Msg /\ \A x \in Mine(c) : x.member.msg = m0
    BY DEF TypeInv, TypeOK, Body, Jobs, Mine
  <2>3. e.member.msg = m0
    BY Advanced DEF TypeInv, TypeOK
  <2> HIDE DEF e
  <2>4. e \in delayed' /\ \A x \in delayed : \E y \in delayed' : y.member = x.member
    BY <2>1, ZAddKeeps, ZAddMembers DEF TypeInv, Shape
  <2>5. \A m \in Msg : Stored(m) => Stored(m)'
    BY <2>1, <2>2, <2>3, <2>4 DEF Stored
  <2> QED
    BY <1>a, <2>1, <2>5, LossKept
<1>10. ASSUME NEW c \in Consumer, DeadLetter(c) PROVE NoLoss'
  <2> DEFINE m0 == job[c].head.msg
  <2>1. /\ reserved' = reserved \ Mine(c)
        /\ dlq' = IF Mine(c) = {} THEN dlq ELSE [dlq EXCEPT ![m0] = @ + 1]
        /\ UNCHANGED <<ready, delayed, published, handled>>
    BY <1>10 DEF DeadLetter
  <2>2. m0 \in Msg /\ \A x \in Mine(c) : x.member.msg = m0
    BY DEF TypeInv, TypeOK, Body, Jobs, Mine
  <2>3. /\ \A m \in Msg : dlq'[m] >= dlq[m] /\ dlq'[m] \in Nat
        /\ Mine(c) # {} => dlq'[m0] > 0
    BY <1>a, <2>1, <2>2 DEF TypeInv, Shape
  <2>4. \A m \in Msg : Stored(m) => Stored(m)' \/ (m = m0 /\ Mine(c) # {})
    BY <2>1, <2>2 DEF Stored
  <2>5. \A m \in Msg : Stored(m) => Stored(m)' \/ handled'[m] + dlq'[m] > 0
    BY <1>a, <2>1, <2>3, <2>4
  <2> QED
    BY <1>a, <2>1, <2>3, <2>5, LossKept
<1>11. ASSUME NEW c \in Consumer, ReserveEmpty(c) \/ Wake(c) \/ Abandon(c) PROVE NoLoss'
  <2>1. UNCHANGED <<ready, delayed, reserved, published, handled, dlq>>
    BY <1>11 DEF ReserveEmpty, Wake, Abandon, keys, outcomes
  <2> QED
    BY <1>3, <1>a, <2>1
<1>12. CASE Tick \/ UNCHANGED vars
  <2>1. UNCHANGED <<ready, delayed, reserved, published, handled, dlq>>
    BY <1>12 DEF Tick, vars, keys, outcomes
  <2> QED
    BY <1>3, <1>a, <2>1
<1> QED
  BY <1>1, <1>2, <1>4, <1>5, <1>6, <1>7, <1>8, <1>9, <1>10, <1>11, <1>12
  DEF Next, Poll, Finish

(* NoLoss: a published message stays in one of the three keys until a       *)
(* handler succeeded or a dead-letter record was written, although an ack   *)
(* is not gated and may remove another consumer's equal member.             *)
THEOREM NothingLost == Spec => []NoLoss
<1>1. Init => NoLoss
  BY DEF Init, NoLoss, Zero
<1> QED
  BY <1>1, InitType, NextType, NextLoss, PTL DEF Spec

-----------------------------------------------------------------------------
(* The three counts of InPlay, before and after a step.                     *)
LEMMA CountTypes ==
  ASSUME TypeInv, OnceInv, NEW m \in Msg
  PROVE  /\ IsFiniteSet(ReadyOf(m)) /\ Cardinality(ReadyOf(m)) \in Nat
         /\ IsFiniteSet(DelayedOf(m)) /\ Cardinality(DelayedOf(m)) \in Nat
         /\ IsFiniteSet(WorkersOf(m)) /\ Cardinality(WorkersOf(m)) \in Nat
         /\ handled[m] \in Nat /\ dlq[m] \in Nat /\ published[m] \in Nat
<1>1. ReadyOf(m) = Places(ready, Kind(m)) /\ Len(ready) \in Nat
  BY DEF ReadyOf, Places, TypeInv, TypeOK
<1>2. IsFiniteSet(ReadyOf(m)) /\ Cardinality(ReadyOf(m)) \in Nat
  BY <1>1, PlacesType
<1>3. IsFiniteSet(DelayedOf(m))
  BY FS_Subset DEF DelayedOf, TypeInv, Shape
<1>4. IsFiniteSet(WorkersOf(m))
  BY DEF OnceInv
<1>5. Cardinality(DelayedOf(m)) \in Nat /\ Cardinality(WorkersOf(m)) \in Nat
  BY <1>3, <1>4, FS_CardinalityType
<1> QED
  BY <1>2, <1>3, <1>4, <1>5 DEF TypeInv, Shape

(* A step that adds no more copies in play or ended than it publishes keeps *)
(* OnceInv.                                                                 *)
LEMMA OnceKept ==
  ASSUME TypeInv, OnceInv, recovered => recovered',
         \A m \in Msg : IsFiniteSet(WorkersOf(m)'),
         ~recovered' => \A m \in Msg :
           handled'[m] + dlq'[m] + InPlay(m)' <= published'[m]
             \/ /\ handled'[m] + dlq'[m] + InPlay(m)' <= handled[m] + dlq[m] + InPlay(m)
                /\ published'[m] = published[m]
                /\ handled'[m] + dlq'[m] + InPlay(m)' \in Int
  PROVE  OnceInv'
<1>1. ASSUME ~recovered', NEW m \in Msg
      PROVE  handled'[m] + dlq'[m] + InPlay(m)' <= published'[m]
  <2>1. handled[m] + dlq[m] + InPlay(m) <= published[m]
    BY <1>1 DEF OnceInv
  <2>2. handled[m] + dlq[m] + InPlay(m) \in Int /\ published[m] \in Int
    BY CountTypes DEF InPlay
  <2> QED
    BY <1>1, <2>1, <2>2
<1> QED
  BY <1>1 DEF OnceInv

(* A ZADD to the delayed set adds at most one copy.                         *)
LEMMA DelayedCount ==
  ASSUME TypeInv, OnceInv, NEW e, delayed' = ZAdd(delayed, e), NEW m \in Msg
  PROVE  /\ Cardinality(DelayedOf(m)') \in Nat
         /\ Cardinality(DelayedOf(m)')
              <= Cardinality(DelayedOf(m)) + (IF e.member \in Kind(m) THEN 1 ELSE 0)
<1> DEFINE D == DelayedOf(m)
           N == {x \in delayed' : x.member \in Kind(m)}
<1>1. IsFiniteSet(D) /\ Cardinality(D) \in Nat
  BY CountTypes
<1>2. N \subseteq D \cup {e} /\ (e.member \notin Kind(m) => N \subseteq D)
  BY DEF ZAdd, DelayedOf
<1>3. IsFiniteSet(D \cup {e}) /\ Cardinality(D \cup {e}) <= Cardinality(D) + 1
      /\ Cardinality(D \cup {e}) \in Nat
  BY <1>1, FS_AddElement, FS_CardinalityType
<1>4. DelayedOf(m)' = N
  BY DEF DelayedOf, Kind
<1> HIDE DEF N, D
<1>5. IsFiniteSet(N) /\ Cardinality(N) <= Cardinality(D \cup {e})
      /\ (e.member \notin Kind(m) => Cardinality(N) <= Cardinality(D))
  BY <1>1, <1>2, <1>3, FS_Subset
<1>6. Cardinality(N) \in Nat
  BY <1>5, FS_CardinalityType
<1> QED
  BY <1>1, <1>3, <1>4, <1>5, <1>6 DEF D

(* A migration moves each copy it takes from the delayed set to the list.   *)
LEMMA MigratedCount ==
  ASSUME TypeInv, OnceInv, NEW s \in ZRangeByScore(delayed, now, Batch), Pushed(s),
         delayed' = delayed \ {s[i] : i \in 1..Len(s)}, NEW m \in Msg
  PROVE  /\ Cardinality(ReadyOf(m)') + Cardinality(DelayedOf(m)')
              = Cardinality(ReadyOf(m)) + Cardinality(DelayedOf(m))
         /\ Cardinality(ReadyOf(m)') \in Int /\ Cardinality(DelayedOf(m)') \in Int
<1> DEFINE more == [i \in 1..Len(s) |-> s[i].member]
           M == {s[i] : i \in 1..Len(s)}
           S == Places(more, Kind(m))
           D == DelayedOf(m)
           R == {e \in M : e.member \in Kind(m)}
<1>1. /\ Len(s) \in Nat /\ s \in [1..Len(s) -> delayed]
      /\ \A i, j \in 1..Len(s) : i # j => s[i] # s[j]
  BY DelayedBatch
<1>2. more \in Seq(Body) /\ ready \in Seq(Body) /\ ready' = ready \o more
  <2>1. s \in [1..Len(s) -> delayed \cup reserved]
    BY <1>1
  <2> QED
    BY <1>1, <2>1, PushedType DEF Pushed, TypeInv, TypeOK
<1>3. Len(more) = Len(s) /\ \A i \in 1..Len(s) : more[i] = s[i].member
  BY <1>1
<1>4. Cardinality(Places(ready', Kind(m)))
        = Cardinality(Places(ready, Kind(m))) + Cardinality(S)
  BY <1>2, ConcatCount
<1>5. IsFiniteSet(S) /\ Cardinality(S) \in Nat
  BY <1>1, <1>3, PlacesType
<1>6. Cardinality(R) = Cardinality(S)
  <2> DEFINE f == [i \in S |-> s[i]]
  <2>1. \A i : i \in S <=> i \in 1..Len(s) /\ s[i].member \in Kind(m)
    BY <1>3 DEF Places
  <2> HIDE DEF S
  <2>2. f \in [S -> R]
    BY <2>1
  <2>3. \A a, b \in S : f[a] = f[b] => a = b
    BY <1>1, <2>1
  <2>4. \A y \in R : \E a \in S : f[a] = y
    BY <2>1
  <2> HIDE DEF f, R
  <2> QED
    BY <1>5, <2>2, <2>3, <2>4, SameCount
<1>7. D \cap M = R
  BY <1>1 DEF DelayedOf
<1>8. DelayedOf(m)' = D \ M
  <2>1. DelayedOf(m)' = {e \in delayed' : e.member \in Kind(m)}
    BY DEF DelayedOf, Kind
  <2> QED
    BY <2>1 DEF DelayedOf
<1>9. IsFiniteSet(D) /\ Cardinality(D) \in Nat /\ Cardinality(ReadyOf(m)) \in Nat
  BY CountTypes
<1>10. Cardinality(D \ M) = Cardinality(D) - Cardinality(R)
  BY <1>7, <1>9, FS_Difference
<1>11. ReadyOf(m) = Places(ready, Kind(m)) /\ ReadyOf(m)' = Places(ready', Kind(m))
  BY DEF ReadyOf, Places, Kind
<1> HIDE DEF D, M, R, S
<1> QED
  BY <1>4, <1>5, <1>6, <1>8, <1>9, <1>10, <1>11 DEF D

(* A consumer that stops working leaves its message's workers.              *)
LEMMA WorkerLeaves ==
  ASSUME TypeInv, OnceInv, NEW c \in Consumer, NEW step, step # "working",
         pc' = [pc EXCEPT ![c] = step], job' = job, NEW m \in Msg
  PROVE  /\ IsFiniteSet(WorkersOf(m)') /\ Cardinality(WorkersOf(m)') \in Nat
         /\ Cardinality(WorkersOf(m)')
              = IF c \in WorkersOf(m) THEN Cardinality(WorkersOf(m)) - 1
                ELSE Cardinality(WorkersOf(m))
<1>1. WorkersOf(m)' = WorkersOf(m) \ {c}
  BY DEF WorkersOf, TypeInv, Shape
<1>2. IsFiniteSet(WorkersOf(m))
  BY DEF OnceInv
<1> QED
  BY <1>1, <1>2, FS_RemoveElement, FS_CardinalityType

(* OnceInv is inductive, given TypeInv.                                     *)
LEMMA NextOnce == TypeInv /\ OnceInv /\ [Next]_vars => OnceInv'
<1> SUFFICES ASSUME TypeInv, OnceInv, [Next]_vars PROVE OnceInv'
  OBVIOUS
<1>a. \A m \in Msg :
         /\ IsFiniteSet(ReadyOf(m)) /\ Cardinality(ReadyOf(m)) \in Nat
         /\ IsFiniteSet(DelayedOf(m)) /\ Cardinality(DelayedOf(m)) \in Nat
         /\ IsFiniteSet(WorkersOf(m)) /\ Cardinality(WorkersOf(m)) \in Nat
         /\ handled[m] \in Nat /\ dlq[m] \in Nat /\ published[m] \in Nat
  BY CountTypes
<1>b. ready \in Seq(Body)
  BY DEF TypeInv, TypeOK
<1>c. \A m : ReadyOf(m) = Places(ready, Kind(m)) /\ ReadyOf(m)' = Places(ready', Kind(m))
  BY DEF ReadyOf, Places, Kind
<1>d. ASSUME NEW m \in Msg
      PROVE  /\ ready' = ready => ReadyOf(m)' = ReadyOf(m)
             /\ delayed' = delayed => DelayedOf(m)' = DelayedOf(m)
             /\ pc' = pc /\ job' = job => WorkersOf(m)' = WorkersOf(m)
  BY DEF ReadyOf, DelayedOf, WorkersOf, Kind
<1>e. ~recovered => \A m \in Msg : handled[m] + dlq[m] + InPlay(m) <= published[m]
  BY DEF OnceInv
<1>1. ASSUME NEW k \in Msg, Publish(k) PROVE OnceInv'
  <2> DEFINE b == [msg |-> k, attempts |-> 0, by |-> "sdk"]
  <2>1. /\ ready' = Append(ready, b) /\ published' = [published EXCEPT ![k] = @ + 1]
        /\ UNCHANGED <<delayed, pc, job, handled, dlq, recovered>>
    BY <1>1 DEF Publish
  <2>2. b \in Body /\ \A m : b \in Kind(m) <=> m = k
    BY DEF Body, Kind
  <2> HIDE DEF b
  <2>3. \A m \in Msg : Cardinality(ReadyOf(m)') = IF m = k THEN Cardinality(ReadyOf(m)) + 1
                                                  ELSE Cardinality(ReadyOf(m))
    BY <1>b, <1>c, <2>1, <2>2, PushCount
  <2>4. \A m \in Msg : InPlay(m)' = IF m = k THEN InPlay(m) + 1 ELSE InPlay(m)
    <3> SUFFICES ASSUME NEW m \in Msg
                 PROVE  InPlay(m)' = IF m = k THEN InPlay(m) + 1 ELSE InPlay(m)
      OBVIOUS
    <3>1. DelayedOf(m)' = DelayedOf(m) /\ WorkersOf(m)' = WorkersOf(m)
      BY <1>d, <2>1
    <3>2. InPlay(m)' = Cardinality(ReadyOf(m)') + Cardinality(DelayedOf(m))
                         + Cardinality(WorkersOf(m))
      BY <3>1 DEF InPlay
    <3> QED
      BY <1>a, <2>3, <3>2 DEF InPlay
  <2>5. \A m \in Msg : published'[m] = IF m = k THEN published[m] + 1 ELSE published[m]
    BY <2>1 DEF TypeInv, Shape
  <2>6. \A m \in Msg : InPlay(m) \in Nat
    BY <1>a DEF InPlay
  <2>7. ~recovered' => \A m \in Msg : handled'[m] + dlq'[m] + InPlay(m)' <= published'[m]
    BY <1>a, <1>e, <2>1, <2>4, <2>5, <2>6
  <2> QED
    BY <1>a, <1>d, <2>1, <2>7, OnceKept
<1>2. ASSUME NEW k \in Msg, PublishDelayed(k) PROVE OnceInv'
  <2> DEFINE b == [msg |-> k, attempts |-> 0, by |-> "sdk"]
             e == [member |-> b, score |-> now + Delay]
  <2>1. /\ delayed' = ZAdd(delayed, e) /\ published' = [published EXCEPT ![k] = @ + 1]
        /\ UNCHANGED <<ready, pc, job, handled, dlq, recovered>>
    BY <1>2 DEF PublishDelayed
  <2>2. \A m : e.member \in Kind(m) => m = k
    BY DEF Kind
  <2> HIDE DEF e
  <2>3. \A m \in Msg : Cardinality(DelayedOf(m)') \in Nat /\ Cardinality(DelayedOf(m)')
                         <= Cardinality(DelayedOf(m)) + (IF m = k THEN 1 ELSE 0)
    <3> SUFFICES ASSUME NEW m \in Msg
                 PROVE  Cardinality(DelayedOf(m)') \in Nat /\ Cardinality(DelayedOf(m)')
                          <= Cardinality(DelayedOf(m)) + (IF m = k THEN 1 ELSE 0)
      OBVIOUS
    <3>1. Cardinality(DelayedOf(m)') \in Nat /\ Cardinality(DelayedOf(m)')
            <= Cardinality(DelayedOf(m)) + (IF e.member \in Kind(m) THEN 1 ELSE 0)
      BY <2>1, DelayedCount
    <3> QED
      BY <1>a, <2>2, <3>1
  <2>4. \A m \in Msg : published'[m] = IF m = k THEN published[m] + 1 ELSE published[m]
    BY <2>1 DEF TypeInv, Shape
  <2>5. ~recovered' => \A m \in Msg : handled'[m] + dlq'[m] + InPlay(m)' <= published'[m]
    BY <1>a, <1>d, <1>e, <2>1, <2>3, <2>4 DEF InPlay
  <2> QED
    BY <1>a, <1>d, <2>1, <2>5, OnceKept
<1>3. CASE UNCHANGED <<ready, delayed, pc, job, published, handled, dlq, recovered>>
  <2>1. \A m \in Msg : InPlay(m)' = InPlay(m)
    BY <1>3, <1>d DEF InPlay
  <2> QED
    BY <1>3, <1>a, <1>d, <1>e, <2>1, OnceKept
<1>4. ASSUME NEW c \in Consumer, MigrateDelayed(c) PROVE OnceInv'
  <2>1. PICK s \in ZRangeByScore(delayed, now, Batch) :
          Pushed(s) /\ delayed' = delayed \ {s[i] : i \in 1..Len(s)}
    BY <1>4 DEF MigrateDelayed
  <2>2. /\ pc[c] = "idle" /\ pc' = [pc EXCEPT ![c] = "migrate"]
        /\ UNCHANGED <<job, published, handled, dlq, recovered>>
    BY <1>4 DEF MigrateDelayed, Goto, outcomes
  <2>3. \A m \in Msg : Cardinality(ReadyOf(m)') + Cardinality(DelayedOf(m)')
                         = Cardinality(ReadyOf(m)) + Cardinality(DelayedOf(m))
                       /\ Cardinality(ReadyOf(m)') \in Int /\ Cardinality(DelayedOf(m)') \in Int
    BY <2>1, MigratedCount
  <2>4. \A m \in Msg : WorkersOf(m)' = WorkersOf(m)
    BY <2>2 DEF WorkersOf, TypeInv, Shape
  <2>5. \A m \in Msg : InPlay(m)' = InPlay(m)
    BY <1>a, <2>3, <2>4 DEF InPlay
  <2> QED
    BY <1>a, <1>e, <2>2, <2>4, <2>5, OnceKept
<1>5. ASSUME NEW c \in Consumer, MigrateReserved(c) PROVE OnceInv'
  <2>1. /\ pc[c] = "migrate" /\ pc' = [pc EXCEPT ![c] = "reserve"]
        /\ UNCHANGED <<delayed, job, published, handled, dlq>>
    BY <1>5 DEF MigrateReserved, Goto, keys
  <2>2. \A m \in Msg : WorkersOf(m)' = WorkersOf(m)
    BY <2>1 DEF WorkersOf, TypeInv, Shape
  <2>3. (recovered => recovered') /\ (~recovered' => ready' = ready)
    <3>1. CASE UNCHANGED <<keys, recovered>>
      BY <3>1 DEF keys
    <3>2. ASSUME NEW s \in ZRangeByScore(reserved, pinned[c], Batch), Pushed(s),
                 recovered' = (recovered \/ Len(s) > 0)
          PROVE  (recovered => recovered') /\ (~recovered' => ready' = ready)
      <4>1. Len(s) \in Nat
        BY ReservedBatch
      <4>2. ASSUME Len(s) = 0 PROVE ready' = ready
        <5>1. [i \in 1..Len(s) |-> s[i].member] = <<>>
          BY <4>2
        <5> QED
          BY <1>b, <3>2, <5>1 DEF Pushed
      <4>3. ~(Len(s) > 0) => Len(s) = 0
        BY <4>1
      <4> QED
        BY <3>2, <4>2, <4>3, Zenon
    <3> QED
      BY <1>5, <3>1, <3>2 DEF MigrateReserved
  <2>4. ~recovered' => \A m \in Msg : InPlay(m)' = InPlay(m)
    BY <1>d, <2>1, <2>2, <2>3 DEF InPlay
  <2> QED
    BY <1>a, <1>e, <2>1, <2>2, <2>3, <2>4, OnceKept
<1>6. ASSUME NEW c \in Consumer, Reserve(c) PROVE OnceInv'
  <2> DEFINE body == Head(ready)
             r == [head |-> body, member |-> Reencoded(body)]
  <2>1. /\ pc[c] = "reserve" /\ pc' = [pc EXCEPT ![c] = "working"]
        /\ job' = [job EXCEPT ![c] = r] /\ ready' = Tail(ready) /\ ready # <<>>
        /\ UNCHANGED <<delayed, published, handled, dlq, recovered>>
    BY <1>6, <1>b DEF Reserve, Goto, outcomes
  <2>2. body \in Body /\ r.head = body
    BY <1>b, <2>1
  <2> HIDE DEF body, r
  <2>3. \A m \in Msg : Cardinality(ReadyOf(m)') = IF body \in Kind(m)
          THEN Cardinality(ReadyOf(m)) - 1 ELSE Cardinality(ReadyOf(m))
    BY <1>b, <1>c, <2>1, PopCount DEF body
  <2>4. \A m : body \in Kind(m) <=> body.msg = m
    BY <2>2 DEF Kind
  <2>5. ASSUME NEW m \in Msg
        PROVE  /\ IsFiniteSet(WorkersOf(m)')
               /\ Cardinality(WorkersOf(m)') = IF body \in Kind(m)
                    THEN Cardinality(WorkersOf(m)) + 1 ELSE Cardinality(WorkersOf(m))
    <3>1. c \notin WorkersOf(m)
      BY <2>1 DEF WorkersOf
    <3>2. WorkersOf(m)' = IF body.msg = m THEN WorkersOf(m) \cup {c} ELSE WorkersOf(m)
      BY <2>1, <2>2 DEF WorkersOf, TypeInv, Shape
    <3>3. IsFiniteSet(WorkersOf(m) \cup {c})
          /\ Cardinality(WorkersOf(m) \cup {c}) = Cardinality(WorkersOf(m)) + 1
      BY <1>a, <3>1, FS_AddElement
    <3> QED
      BY <1>a, <2>4, <3>2, <3>3
  <2>6. \A m \in Msg : InPlay(m)' = InPlay(m)
    BY <1>a, <1>d, <2>1, <2>3, <2>5 DEF InPlay
  <2> QED
    BY <1>a, <1>e, <2>1, <2>5, <2>6, OnceKept
<1>7. ASSUME NEW c \in Consumer, NEW step, step # "working",
             pc' = [pc EXCEPT ![c] = step],
             UNCHANGED <<ready, delayed, job, published, handled, dlq, recovered>>
      PROVE  OnceInv'
  <2>1. \A m \in Msg : /\ IsFiniteSet(WorkersOf(m)') /\ Cardinality(WorkersOf(m)') \in Nat
                       /\ Cardinality(WorkersOf(m)') <= Cardinality(WorkersOf(m))
    <3> SUFFICES ASSUME NEW m \in Msg
                 PROVE  /\ IsFiniteSet(WorkersOf(m)') /\ Cardinality(WorkersOf(m)') \in Nat
                        /\ Cardinality(WorkersOf(m)') <= Cardinality(WorkersOf(m))
      OBVIOUS
    <3>1. /\ IsFiniteSet(WorkersOf(m)') /\ Cardinality(WorkersOf(m)') \in Nat
          /\ Cardinality(WorkersOf(m)')
               = IF c \in WorkersOf(m) THEN Cardinality(WorkersOf(m)) - 1
                 ELSE Cardinality(WorkersOf(m))
      BY <1>7, WorkerLeaves
    <3> QED
      BY <1>a, <3>1
  <2>2. \A m \in Msg : InPlay(m)' <= InPlay(m) /\ InPlay(m)' \in Nat /\ InPlay(m) \in Nat
    BY <1>7, <1>a, <1>d, <2>1 DEF InPlay
  <2> QED
    BY <1>7, <1>a, <1>e, <2>1, <2>2, OnceKept
<1>8. ASSUME NEW c \in Consumer, NEW step, step # "working",
             pc[c] = "working", pc' = [pc EXCEPT ![c] = step],
             UNCHANGED <<ready, job, published, recovered>>,
             \A m \in Msg :
               /\ handled'[m] \in Nat /\ dlq'[m] \in Nat /\ Cardinality(DelayedOf(m)') \in Nat
               /\ handled'[m] + dlq'[m] + Cardinality(DelayedOf(m)')
                    <= handled[m] + dlq[m] + Cardinality(DelayedOf(m))
                         + (IF m = job[c].head.msg THEN 1 ELSE 0)
      PROVE  OnceInv'
  <2>1. \A m \in Msg : c \in WorkersOf(m) <=> m = job[c].head.msg
    BY <1>8 DEF WorkersOf
  <2>2. \A m \in Msg : /\ IsFiniteSet(WorkersOf(m)') /\ Cardinality(WorkersOf(m)') \in Nat
                       /\ Cardinality(WorkersOf(m)') = IF m = job[c].head.msg
                            THEN Cardinality(WorkersOf(m)) - 1 ELSE Cardinality(WorkersOf(m))
    BY <1>8, <2>1, WorkerLeaves
  <2>3. \A m \in Msg : /\ InPlay(m)' \in Nat /\ InPlay(m) \in Nat
                       /\ handled'[m] + dlq'[m] + InPlay(m)' <= handled[m] + dlq[m] + InPlay(m)
    BY <1>8, <1>a, <1>d, <2>2 DEF InPlay
  <2> QED
    BY <1>8, <1>a, <2>2, <2>3, OnceKept
<1>9. ASSUME NEW c \in Consumer, Handle(c) PROVE OnceInv'
  <2>1. /\ pc[c] = "working" /\ pc' = [pc EXCEPT ![c] = "ack"]
        /\ handled' = [handled EXCEPT ![job[c].head.msg] = @ + 1]
        /\ UNCHANGED <<ready, delayed, job, published, dlq, recovered>>
    BY <1>9 DEF Handle, Goto, keys
  <2>2. \A m \in Msg : handled'[m] = handled[m] + (IF m = job[c].head.msg THEN 1 ELSE 0)
    BY <1>a, <2>1 DEF TypeInv, Shape
  <2>3. \A m \in Msg :
          /\ handled'[m] \in Nat /\ dlq'[m] \in Nat /\ Cardinality(DelayedOf(m)') \in Nat
          /\ handled'[m] + dlq'[m] + Cardinality(DelayedOf(m)')
               <= handled[m] + dlq[m] + Cardinality(DelayedOf(m))
                    + (IF m = job[c].head.msg THEN 1 ELSE 0)
    BY <1>a, <1>d, <2>1, <2>2
  <2> QED
    BY <1>8, <2>1, <2>3
<1>10. ASSUME NEW c \in Consumer, DeadLetter(c) PROVE OnceInv'
  <2>1. /\ pc[c] = "working" /\ pc' = [pc EXCEPT ![c] = "idle"]
        /\ dlq' = dlq \/ dlq' = [dlq EXCEPT ![job[c].head.msg] = @ + 1]
        /\ UNCHANGED <<ready, delayed, job, published, handled, recovered>>
    BY <1>10 DEF DeadLetter, Goto
  <2>2. \A m \in Msg : dlq'[m] \in Nat
                       /\ dlq'[m] <= dlq[m] + (IF m = job[c].head.msg THEN 1 ELSE 0)
    BY <1>a, <2>1 DEF TypeInv, Shape
  <2>3. \A m \in Msg :
          /\ handled'[m] \in Nat /\ dlq'[m] \in Nat /\ Cardinality(DelayedOf(m)') \in Nat
          /\ handled'[m] + dlq'[m] + Cardinality(DelayedOf(m)')
               <= handled[m] + dlq[m] + Cardinality(DelayedOf(m))
                    + (IF m = job[c].head.msg THEN 1 ELSE 0)
    BY <1>a, <1>d, <2>1, <2>2
  <2> QED
    BY <1>8, <2>1, <2>3
<1>11. ASSUME NEW c \in Consumer, Release(c) PROVE OnceInv'
  <2> DEFINE e == [member |-> Advance(job[c].head, "sdk"), score |-> now + Delay]
  <2>1. /\ pc[c] = "working" /\ pc' = [pc EXCEPT ![c] = "idle"]
        /\ delayed' = ZAdd(delayed, e)
        /\ UNCHANGED <<ready, job, published, handled, dlq, recovered>>
    BY <1>11 DEF Release, Goto, outcomes
  <2>2. \A m : e.member \in Kind(m) => m = job[c].head.msg
    BY DEF Kind, Advance
  <2> HIDE DEF e
  <2>3. ASSUME NEW m \in Msg
        PROVE  Cardinality(DelayedOf(m)') \in Nat /\ Cardinality(DelayedOf(m)')
                 <= Cardinality(DelayedOf(m)) + (IF m = job[c].head.msg THEN 1 ELSE 0)
    <3>1. Cardinality(DelayedOf(m)') \in Nat /\ Cardinality(DelayedOf(m)')
            <= Cardinality(DelayedOf(m)) + (IF e.member \in Kind(m) THEN 1 ELSE 0)
      BY <2>1, DelayedCount
    <3> QED
      BY <1>a, <2>2, <3>1
  <2>4. \A m \in Msg :
          /\ handled'[m] \in Nat /\ dlq'[m] \in Nat /\ Cardinality(DelayedOf(m)') \in Nat
          /\ handled'[m] + dlq'[m] + Cardinality(DelayedOf(m)')
               <= handled[m] + dlq[m] + Cardinality(DelayedOf(m))
                    + (IF m = job[c].head.msg THEN 1 ELSE 0)
    BY <1>a, <2>1, <2>3
  <2> QED
    BY <1>8, <2>1, <2>4
<1>12. ASSUME NEW c \in Consumer, ReserveEmpty(c) \/ Wake(c) \/ Abandon(c) \/ Ack(c)
       PROVE  OnceInv'
  <2>1. /\ pc' = [pc EXCEPT ![c] = "idle"] \/ pc' = [pc EXCEPT ![c] = "down"]
           \/ pc' = [pc EXCEPT ![c] = "wait"]
        /\ UNCHANGED <<ready, delayed, job, published, handled, dlq, recovered>>
    BY <1>12 DEF ReserveEmpty, Wake, Abandon, Ack, Goto, keys, outcomes
  <2> QED
    BY <1>7, <2>1
<1>13. CASE Tick \/ UNCHANGED vars
  BY <1>3, <1>13 DEF Tick, vars, keys, outcomes
<1> QED
  BY <1>1, <1>2, <1>4, <1>5, <1>6, <1>9, <1>10, <1>11, <1>12, <1>13
  DEF Next, Poll, Finish

(* OnceUnlessRecovered: as long as no expired reservation was made ready    *)
(* again, no message ends more often than it was published, however acks,   *)
(* releases and migrations of equal bodies interleave.                      *)
THEOREM DuplicatesOnlyRecovered == Spec => []OnceUnlessRecovered
<1>1. Init => OnceInv
  <2> SUFFICES ASSUME Init PROVE OnceInv
    OBVIOUS
  <2>1. \A m \in Msg : ReadyOf(m) = {} /\ DelayedOf(m) = {} /\ WorkersOf(m) = {}
    BY DEF Init, ReadyOf, DelayedOf, WorkersOf
  <2>2. \A m \in Msg : handled[m] = 0 /\ dlq[m] = 0 /\ published[m] = 0
    BY DEF Init, Zero
  <2> QED
    BY <2>1, <2>2, FS_EmptySet DEF OnceInv, InPlay
<1>2. TypeInv /\ OnceInv => OnceUnlessRecovered
  <2> SUFFICES ASSUME TypeInv, OnceInv, ~recovered, NEW m \in Msg
               PROVE  handled[m] + dlq[m] <= published[m]
    BY DEF OnceUnlessRecovered
  <2>1. handled[m] + dlq[m] + InPlay(m) <= published[m]
    BY DEF OnceInv
  <2> QED
    BY <2>1, CountTypes DEF InPlay
<1> QED
  BY <1>1, <1>2, InitType, NextType, NextOnce, PTL DEF Spec
=============================================================================
