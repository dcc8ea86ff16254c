------------------------- MODULE RedisLegacyProofs -------------------------
(***************************************************************************)
(* Proofs about RedisLegacy, for every number of consumers, clock skew,    *)
(* batch size and leftover of an older version.                            *)
(***************************************************************************)
EXTENDS RedisLegacy, FiniteSetTheorems, SequenceTheorems, TLAPS

-----------------------------------------------------------------------------
(* Counting the places of lists and what a batch of members is.            *)

\* The positions of list whose value is in the set kind.
Places(list, kind) == {i \in 1..Len(list) : list[i] \in kind}

(* Sets in one-to-one correspondence are equally large.                     *)
LEMMA SameCount ==
  ASSUME NEW S, NEW T, IsFiniteSet(S), NEW f \in [S -> T],
         \A a, b \in S : f[a] = f[b] => a = b, \A y \in T : \E a \in S : f[a] = y
  PROVE  IsFiniteSet(T) /\ Cardinality(T) = Cardinality(S)
<1>1. f \in Bijection(S, T)
  BY DEF Bijection, Injection, Surjection, IsInjective
<1>2. ExistsBijection(S, T)
  BY <1>1 DEF ExistsBijection
<1> QED
  BY <1>2, FS_Bijection

(* A list has finitely many places.                                         *)
LEMMA PlacesType ==
  ASSUME NEW list, Len(list) \in Nat, NEW kind
  PROVE  IsFiniteSet(Places(list, kind)) /\ Cardinality(Places(list, kind)) \in Nat
<1>1. IsFiniteSet(1..Len(list))
  BY FS_Interval
<1>2. IsFiniteSet(Places(list, kind))
  BY <1>1, FS_Subset DEF Places
<1> QED
  BY <1>2, FS_CardinalityType

(* A push adds one place, if its value is of the kind.                      *)
LEMMA PushCount ==
  ASSUME NEW V, NEW list \in Seq(V), NEW x \in V, NEW kind
  PROVE  Cardinality(Places(Append(list, x), kind))
           = IF x \in kind THEN Cardinality(Places(list, kind)) + 1 ELSE Cardinality(Places(list, kind))
<1> DEFINE n == Len(list)
<1>1. n \in Nat /\ Len(Append(list, x)) = n + 1
  OBVIOUS
<1>2. Append(list, x)[n + 1] = x /\ \A i \in 1..n : Append(list, x)[i] = list[i]
  OBVIOUS
<1>3. IsFiniteSet(Places(list, kind)) /\ Cardinality(Places(list, kind)) \in Nat
  BY <1>1, PlacesType
<1>4. n + 1 \notin Places(list, kind)
  BY <1>1 DEF Places
<1>5. CASE x \in kind
  <2>1. Places(Append(list, x), kind) = Places(list, kind) \cup {n + 1}
    BY <1>1, <1>2, <1>5 DEF Places
  <2> QED
    BY <1>3, <1>4, <1>5, <2>1, FS_AddElement
<1>6. CASE x \notin kind
  <2>1. Places(Append(list, x), kind) = Places(list, kind)
    BY <1>1, <1>2, <1>6 DEF Places
  <2> QED
    BY <1>6, <2>1
<1> QED
  BY <1>5, <1>6

(* A pop takes the head's place away, if it is one.                         *)
LEMMA PopCount ==
  ASSUME NEW V, NEW list \in Seq(V), list # <<>>, NEW kind
  PROVE  /\ Cardinality(Places(Tail(list), kind))
              = IF Head(list) \in kind THEN Cardinality(Places(list, kind)) - 1
                ELSE Cardinality(Places(list, kind))
         /\ Head(list) \in kind => Cardinality(Places(list, kind)) > 0
<1> DEFINE n == Len(list)
           S == Places(Tail(list), kind)
           T == Places(list, kind) \ {1}
<1>1. n \in Nat /\ n > 0 /\ Len(Tail(list)) = n - 1 /\ Head(list) = list[1]
  OBVIOUS
<1>2. \A i \in 1..(n - 1) : Tail(list)[i] = list[i + 1]
  OBVIOUS
<1>3. IsFiniteSet(S) /\ IsFiniteSet(Places(list, kind)) /\ Cardinality(Places(list, kind)) \in Nat
  <2>1. Len(Tail(list)) \in Nat
    BY <1>1
  <2> QED
    BY <1>1, <2>1, PlacesType
<1>4. Cardinality(T) = Cardinality(S)
  <2> DEFINE f == [i \in S |-> i + 1]
  <2>1. \A i \in S : i \in 1..(n - 1) /\ i + 1 \in T
    BY <1>1, <1>2 DEF Places
  <2>2. f \in [S -> T]
    BY <2>1
  <2>3. \A a, b \in S : f[a] = f[b] => a = b
    BY <2>1
  <2>4. ASSUME NEW y \in T PROVE \E a \in S : f[a] = y
    <3>1. y \in 1..n /\ y # 1 /\ list[y] \in kind
      BY DEF Places
    <3>2. y - 1 \in 1..(n - 1) /\ (y - 1) + 1 = y
      BY <1>1, <3>1
    <3>3. y - 1 \in S
      BY <1>1, <1>2, <3>1, <3>2 DEF Places
    <3> QED
      BY <3>2, <3>3
  <2> HIDE DEF f, S, T
  <2> QED
    BY <1>3, <2>2, <2>3, <2>4, SameCount
<1>5. 1 \in Places(list, kind) <=> Head(list) \in kind
  BY <1>1 DEF Places
<1>6. Cardinality(T) = IF 1 \in Places(list, kind) THEN Cardinality(Places(list, kind)) - 1
                       ELSE Cardinality(Places(list, kind))
  BY <1>3, FS_RemoveElement
<1>7. 1 \in Places(list, kind) => Cardinality(Places(list, kind)) # 0
  BY <1>3, FS_EmptySet
<1> QED
  BY <1>3, <1>4, <1>5, <1>6, <1>7

(* Appending a list adds its places.                                        *)
LEMMA ConcatCount ==
  ASSUME NEW V, NEW list \in Seq(V), NEW more \in Seq(V), NEW kind
  PROVE  Cardinality(Places(list \o more, kind))
           = Cardinality(Places(list, kind)) + Cardinality(Places(more, kind))
<1> DEFINE n == Len(list)
           k == Len(more)
           S == Places(more, kind)
           T == {i \in (n + 1)..(n + k) : more[i - n] \in kind}
<1>1. n \in Nat /\ k \in Nat /\ Len(list \o more) = n + k
  OBVIOUS
<1>2. /\ \A i \in 1..n : (list \o more)[i] = list[i]
      /\ \A i \in (n + 1)..(n + k) : (list \o more)[i] = more[i - n]
  OBVIOUS
<1>3. /\ IsFiniteSet(S) /\ Cardinality(S) \in Nat
      /\ IsFiniteSet(Places(list, kind)) /\ Cardinality(Places(list, kind)) \in Nat
  BY <1>1, PlacesType
<1>4. IsFiniteSet(T) /\ Cardinality(T) = Cardinality(S)
  <2> DEFINE f == [i \in S |-> i + n]
  <2>1. \A i \in S : i \in 1..k /\ i + n \in T
    <3> SUFFICES ASSUME NEW i \in S PROVE i \in 1..k /\ i + n \in T
      OBVIOUS
    <3>1. i \in 1..k /\ more[i] \in kind
      BY DEF Places
    <3>2. i + n \in (n + 1)..(n + k) /\ (i + n) - n = i
      BY <1>1, <3>1
    <3> QED
      BY <3>1, <3>2
  <2>2. f \in [S -> T]
    BY <2>1
  <2>3. \A a, b \in S : f[a] = f[b] => a = b
    BY <1>1, <2>1
  <2>4. ASSUME NEW y \in T PROVE \E a \in S : f[a] = y
    <3>1. y - n \in 1..k /\ more[y - n] \in kind /\ (y - n) + n = y
      BY <1>1
    <3>2. y - n \in S
      BY <3>1 DEF Places
    <3> QED
      BY <3>1, <3>2
  <2> HIDE DEF f, S, T
  <2> QED
    BY <1>3, <2>2, <2>3, <2>4, SameCount
<1>5. Places(list \o more, kind) = Places(list, kind) \cup T
  <2>1. ASSUME NEW i \in Places(list \o more, kind) PROVE i \in Places(list, kind) \cup T
    BY <1>1, <1>2 DEF Places
  <2>2. ASSUME NEW i \in Places(list, kind) \cup T PROVE i \in Places(list \o more, kind)
    BY <1>1, <1>2 DEF Places
  <2> QED
    BY <2>1, <2>2
<1>6. Places(list, kind) \cap T = {}
  BY <1>1 DEF Places
<1> HIDE DEF T
<1>7. Cardinality(Places(list, kind) \cup T)
        = Cardinality(Places(list, kind)) + Cardinality(T) - Cardinality(Places(list, kind) \cap T)
  BY <1>3, <1>4, FS_Union
<1>8. Cardinality(Places(list, kind) \cap T) = 0
  BY <1>6, FS_EmptySet
<1> QED
  BY <1>3, <1>4, <1>5, <1>7, <1>8

(* A batch is a list of different members whose score has passed.            *)
LEMMA BatchType ==
  ASSUME NEW zset, IsFiniteSet(zset), NEW t, NEW limit \in Nat,
         NEW s \in ZRangeByScore(zset, t, limit)
  PROVE  /\ Len(s) \in Nat
         /\ s \in [1..Len(s) -> zset]
         /\ \A i \in 1..Len(s) : s[i].score <= t
         /\ \A i, j \in 1..Len(s) : i # j => s[i] # s[j]
<1> DEFINE n == Taken(zset, t, limit)
<1>1. IsFiniteSet(Due(zset, t)) /\ Due(zset, t) \subseteq zset
  BY FS_Subset DEF Due
<1>2. n \in Nat
  BY <1>1, FS_CardinalityType DEF Taken
<1>3. /\ s \in [1..n -> Due(zset, t)]
      /\ \A i, j \in 1..n : i < j => s[i] # s[j]
  BY DEF ZRangeByScore
<1> HIDE DEF n
<1>4. Len(s) = n
  BY <1>2, <1>3
<1>5. s \in [1..n -> zset]
  BY <1>1, <1>3
<1>6. ASSUME NEW i \in 1..n, NEW j \in 1..n, i # j PROVE s[i] # s[j]
  <2>1. i \in Int /\ j \in Int
    BY <1>2
  <2>2. i < j \/ j < i
    BY <1>6, <2>1
  <2> QED
    BY <1>3, <2>2
<1>7. \A i \in 1..n : s[i].score <= t
  BY <1>3 DEF Due
<1> QED
  BY <1>2, <1>4, <1>5, <1>6, <1>7

-----------------------------------------------------------------------------

(* Sweeping a batch takes as many members from a value's reservations as    *)
(* the batch holds of that value.                                           *)
LEMMA SweptCount ==
  ASSUME IsFiniteSet(deadlines), NEW s, Len(s) \in Nat, s \in [1..Len(s) -> deadlines],
         \A i, j \in 1..Len(s) : i # j => s[i] # s[j], NEW r
  PROVE  /\ Upto(s, Len(s), r) \in Nat
         /\ Upto(s, Len(s), r) <= Cardinality(Holding(r))
         /\ Cardinality({d \in deadlines \ {s[i] : i \in 1..Len(s)} : d.raw = r})
              = Cardinality(Holding(r)) - Upto(s, Len(s), r)
<1> DEFINE I == {j \in 1..Len(s) : s[j].raw = r}
           R == {s[j] : j \in I}
           M == {s[i] : i \in 1..Len(s)}
<1>1. IsFiniteSet(I)
  <2>1. IsFiniteSet(1..Len(s))
    BY FS_Interval
  <2> QED
    BY <2>1, FS_Subset
<1>2. ExistsBijection(I, R)
  <2> DEFINE f == [j \in I |-> s[j]]
  <2>1. f \in [I -> R]
    OBVIOUS
  <2>2. \A a, b \in I : f[a] = f[b] => a = b
    OBVIOUS
  <2>3. \A y \in R : \E a \in I : f[a] = y
    OBVIOUS
  <2>4. f \in Bijection(I, R)
    BY <2>1, <2>2, <2>3 DEF Bijection, Injection, Surjection, IsInjective
  <2> QED
    BY <2>4 DEF ExistsBijection
<1>3. Cardinality(R) = Cardinality(I) /\ Cardinality(I) \in Nat
  BY <1>1, <1>2, FS_Bijection, FS_CardinalityType
<1>4. IsFiniteSet(Holding(r))
  BY FS_Subset DEF Holding
<1>5. Holding(r) \cap M = R
  BY DEF Holding
<1>6. R \subseteq Holding(r)
  BY <1>5
<1>7. Cardinality(R) <= Cardinality(Holding(r))
  BY <1>4, <1>6, FS_Subset
<1>8. {d \in deadlines \ M : d.raw = r} = Holding(r) \ M
  BY DEF Holding
<1>9. Cardinality(Holding(r) \ M) = Cardinality(Holding(r)) - Cardinality(R)
  BY <1>4, <1>5, FS_Difference
<1>10. Upto(s, Len(s), r) = Cardinality(I)
  BY DEF Upto
<1> QED
  BY <1>3, <1>7, <1>8, <1>9, <1>10

(* The inductive invariant holds initially.                                 *)
LEMMA InitInv == Init => IInv
<1> SUFFICES ASSUME Init PROVE IInv
  OBVIOUS
<1>1. TypeOK
  BY LimitsAssumption, OldItemsAssumption DEF Init, TypeOK
<1>2. deadlines = {}
  BY DEF Init
<1>3. \A r \in Raw : Cardinality(Holding(r)) = 0
  <2>1. \A r \in Raw : Holding(r) = {}
    BY <1>2 DEF Holding
  <2> QED
    BY <2>1, FS_EmptySet
<1>4. Accounting
  <2>1. processing = OldItems
    BY DEF Init
  <2> QED
    BY <1>3, <2>1, OldItemsAssumption DEF Accounting
<1> QED
  BY <1>1, <1>2, <1>4, FS_EmptySet DEF IInv, TokensDrawn

(* A sweep returns the copies of the members it removes.                    *)
LEMMA SweepInv ==
  ASSUME IInv, NEW c \in Consumer, Sweep(c)
  PROVE  IInv'
<1> USE DEF IInv
<1>1. Clock(c) \in Nat
  BY ConsumersAssumption, LimitsAssumption DEF Clock, TypeOK
<1>2. PICK s \in ZRangeByScore(deadlines, Clock(c), Batch) : SweepMembers(s)
  BY DEF Sweep
<1>3. /\ Len(s) \in Nat /\ s \in [1..Len(s) -> deadlines]
      /\ \A i, j \in 1..Len(s) : i # j => s[i] # s[j]
  BY <1>1, BatchType, LimitsAssumption
<1>4. deadlines' = deadlines \ {s[i] : i \in 1..Len(s)}
  BY <1>2 DEF SweepMembers
<1>5. IsFiniteSet(deadlines') /\ deadlines' \subseteq deadlines
  BY <1>4, FS_Subset
<1>6. ASSUME NEW r \in Raw
      PROVE  processing'[r] \in Nat /\ processing'[r] = OldItems[r] + Cardinality(Holding(r)')
  <2>1. /\ Upto(s, Len(s), r) \in Nat
        /\ Upto(s, Len(s), r) <= Cardinality(Holding(r))
        /\ Cardinality(Holding(r)') = Cardinality(Holding(r)) - Upto(s, Len(s), r)
    BY <1>3, <1>4, SweptCount DEF Holding
  <2>2. processing[r] = OldItems[r] + Cardinality(Holding(r))
    BY DEF Accounting
  <2>3. Cardinality(Holding(r)) \in Nat /\ OldItems[r] \in Nat
    BY FS_Subset, FS_CardinalityType, OldItemsAssumption DEF Holding
  <2>4. processing'[r] = IF processing[r] < Upto(s, Len(s), r) THEN 0
                         ELSE processing[r] - Upto(s, Len(s), r)
    BY <1>2 DEF SweepMembers
  <2> QED
    BY <2>1, <2>2, <2>3, <2>4
<1>7. ready' \in Seq(Raw)
  <2> DEFINE P == {i \in 1..Len(s) : Found(s, i)}
  <2>1. PICK moved \in InOrder(P) : ready' = ready \o [k \in 1..Len(moved) |-> s[moved[k]].raw]
    BY <1>2 DEF SweepMembers
  <2>2. IsFiniteSet(P)
    <3>1. IsFiniteSet(1..Len(s))
      BY <1>3, FS_Interval
    <3> QED
      BY <3>1, FS_Subset
  <2>3. Cardinality(P) \in Nat
    BY <2>2, FS_CardinalityType
  <2>4. moved \in [1..Cardinality(P) -> P]
    BY DEF InOrder
  <2>5. Len(moved) = Cardinality(P)
    BY <2>3, <2>4
  <2>6. \A k \in 1..Len(moved) : moved[k] \in 1..Len(s)
    BY <2>4, <2>5
  <2>7. \A k \in 1..Len(moved) : s[moved[k]].raw \in Raw
    BY <1>3, <2>6 DEF TypeOK, Deadline
  <2>8. [k \in 1..Len(moved) |-> s[moved[k]].raw] \in Seq(Raw)
    BY <2>3, <2>5, <2>7
  <2> QED
    BY <2>1, <2>8 DEF TypeOK
<1>8. processing' \in [Raw -> Nat]
  BY <1>2, <1>6 DEF SweepMembers
<1>9. TypeOK'
  BY <1>1, <1>5, <1>7, <1>8 DEF Sweep, TypeOK
<1>10. TokensDrawn'
  BY <1>5 DEF TokensDrawn, Sweep
<1>11. Accounting'
  BY <1>6 DEF Accounting
<1> QED
  BY <1>5, <1>9, <1>10, <1>11

(* A reservation adds one copy and one member, under a token not in use.    *)
LEMMA ReserveInv ==
  ASSUME IInv, NEW c \in Consumer, Reserve(c)
  PROVE  IInv'
<1> USE DEF IInv
<1> DEFINE raw == Head(ready)
           d   == [token |-> reserved + 1, raw |-> raw, score |-> DeadlineArg(c)]
<1>1. raw \in Raw /\ Tail(ready) \in Seq(Raw)
  BY DEF Reserve, TypeOK
<1>2. DeadlineArg(c) \in Nat
  BY NeverAssumption, LimitsAssumption DEF DeadlineArg, TypeOK
<1>3. reserved + 1 \in Token
  BY LimitsAssumption DEF Reserve, Room, TypeOK, Token
<1>4. d \in Deadline
  BY <1>1, <1>2, <1>3 DEF Deadline
<1>5. d \notin deadlines
  <2> SUFFICES ASSUME d \in deadlines PROVE FALSE
    OBVIOUS
  <2>1. d.token <= reserved
    BY DEF TokensDrawn
  <2> QED
    BY <2>1 DEF TypeOK
<1>6. /\ deadlines' = deadlines \cup {d}
      /\ processing' = [processing EXCEPT ![raw] = @ + 1]
      /\ ready' = Tail(ready) /\ job' = [job EXCEPT ![c] = d]
      /\ reserved' = reserved + 1 /\ pc' = [pc EXCEPT ![c] = "working"]
      /\ reserved < MaxReservations
  BY DEF Reserve, Room
<1> HIDE DEF d, raw
<1>7. IsFiniteSet(deadlines')
  BY <1>6, FS_AddElement
<1>8. ASSUME NEW r \in Raw
      PROVE  processing'[r] \in Nat /\ processing'[r] = OldItems[r] + Cardinality(Holding(r)')
  <2>1. IsFiniteSet(Holding(r)) /\ Cardinality(Holding(r)) \in Nat /\ OldItems[r] \in Nat
    BY FS_Subset, FS_CardinalityType, OldItemsAssumption DEF Holding
  <2>2. processing[r] = OldItems[r] + Cardinality(Holding(r))
    BY DEF Accounting
  <2>3. d.raw = raw
    BY DEF d
  <2>4. CASE r = raw
    <3>1. Holding(r)' = Holding(r) \cup {d} /\ d \notin Holding(r)
      BY <1>5, <1>6, <2>3, <2>4 DEF Holding
    <3>2. Cardinality(Holding(r)') = Cardinality(Holding(r)) + 1
      BY <2>1, <3>1, FS_AddElement
    <3>3. processing'[r] = processing[r] + 1
      BY <1>1, <1>6, <2>4 DEF TypeOK
    <3> QED
      BY <2>1, <2>2, <3>2, <3>3
  <2>5. CASE r # raw
    <3>1. Holding(r)' = Holding(r)
      BY <1>6, <2>3, <2>5 DEF Holding
    <3>2. processing'[r] = processing[r]
      BY <1>6, <2>5 DEF TypeOK
    <3> QED
      BY <2>1, <2>2, <3>1, <3>2
  <2> QED
    BY <2>4, <2>5
<1>9. TypeOK'
  <2>1. deadlines' \subseteq Deadline
    BY <1>4, <1>6 DEF TypeOK
  <2>2. processing' \in [Raw -> Nat]
    BY <1>6, <1>8 DEF TypeOK
  <2>3. reserved' \in 0..MaxReservations
    BY <1>6, LimitsAssumption DEF TypeOK
  <2>4. \A k \in Consumer : pc'[k] = "working" => job'[k] \in Deadline
    BY <1>4, <1>6 DEF TypeOK
  <2>5. job' \in [Consumer -> Deadline \cup {NoJob}]
    BY <1>4, <1>6 DEF TypeOK
  <2> QED
    BY <1>1, <1>6, <2>1, <2>2, <2>3, <2>4, <2>5 DEF Reserve, TypeOK
<1>10. TokensDrawn'
  BY <1>6 DEF TokensDrawn, TypeOK, Deadline, Token, d
<1>11. Accounting'
  BY <1>8 DEF Accounting
<1> QED
  BY <1>7, <1>9, <1>10, <1>11

(* A settle past the gate removes one copy and its own member.              *)
LEMMA DropInv ==
  ASSUME IInv, NEW c \in Consumer, pc[c] = "working", Gate(c), DropReservation(c)
  PROVE  /\ deadlines' \subseteq deadlines
         /\ IsFiniteSet(deadlines')
         /\ processing' \in [Raw -> Nat]
         /\ Accounting'
<1> USE DEF IInv
<1>1. job[c] \in deadlines /\ job[c].raw \in Raw
  BY DEF Gate, TypeOK, Deadline
<1>2. deadlines' = deadlines \ {job[c]} /\ processing' = Lrem(job[c].raw)
  BY DEF DropReservation
<1>3. IsFiniteSet(deadlines')
  BY <1>2, FS_RemoveElement
<1>4. ASSUME NEW r \in Raw
      PROVE  processing'[r] \in Nat /\ processing'[r] = OldItems[r] + Cardinality(Holding(r)')
  <2>1. IsFiniteSet(Holding(r)) /\ Cardinality(Holding(r)) \in Nat /\ OldItems[r] \in Nat
    BY FS_Subset, FS_CardinalityType, OldItemsAssumption DEF Holding
  <2>2. processing[r] = OldItems[r] + Cardinality(Holding(r))
    BY DEF Accounting
  <2>3. CASE r = job[c].raw
    <3>1. Holding(r)' = Holding(r) \ {job[c]} /\ job[c] \in Holding(r)
      BY <1>1, <1>2, <2>3 DEF Holding
    <3>2. Cardinality(Holding(r)') = Cardinality(Holding(r)) - 1
      BY <2>1, <3>1, FS_RemoveElement
    <3>3. Cardinality(Holding(r)') \in Nat
      BY <2>1, <3>1, FS_RemoveElement, FS_CardinalityType
    <3>4. processing'[r] = processing[r] - 1
      BY <1>1, <1>2, <2>1, <2>2, <2>3, <3>2, <3>3 DEF Lrem, TypeOK
    <3> QED
      BY <2>1, <2>2, <3>2, <3>3, <3>4
  <2>4. CASE r # job[c].raw
    <3>1. Holding(r)' = Holding(r)
      BY <1>2, <2>4 DEF Holding
    <3>2. processing'[r] = processing[r]
      BY <1>2, <2>4 DEF Lrem, TypeOK
    <3> QED
      BY <2>1, <2>2, <3>1, <3>2
  <2> QED
    BY <2>3, <2>4
<1>5. processing' \in [Raw -> Nat]
  BY <1>2, <1>4 DEF Lrem, TypeOK
<1> QED
  BY <1>2, <1>3, <1>4, <1>5 DEF Accounting

(* Accounting does not depend on anything else.                             *)
LEMMA KeptInv ==
  ASSUME IInv, TypeOK', UNCHANGED <<processing, deadlines, reserved>>
  PROVE  IInv'
BY DEF IInv, TokensDrawn, Accounting, Holding

(* IInv is inductive.                                                       *)
LEMMA NextInv == IInv /\ [Next]_vars => IInv'
<1> SUFFICES ASSUME IInv, [Next]_vars PROVE IInv'
  OBVIOUS
<1> USE DEF IInv
<1>1. ASSUME NEW m \in Msg, Publish(m) PROVE IInv'
  <2>1. [msg |-> m, attempts |-> 0] \in Raw
    BY LimitsAssumption DEF Raw
  <2>2. TypeOK'
    BY <1>1, <2>1, LimitsAssumption DEF Publish, TypeOK
  <2> QED
    BY <1>1, <2>2, KeptInv DEF Publish
<1>2. CASE Tick
  <2>1. TypeOK'
    BY <1>2, LimitsAssumption DEF Tick, TypeOK
  <2> QED
    BY <1>2, <2>1, KeptInv DEF Tick
<1>3. ASSUME NEW c \in Consumer, Poll(c) PROVE IInv'
  <2>1. CASE ReserveEmpty(c)
    <3>1. TypeOK'
      BY <2>1 DEF ReserveEmpty, TypeOK
    <3> QED
      BY <2>1, <3>1, KeptInv DEF ReserveEmpty
  <2> QED
    BY <1>3, <2>1, SweepInv, ReserveInv DEF Poll
<1>4. ASSUME NEW c \in Consumer, End(c) PROVE IInv'
  <2>1. pc[c] = "working" /\ job[c] \in Deadline /\ job[c].raw \in Raw
    BY <1>4 DEF End, TypeOK, Deadline
  <2>2. CASE ~Gate(c) /\ GateMissed
    <3>1. TypeOK'
      BY <1>4, <2>2 DEF End, GateMissed, Done, TypeOK
    <3> QED
      BY <1>4, <2>2, <3>1, KeptInv DEF End, GateMissed, Done
  <2>3. CASE Gate(c) /\ DropReservation(c) /\ UNCHANGED ready
             /\ ended' = [ended EXCEPT ![job[c].raw] = @ + 1]
    <3>1. deadlines' \subseteq deadlines /\ IsFiniteSet(deadlines')
          /\ processing' \in [Raw -> Nat] /\ Accounting'
      BY <2>1, <2>3, DropInv
    <3>2. ended' \in [Raw -> Nat]
      BY <2>1, <2>3 DEF TypeOK
    <3>3. deadlines' \subseteq Deadline /\ ready' \in Seq(Raw)
      BY <2>3, <3>1 DEF TypeOK
    <3>4. TypeOK'
      BY <1>4, <3>1, <3>2, <3>3 DEF End, Done, TypeOK
    <3>5. TokensDrawn'
      BY <1>4, <3>1 DEF TokensDrawn, End, Done
    <3> QED
      BY <3>1, <3>4, <3>5
  <2> QED
    BY <1>4, <2>2, <2>3 DEF End
<1>5. ASSUME NEW c \in Consumer, Release(c) PROVE IInv'
  <2>1. pc[c] = "working" /\ job[c] \in Deadline /\ job[c].raw \in Raw
    BY <1>5 DEF Release, TypeOK, Deadline
  <2>2. CASE ~Gate(c) /\ GateMissed
    <3>1. TypeOK'
      BY <1>5, <2>2 DEF Release, GateMissed, Done, TypeOK
    <3> QED
      BY <1>5, <2>2, <3>1, KeptInv DEF Release, GateMissed, Done
  <2>3. CASE Gate(c) /\ DropReservation(c) /\ UNCHANGED ended
             /\ ready' = Append(ready, [job[c].raw EXCEPT !.attempts = @ + 1])
    <3>1. deadlines' \subseteq deadlines /\ IsFiniteSet(deadlines')
          /\ processing' \in [Raw -> Nat] /\ Accounting'
      BY <2>1, <2>3, DropInv
    <3>2. job[c].raw.attempts + 1 \in 0..MaxAttempts
      BY <1>5, <2>1, LimitsAssumption DEF Release, Raw
    <3>3. [job[c].raw EXCEPT !.attempts = @ + 1] \in Raw
      BY <2>1, <3>2 DEF Raw
    <3>4. TypeOK'
      BY <1>5, <2>1, <2>3, <3>1, <3>3 DEF Release, Done, TypeOK
    <3>5. TokensDrawn'
      BY <1>5, <3>1 DEF TokensDrawn, Release, Done
    <3> QED
      BY <3>1, <3>4, <3>5
  <2> QED
    BY <1>5, <2>2, <2>3 DEF Release
<1>6. ASSUME NEW c \in Consumer, Abandon(c) PROVE IInv'
  <2>1. TypeOK'
    BY <1>6 DEF Abandon, GateMissed, TypeOK
  <2> QED
    BY <1>6, <2>1, KeptInv DEF Abandon, GateMissed
<1>7. CASE UNCHANGED vars
  <2>1. TypeOK'
    BY <1>7 DEF vars, TypeOK
  <2> QED
    BY <1>7, <2>1, KeptInv DEF vars
<1> QED
  BY <1>1, <1>2, <1>3, <1>4, <1>5, <1>6, <1>7 DEF Next

(* TypeOK: the three keys hold values and members of the layout's shape,    *)
(* and a consumer that works holds a reservation.                           *)
THEOREM TypeCorrect == Spec => []TypeOK
<1>1. IInv => TypeOK
  BY DEF IInv
<1> QED
  BY <1>1, InitInv, NextInv, PTL DEF Spec

(* Accounting: whatever the interleaving of sweeps, late settles and        *)
(* crashes, the processing list and the deadlines agree, equal bodies and   *)
(* leftovers of an older version included.                                  *)
THEOREM ProcessingAccounted == Spec => []Accounting
<1>1. IInv => Accounting
  BY DEF IInv
<1> QED
  BY <1>1, InitInv, NextInv, PTL DEF Spec

-----------------------------------------------------------------------------
(* A step that gives no consumer a reservation and takes none that is still *)
(* in its time keeps every lease.                                           *)
LEMMA LeaseKept ==
  ASSUME LeaseInv, reserved' = reserved, job' = job,
         \A c \in Consumer : pc'[c] = "working" => pc[c] = "working",
         \A c \in Consumer :
           pc'[c] = "working" /\ (\A k \in Consumer : Clock(k)' < job[c].score) =>
             /\ \A k \in Consumer : Clock(k) < job[c].score
             /\ Gate(c) => job[c] \in deadlines'
  PROVE  LeaseInv'
<1>1. OwnTokens'
  BY DEF LeaseInv, OwnTokens
<1>2. LeaseHonoured'
  BY DEF LeaseInv, LeaseHonoured, Gate
<1> QED
  BY <1>1, <1>2 DEF LeaseInv

(* LeaseInv is inductive, given IInv.                                       *)
LEMMA NextLease == IInv /\ LeaseInv /\ [Next]_vars => LeaseInv'
<1> SUFFICES ASSUME IInv, LeaseInv, [Next]_vars PROVE LeaseInv'
  OBVIOUS
<1>0. /\ now \in Nat
      /\ \A k \in Consumer : Clock(k) \in Nat
      /\ \A c \in Consumer : pc[c] = "working" =>
           job[c] \in Deadline /\ job[c].score \in Nat /\ job[c].token \in Nat
  BY ConsumersAssumption, LimitsAssumption DEF IInv, TypeOK, Clock, Deadline, Token
<1>1. ASSUME NEW m \in Msg, Publish(m) PROVE LeaseInv'
  BY <1>1, LeaseKept DEF Publish, Clock, Gate
<1>2. CASE Tick
  <2>1. \A k \in Consumer : Clock(k)' \in Nat /\ Clock(k) < Clock(k)'
    BY <1>0, <1>2, ConsumersAssumption DEF Tick, Clock
  <2>2. pc' = pc /\ job' = job /\ deadlines' = deadlines /\ reserved' = reserved
    BY <1>2 DEF Tick
  <2>3. ASSUME NEW c \in Consumer, pc[c] = "working",
               \A k \in Consumer : Clock(k)' < job[c].score
        PROVE  \A k \in Consumer : Clock(k) < job[c].score
    BY <1>0, <2>1, <2>3
  <2> QED
    BY <2>2, <2>3, LeaseKept DEF Gate
<1>3. ASSUME NEW c \in Consumer, Sweep(c) PROVE LeaseInv'
  <2>1. PICK s \in ZRangeByScore(deadlines, Clock(c), Batch) : SweepMembers(s)
    BY <1>3 DEF Sweep
  <2>2. deadlines' = deadlines \ {s[i] : i \in 1..Len(s)}
    BY <2>1 DEF SweepMembers
  <2>3. now' = now /\ job' = job /\ reserved' = reserved /\ pc' = [pc EXCEPT ![c] = "swept"]
    BY <1>3 DEF Sweep
  <2>4. \A i \in 1..Len(s) : s[i].score <= Clock(c)
    BY <1>0, BatchType, LimitsAssumption DEF IInv
  <2>5. ASSUME NEW k \in Consumer, pc'[k] = "working", Clock(c) < job[k].score, Gate(k)
        PROVE  job[k] \in deadlines'
    <3>1. pc[k] = "working"
      BY <2>3, <2>5 DEF IInv, TypeOK
    <3>2. \A i \in 1..Len(s) : s[i] # job[k]
      BY <1>0, <2>4, <2>5, <3>1
    <3> QED
      BY <2>2, <2>5, <3>2 DEF Gate
  <2>6. \A k \in Consumer : pc'[k] = "working" => pc[k] = "working"
    BY <2>3 DEF IInv, TypeOK
  <2>7. \A k \in Consumer : Clock(k)' = Clock(k)
    BY <2>3 DEF Clock
  <2> QED
    BY <2>3, <2>5, <2>6, <2>7, LeaseKept
<1>4. ASSUME NEW c \in Consumer, Reserve(c) PROVE LeaseInv'
  <2> DEFINE d == [token |-> reserved + 1, raw |-> Head(ready), score |-> DeadlineArg(c)]
  <2>1. /\ job' = [job EXCEPT ![c] = d] /\ deadlines' = deadlines \cup {d}
        /\ reserved' = reserved + 1 /\ pc' = [pc EXCEPT ![c] = "working"] /\ now' = now
    BY <1>4 DEF Reserve
  <2>2. d.token = reserved + 1 /\ reserved \in Nat
    BY DEF IInv, TypeOK
  <2> HIDE DEF d
  <2>3. /\ job'[c] = d
        /\ \A k \in Consumer : k # c => job'[k] = job[k] /\ pc'[k] = pc[k]
    BY <2>1 DEF IInv, TypeOK
  <2>4. \A k \in Consumer : k # c /\ pc'[k] = "working" => job'[k].token <= reserved
                                                          /\ job'[k].token \in Nat
    BY <1>0, <2>3 DEF LeaseInv, OwnTokens
  <2>5. OwnTokens'
    <3>1. \A k \in Consumer : pc'[k] = "working" => job'[k].token <= reserved'
      BY <2>1, <2>2, <2>3, <2>4
    <3>2. ASSUME NEW j \in Consumer, NEW k \in Consumer, pc'[j] = "working",
                 pc'[k] = "working", j # k
          PROVE  job'[j].token # job'[k].token
      <4>1. CASE j # c /\ k # c
        BY <2>3, <3>2, <4>1 DEF LeaseInv, OwnTokens
      <4>2. CASE j = c
        BY <2>2, <2>3, <2>4, <3>2, <4>2
      <4>3. CASE k = c
        BY <2>2, <2>3, <2>4, <3>2, <4>3
      <4> QED
        BY <4>1, <4>2, <4>3
    <3> QED
      BY <3>1, <3>2 DEF OwnTokens
  <2>6. LeaseHonoured'
    BY <2>1, <2>3 DEF LeaseInv, LeaseHonoured, Gate, Clock
  <2> QED
    BY <2>5, <2>6 DEF LeaseInv
<1>5. ASSUME NEW c \in Consumer, End(c) \/ Release(c) PROVE LeaseInv'
  <2>1. /\ pc[c] = "working" /\ pc' = [pc EXCEPT ![c] = "idle"]
        /\ now' = now /\ job' = job /\ reserved' = reserved
        /\ deadlines' = deadlines \/ deadlines' = deadlines \ {job[c]}
    BY <1>5 DEF End, Release, Done, GateMissed, DropReservation
  <2>2. ASSUME NEW k \in Consumer, pc'[k] = "working", Gate(k)
        PROVE  pc[k] = "working" /\ job[k] \in deadlines'
    <3>1. k # c /\ pc[k] = "working"
      BY <2>1, <2>2 DEF IInv, TypeOK
    <3>2. job[k] # job[c]
      BY <2>1, <3>1 DEF LeaseInv, OwnTokens
    <3> QED
      BY <2>1, <2>2, <3>1, <3>2 DEF Gate
  <2>3. \A k \in Consumer : pc'[k] = "working" => pc[k] = "working"
    BY <2>1 DEF IInv, TypeOK
  <2>4. \A k \in Consumer : Clock(k)' = Clock(k)
    BY <2>1 DEF Clock
  <2> QED
    BY <2>1, <2>2, <2>3, <2>4, LeaseKept
<1>6. ASSUME NEW c \in Consumer, ReserveEmpty(c) \/ Abandon(c) PROVE LeaseInv'
  <2>1. /\ now' = now /\ job' = job /\ reserved' = reserved /\ deadlines' = deadlines
        /\ \A k \in Consumer : pc'[k] = "working" => pc[k] = "working"
    BY <1>6 DEF ReserveEmpty, Abandon, GateMissed, IInv, TypeOK
  <2>2. \A k \in Consumer : Clock(k)' = Clock(k)
    BY <2>1 DEF Clock
  <2> QED
    BY <2>1, <2>2, LeaseKept DEF Gate
<1>7. CASE UNCHANGED vars
  BY <1>7, LeaseKept DEF vars, Clock, Gate
<1> QED
  BY <1>1, <1>2, <1>3, <1>4, <1>5, <1>6, <1>7 DEF Next, Poll

(* LeaseHonoured: no sweep, however skewed the clocks, and no late settle   *)
(* of another consumer takes a reservation whose deadline has not passed.   *)
THEOREM LeasesHonoured == Spec => []LeaseHonoured
<1>1. Init => LeaseInv
  BY DEF Init, LeaseInv, OwnTokens, LeaseHonoured
<1>2. LeaseInv => LeaseHonoured
  BY DEF LeaseInv
<1> QED
  BY <1>1, <1>2, InitInv, NextInv, NextLease, PTL DEF Spec

-----------------------------------------------------------------------------
(* OneToken is inductive, given IInv: only a reservation adds a member, and *)
(* its token is fresh.                                                      *)
LEMMA NextToken == IInv /\ OneToken /\ [Next]_vars => OneToken'
<1> SUFFICES ASSUME IInv, OneToken, [Next]_vars PROVE OneToken'
  OBVIOUS
<1>1. CASE deadlines' \subseteq deadlines
  BY <1>1 DEF OneToken
<1>2. ASSUME NEW c \in Consumer, Reserve(c) PROVE OneToken'
  <2> DEFINE x == [token |-> reserved + 1, raw |-> Head(ready), score |-> DeadlineArg(c)]
  <2>1. deadlines' = deadlines \cup {x} /\ x.token = reserved + 1 /\ reserved \in Nat
    BY <1>2 DEF Reserve, IInv, TypeOK
  <2> HIDE DEF x
  <2>2. \A d \in deadlines : d.token \in Nat /\ d.token <= reserved
    BY DEF IInv, TypeOK, TokensDrawn, Deadline, Token
  <2> QED
    BY <2>1, <2>2 DEF OneToken
<1>3. ASSUME NEW c \in Consumer, Sweep(c) PROVE deadlines' \subseteq deadlines
  BY <1>3 DEF Sweep, SweepMembers
<1>4. ASSUME NEW c \in Consumer, ReserveEmpty(c) \/ End(c) \/ Release(c) \/ Abandon(c)
      PROVE  deadlines' \subseteq deadlines
  BY <1>4 DEF ReserveEmpty, End, Release, Abandon, GateMissed, DropReservation
<1>5. ASSUME (\E m \in Msg : Publish(m)) \/ Tick \/ UNCHANGED vars
      PROVE  deadlines' \subseteq deadlines
  BY <1>5 DEF Publish, Tick, vars
<1> QED
  BY <1>1, <1>2, <1>3, <1>4, <1>5 DEF Next, Poll

(* A sweep finds every member it takes in the processing list: an orphan    *)
(* cannot arise, so the ready list gets back every value of the batch.      *)
LEMMA SweptFound ==
  ASSUME IInv, NEW s, Len(s) \in Nat, s \in [1..Len(s) -> deadlines],
         \A i, j \in 1..Len(s) : i # j => s[i] # s[j], NEW i \in 1..Len(s)
  PROVE  Found(s, i)
<1> DEFINE r == s[i].raw
           A == {j \in 1..i : s[j].raw = r}
           B == {j \in 1..Len(s) : s[j].raw = r}
<1>1. r \in Raw
  <2>1. s[i] \in Deadline
    BY DEF IInv, TypeOK
  <2> QED
    BY <2>1 DEF Deadline
<1>2. /\ Upto(s, Len(s), r) \in Nat
      /\ Upto(s, Len(s), r) <= Cardinality(Holding(r))
  BY SweptCount DEF IInv
<1>3. processing[r] = OldItems[r] + Cardinality(Holding(r)) /\ OldItems[r] \in Nat
  BY <1>1, OldItemsAssumption DEF IInv, Accounting
<1>4. Cardinality(Holding(r)) \in Nat
  BY FS_Subset, FS_CardinalityType DEF IInv, Holding
<1>5. IsFiniteSet(B) /\ A \subseteq B
  <2>1. IsFiniteSet(1..Len(s))
    BY FS_Interval
  <2>2. 1..i \subseteq 1..Len(s)
    OBVIOUS
  <2> QED
    BY <2>1, <2>2, FS_Subset
<1>6. Cardinality(A) <= Cardinality(B) /\ Cardinality(A) \in Nat
  BY <1>5, FS_Subset, FS_CardinalityType
<1>7. Upto(s, i, r) = Cardinality(A) /\ Upto(s, Len(s), r) = Cardinality(B)
  BY DEF Upto
<1> HIDE DEF r, A, B
<1>8. Upto(s, i, r) <= processing[r]
  BY <1>2, <1>3, <1>4, <1>6, <1>7
<1> QED
  BY <1>8 DEF Found, r

(* The lease queue counts as this module does.                              *)
LEMMA SameCardinality == \A S : LQ!Cardinality(S) = Cardinality(S)
BY DEF LQ!Cardinality, Cardinality

(* What waits is counted by the places of the ready list.                   *)
LEMMA WaitingPlaces == Waiting = [r \in Raw |-> Cardinality(Places(ready, {r}))]
<1>1. \A r \in Raw : {i \in 1..Len(ready) : ready[i] = r} = Places(ready, {r})
  BY DEF Places
<1> QED
  BY <1>1 DEF Waiting

(* The same after a step.                                                   *)
LEMMA WaitingPlacesNext == Waiting' = [r \in Raw |-> Cardinality(Places(ready', {r}))]
<1>1. \A r \in Raw : {i \in 1..Len(ready') : ready'[i] = r} = Places(ready', {r})
  BY DEF Places
<1> QED
  BY <1>1 DEF Waiting

(* A sweep is a lapse of the leases it takes.                               *)
LEMMA SweepLapses ==
  ASSUME IInv, OneToken, NEW c \in Consumer, Sweep(c)
  PROVE  \E gone \in SUBSET Leases : LQ!Lapse(gone)
<1>1. Clock(c) \in Nat
  BY ConsumersAssumption, LimitsAssumption DEF Clock, IInv, TypeOK
<1>2. PICK s \in ZRangeByScore(deadlines, Clock(c), Batch) : SweepMembers(s)
  BY DEF Sweep
<1> DEFINE n == Len(s)
           P == {i \in 1..n : Found(s, i)}
           gone == {LeaseOf(s[i]) : i \in 1..n}
<1>3. /\ n \in Nat /\ s \in [1..n -> deadlines]
      /\ \A i, j \in 1..n : i # j => s[i] # s[j]
  BY <1>1, BatchType, LimitsAssumption DEF IInv
<1>4. P = 1..n
  BY <1>3, SweptFound
<1>5. Cardinality(1..n) = n /\ IsFiniteSet(1..n)
  BY <1>3, FS_Interval
<1>6. PICK moved \in InOrder(1..n) : ready' = ready \o [k \in 1..Len(moved) |-> s[moved[k]].raw]
  BY <1>2, <1>4 DEF SweepMembers
<1>7. moved \in [1..n -> 1..n] /\ \A j, k \in 1..n : j < k => moved[j] < moved[k]
  BY <1>5 DEF InOrder
<1>8. Len(moved) = n
  BY <1>3, <1>7
<1> DEFINE more == [k \in 1..n |-> s[moved[k]].raw]
<1>9. ready' = ready \o more
  BY <1>6, <1>8
<1>10. \A k \in 1..n : s[k] \in Deadline /\ s[k].raw \in Raw
  BY <1>3 DEF IInv, TypeOK, Deadline
<1>11. more \in Seq(Raw) /\ Len(more) = n
  BY <1>3, <1>7, <1>10
<1>12. \A j, k \in 1..n : moved[j] = moved[k] => j = k
  <2> SUFFICES ASSUME NEW j \in 1..n, NEW k \in 1..n, j # k PROVE moved[j] # moved[k]
    OBVIOUS
  <2>1. j < k \/ k < j
    BY <1>3
  <2> QED
    BY <1>3, <1>7, <2>1
<1>13. \A y \in 1..n : \E k \in 1..n : moved[k] = y
  <2>1. moved \in Injection(1..n, 1..n)
    BY <1>7, <1>12 DEF Injection, IsInjective
  <2>2. moved \in Surjection(1..n, 1..n)
    BY <1>5, <2>1, FS_Injection
  <2> QED
    BY <2>2 DEF Surjection
<1> HIDE DEF n
<1>14. ASSUME NEW v \in Raw
       PROVE  /\ IsFiniteSet(Places(more, {v}))
              /\ Cardinality({l \in gone : l.value = v}) = Cardinality(Places(more, {v}))
  <2> DEFINE S == Places(more, {v})
             T == {l \in gone : l.value = v}
             f == [k \in S |-> LeaseOf(s[moved[k]])]
  <2>1. IsFiniteSet(S)
    BY <1>3, <1>11, PlacesType
  <2>2. \A k : k \in S <=> k \in 1..n /\ s[moved[k]].raw = v
    BY <1>11 DEF Places
  <2>3. f \in [S -> T]
    BY <1>7, <2>2 DEF LeaseOf
  <2>4. ASSUME NEW a \in S, NEW b \in S, f[a] = f[b] PROVE a = b
    <3>1. s[moved[a]].token = s[moved[b]].token
      BY <2>4 DEF LeaseOf
    <3>2. moved[a] \in 1..n /\ moved[b] \in 1..n
      BY <1>7, <2>2
    <3>3. s[moved[a]] = s[moved[b]]
      BY <1>3, <3>1, <3>2 DEF OneToken
    <3> QED
      BY <1>3, <1>12, <2>2, <3>2, <3>3
  <2>5. ASSUME NEW l \in T PROVE \E a \in S : f[a] = l
    <3>1. PICK i \in 1..n : l = LeaseOf(s[i])
      OBVIOUS
    <3>2. PICK k \in 1..n : moved[k] = i
      BY <1>13
    <3>3. s[i].raw = v
      BY <3>1 DEF LeaseOf
    <3>4. k \in S
      BY <2>2, <3>2, <3>3
    <3> QED
      BY <3>1, <3>2, <3>4
  <2> HIDE DEF S, T, f
  <2>6. IsFiniteSet(T) /\ Cardinality(T) = Cardinality(S)
    BY <2>1, <2>3, <2>4, <2>5, SameCount
  <2> QED
    BY <2>1, <2>6 DEF S, T
<1>15. deadlines' = deadlines \ {s[i] : i \in 1..n}
  BY <1>2 DEF SweepMembers, n
<1>16. gone \subseteq Leases
  BY <1>3 DEF Leases
<1>17. Leases' = Leases \ gone
  <2>1. ASSUME NEW l \in Leases' PROVE l \in Leases \ gone
    <3>1. PICK d \in deadlines' : l = LeaseOf(d)
      BY DEF Leases, LeaseOf
    <3>2. d \in deadlines /\ \A i \in 1..n : d # s[i]
      BY <1>15
    <3>3. \A i \in 1..n : d.token # s[i].token
      BY <1>3, <3>2 DEF OneToken
    <3>4. l \notin gone
      BY <3>1, <3>3 DEF LeaseOf
    <3> QED
      BY <3>1, <3>2, <3>4 DEF Leases
  <2>2. ASSUME NEW l \in Leases \ gone PROVE l \in Leases'
    <3>1. PICK d \in deadlines : l = LeaseOf(d)
      BY DEF Leases
    <3>2. d \in deadlines'
      BY <1>15, <2>2, <3>1
    <3> QED
      BY <3>1, <3>2 DEF Leases, LeaseOf
  <2> QED
    BY <2>1, <2>2
<1> HIDE DEF more, gone
<1>18. \A v \in Raw : Cardinality(Places(ready', {v}))
                        = Cardinality(Places(ready, {v})) + Cardinality({l \in gone : l.value = v})
  <2> SUFFICES ASSUME NEW v \in Raw
               PROVE  Cardinality(Places(ready', {v}))
                        = Cardinality(Places(ready, {v})) + Cardinality({l \in gone : l.value = v})
    OBVIOUS
  <2>1. ready \in Seq(Raw)
    BY DEF IInv, TypeOK
  <2>2. Cardinality(Places(ready \o more, {v}))
          = Cardinality(Places(ready, {v})) + Cardinality(Places(more, {v}))
    BY <1>11, <2>1, ConcatCount
  <2> QED
    BY <1>9, <1>14, <2>2
<1>19. Waiting' = [v \in Raw |-> Waiting[v] + Cardinality({l \in gone : l.value = v})]
  BY <1>18, WaitingPlaces, WaitingPlacesNext
<1>20. ended' = ended
  BY DEF Sweep
<1>21. LQ!Lapse(gone)
  BY <1>17, <1>19, <1>20, SameCardinality DEF LQ!Lapse
<1> QED
  BY <1>16, <1>21

(* A publish enqueues a fresh value.                                        *)
LEMMA PublishEnqueues ==
  ASSUME IInv, NEW m \in Msg, Publish(m)
  PROVE  \E v \in {r \in Raw : r.attempts = 0} : LQ!Enqueue(v)
<1> DEFINE v == [msg |-> m, attempts |-> 0]
<1>1. v \in Raw /\ v.attempts = 0
  BY LimitsAssumption DEF Raw
<1>2. ready' = Append(ready, v) /\ deadlines' = deadlines /\ ended' = ended /\ ready \in Seq(Raw)
  BY DEF Publish, IInv, TypeOK
<1> HIDE DEF v
<1>3. \A r \in Raw : Cardinality(Places(ready', {r}))
                       = IF v \in {r} THEN Cardinality(Places(ready, {r})) + 1
                         ELSE Cardinality(Places(ready, {r}))
  BY <1>1, <1>2, PushCount
<1>4. Waiting' = [Waiting EXCEPT ![v] = @ + 1]
  BY <1>1, <1>3, WaitingPlaces, WaitingPlacesNext
<1>5. Leases' = Leases
  BY <1>2 DEF Leases, LeaseOf
<1>6. LQ!Enqueue(v)
  BY <1>2, <1>4, <1>5 DEF LQ!Enqueue
<1> QED
  BY <1>1, <1>6

(* A reservation grants a lease under a token that is not in use.           *)
LEMMA ReserveGrants ==
  ASSUME IInv, NEW c \in Consumer, Reserve(c)
  PROVE  \E l \in LQ!Lease : LQ!Grant(l)
<1> DEFINE raw == Head(ready)
           d   == [token |-> reserved + 1, raw |-> raw, score |-> DeadlineArg(c)]
           l   == LeaseOf(d)
<1>1. ready \in Seq(Raw) /\ ready # <<>>
  BY DEF Reserve, IInv, TypeOK
<1>2. raw \in Raw
  BY <1>1
<1>3. reserved + 1 \in Token /\ reserved \in Nat
  BY LimitsAssumption DEF Reserve, Room, IInv, TypeOK, Token
<1>4. l = [token |-> reserved + 1, value |-> raw]
  BY DEF LeaseOf
<1>5. ready' = Tail(ready) /\ deadlines' = deadlines \cup {d} /\ ended' = ended
  BY DEF Reserve
<1> HIDE DEF raw, d, l
<1>6. l \in LQ!Lease /\ l.token = reserved + 1 /\ l.value = raw
  BY <1>2, <1>3, <1>4 DEF LQ!Lease
<1>7. \A r \in Raw : Cardinality(Places(ready', {r}))
                       = IF raw \in {r} THEN Cardinality(Places(ready, {r})) - 1
                         ELSE Cardinality(Places(ready, {r}))
  BY <1>1, <1>5, PopCount DEF raw
<1>8. Cardinality(Places(ready, {raw})) > 0
  BY <1>1, <1>2, PopCount DEF raw
<1>9. Waiting' = [Waiting EXCEPT ![l.value] = @ - 1] /\ Waiting[l.value] > 0
  BY <1>2, <1>6, <1>7, <1>8, WaitingPlaces, WaitingPlacesNext
<1>10. \A k \in Leases : k.token # l.token
  <2> SUFFICES ASSUME NEW k \in Leases PROVE k.token # l.token
    OBVIOUS
  <2>1. PICK e \in deadlines : k = LeaseOf(e)
    BY DEF Leases
  <2>2. e.token <= reserved /\ e.token \in Nat
    BY DEF IInv, TokensDrawn, TypeOK, Deadline, Token
  <2> QED
    BY <1>3, <1>6, <2>1, <2>2 DEF LeaseOf
<1>11. Leases' = Leases \cup {l}
  <2>1. ASSUME NEW k PROVE k \in Leases' <=> k \in Leases \cup {l}
    BY <1>5 DEF Leases, LeaseOf, l
  <2> QED
    BY <2>1
<1>12. LQ!Grant(l)
  BY <1>5, <1>9, <1>10, <1>11 DEF LQ!Grant
<1> QED
  BY <1>6, <1>12

(* A settle past the gate takes its own lease away and no other.            *)
LEMMA DropsLease ==
  ASSUME IInv, OneToken, NEW c \in Consumer, Gate(c), DropReservation(c)
  PROVE  LeaseOf(job[c]) \in Leases /\ Leases' = Leases \ {LeaseOf(job[c])}
<1>1. job[c] \in deadlines /\ deadlines' = deadlines \ {job[c]}
  BY DEF Gate, DropReservation
<1>2. \A d \in deadlines : LeaseOf(d) = LeaseOf(job[c]) => d = job[c]
  BY <1>1 DEF OneToken, LeaseOf
<1>3. Leases' = {LeaseOf(d) : d \in deadlines'}
  BY DEF Leases, LeaseOf
<1>4. ASSUME NEW k PROVE k \in Leases' <=> k \in Leases \ {LeaseOf(job[c])}
  BY <1>1, <1>2, <1>3 DEF Leases
<1> QED
  BY <1>1, <1>4 DEF Leases

(* A settle finishes its lease, gives it back or changes nothing.           *)
LEMMA SettleSteps ==
  ASSUME IInv, OneToken, NEW c \in Consumer, End(c) \/ Release(c)
  PROVE  \/ \E l \in Leases : LQ!Finish(l) \/ \E v \in Raw : LQ!GiveBack(l, v)
         \/ UNCHANGED <<Waiting, Leases, ended>>
<1> DEFINE raw == job[c].raw
           l   == LeaseOf(job[c])
<1>1. pc[c] = "working" /\ job[c] \in Deadline
  BY DEF End, Release, IInv, TypeOK
<1>2. raw \in Raw /\ l.value = raw
  BY <1>1 DEF Deadline, LeaseOf
<1>3. CASE GateMissed
  BY <1>3 DEF GateMissed, Waiting, Places, Leases, LeaseOf
<1>4. CASE /\ Gate(c) /\ DropReservation(c) /\ UNCHANGED ready
           /\ ended' = [ended EXCEPT ![raw] = @ + 1]
  <2>1. l \in Leases /\ Leases' = Leases \ {l}
    BY <1>4, DropsLease
  <2>2. Waiting' = Waiting
    BY <1>4, WaitingPlaces, WaitingPlacesNext
  <2>3. ended' = [ended EXCEPT ![l.value] = @ + 1]
    BY <1>2, <1>4
  <2> HIDE DEF l
  <2>4. LQ!Finish(l)
    BY <2>1, <2>2, <2>3 DEF LQ!Finish
  <2> QED
    BY <2>1, <2>4
<1>5. CASE /\ Gate(c) /\ DropReservation(c) /\ UNCHANGED ended /\ raw.attempts < MaxAttempts
           /\ ready' = Append(ready, [raw EXCEPT !.attempts = @ + 1])
  <2> DEFINE v == [raw EXCEPT !.attempts = @ + 1]
  <2>1. l \in Leases /\ Leases' = Leases \ {l}
    BY <1>5, DropsLease
  <2>2. raw.attempts + 1 \in 0..MaxAttempts
    BY <1>2, <1>5, LimitsAssumption DEF Raw
  <2>3. v \in Raw
    BY <1>2, <2>2 DEF Raw
  <2>4. ready' = Append(ready, v) /\ ended' = ended /\ ready \in Seq(Raw)
    BY <1>5 DEF IInv, TypeOK
  <2> HIDE DEF v, l
  <2>5. \A r \in Raw : Cardinality(Places(ready', {r}))
                         = IF v \in {r} THEN Cardinality(Places(ready, {r})) + 1
                           ELSE Cardinality(Places(ready, {r}))
    BY <2>3, <2>4, PushCount
  <2>6. Waiting' = [Waiting EXCEPT ![v] = @ + 1]
    BY <2>3, <2>5, WaitingPlaces, WaitingPlacesNext
  <2>7. LQ!GiveBack(l, v)
    BY <2>1, <2>4, <2>6 DEF LQ!GiveBack
  <2> QED
    BY <2>1, <2>3, <2>7
<1> QED
  BY <1>3, <1>4, <1>5 DEF End, Release

(* Every step is a step of the lease queue or leaves it unchanged.          *)
LEMMA StepRefines ==
  IInv /\ OneToken /\ [Next]_vars => [LQ!Next]_<<Waiting, Leases, ended>>
<1> SUFFICES ASSUME IInv, OneToken, [Next]_vars
             PROVE  LQ!Next \/ UNCHANGED <<Waiting, Leases, ended>>
  OBVIOUS
<1>1. ASSUME NEW m \in Msg, Publish(m) PROVE LQ!Next
  BY <1>1, PublishEnqueues DEF LQ!Next
<1>2. ASSUME NEW c \in Consumer, Sweep(c) PROVE LQ!Next
  BY <1>2, SweepLapses DEF LQ!Next
<1>3. ASSUME NEW c \in Consumer, Reserve(c) PROVE LQ!Next
  BY <1>3, ReserveGrants DEF LQ!Next
<1>4. ASSUME NEW c \in Consumer, End(c) \/ Release(c)
      PROVE  LQ!Next \/ UNCHANGED <<Waiting, Leases, ended>>
  BY <1>4, SettleSteps DEF LQ!Next
<1>5. ASSUME UNCHANGED <<ready, deadlines, ended>> PROVE UNCHANGED <<Waiting, Leases, ended>>
  BY <1>5 DEF Waiting, Leases, LeaseOf
<1>6. ASSUME NEW c \in Consumer, ReserveEmpty(c) \/ Abandon(c)
      PROVE  UNCHANGED <<ready, deadlines, ended>>
  BY <1>6 DEF ReserveEmpty, Abandon, GateMissed
<1>7. ASSUME Tick \/ UNCHANGED vars PROVE UNCHANGED <<ready, deadlines, ended>>
  BY <1>7 DEF Tick, vars
<1> QED
  BY <1>1, <1>2, <1>3, <1>4, <1>5, <1>6, <1>7 DEF Next, Poll

(* The initial state is the lease queue's.                                  *)
LEMMA InitRefines == Init => LQ!Init
<1> SUFFICES ASSUME Init PROVE LQ!Init
  OBVIOUS
<1>1. ready = <<>> /\ deadlines = {} /\ ended = [r \in Raw |-> 0]
  BY DEF Init
<1>2. \A r \in Raw : Places(ready, {r}) = {}
  BY <1>1 DEF Places
<1>3. Waiting = [r \in Raw |-> 0]
  BY <1>2, FS_EmptySet, WaitingPlaces
<1>4. Leases = {}
  BY <1>1 DEF Leases
<1> QED
  BY <1>1, <1>3, <1>4 DEF LQ!Init

(* ImplementsLeaseQueue: the ready list, the processing list and the        *)
(* deadlines, under any interleaving of sweeps, reservations, late settles  *)
(* and deaths, are a lease queue: each copy waits, is under one lease or    *)
(* ended, and only the lease's holder or its lapse moves it.                *)
THEOREM LeaseQueueImplemented == Spec => ImplementsLeaseQueue
<1>1. Init => OneToken
  BY DEF Init, OneToken
<1> QED
  BY <1>1, InitInv, NextInv, NextToken, InitRefines, StepRefines, PTL
  DEF Spec, ImplementsLeaseQueue, LQ!Spec
=============================================================================
