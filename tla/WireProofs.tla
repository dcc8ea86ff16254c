----------------------------- MODULE WireProofs -----------------------------
(***************************************************************************)
(* Proofs about Wire: whatever retries, dead-letter writes, redeliveries   *)
(* and redrives a message goes through, for every body a JSON parser can   *)
(* hand over, every meta entry and property set, every limit and backoff   *)
(* and any of the six transports.                                          *)
(*                                                                         *)
(* RoundTrip says that Decode reads back what Encode writes, data through  *)
(* its map, and DataRead what that map keeps.  Bodies have any length, and *)
(* no induction is needed: a member sequence is the known members followed *)
(* by a listing of the unknown ones, and the value of a key is the one at  *)
(* its last position (HasMax).  Popped says what a delivery of a record is *)
(* and Written what a publish for it writes, each once for all transports; *)
(* the actions then only move records.                                     *)
(*                                                                         *)
(* The inductive invariant IInv: the stored record stands for the body     *)
(* first published (Carries), its next delivery has the same route and     *)
(* verdict of the gate (SameRoute, SameGate), its replay marker and its    *)
(* counter agree with the history (ReplayInv, CountInv), and the delivery  *)
(* held is one of that record (RunInv).                                    *)
(***************************************************************************)
EXTENDS Wire, FiniteSetTheorems, WellFoundedInduction, TLAPS

\* A nonempty set of positions has a last one.
LEMMA HasMax ==
  ASSUME NEW n \in Nat, NEW S, S \subseteq 1 .. n, S # {}
  PROVE  /\ Max(S) \in S
         /\ \A y \in S : Max(S) >= y
<1> DEFINE R == {p \in Nat \X Nat : p[1] < p[2]}
           T == {n - i : i \in S}
<1>1. IsWellFoundedOn(R, Nat)
  <2>1. OpToRel(<, Nat) = R
    BY DEF OpToRel
  <2> QED
    BY <2>1, NatLessThanWellFounded
<1>2. T \subseteq Nat /\ T # {}
  <2>1. \A i \in S : n - i \in Nat
    OBVIOUS
  <2> QED
    BY <2>1
<1>3. PICK x \in T : \A y \in T : ~(<<y, x>> \in R)
  BY <1>1, <1>2, WFMin
<1>4. PICK i \in S : x = n - i
  BY <1>3
<1>5. \A y \in S : i >= y
  <2> TAKE y \in S
  <2>1. ~ (n - y < n - i)
    BY <1>2, <1>3, <1>4
  <2> QED
    BY <2>1
<1> QED
  BY <1>5 DEF Max

\* The last occurrence of a key decides its value.
LEMMA LastValue ==
  ASSUME NEW ms, NEW k, NEW i \in DOMAIN ms, DOMAIN ms \subseteq Int, ms[i].key = k,
         \A j \in DOMAIN ms : ms[j].key = k => j <= i
  PROVE  Value(ms, k) = ms[i].val
<1>1. k \in Keys(ms)
  BY DEF Keys
<1>2. Max({j \in DOMAIN ms : ms[j].key = k}) = i
  BY DEF Max
<1> QED
  BY <1>1, <1>2 DEF Value

\* The value of a key that occurs is the value at one of its positions.
LEMMA ValueAt ==
  ASSUME NEW ms, IsSequence(ms), NEW k \in Keys(ms)
  PROVE  \E i \in DOMAIN ms : ms[i].key = k /\ Value(ms, k) = ms[i].val
<1> DEFINE P == {i \in DOMAIN ms : ms[i].key = k}
<1>1. P \subseteq 1 .. Len(ms) /\ P # {} /\ Len(ms) \in Nat
  BY DEF Keys, IsSequence
<1>2. Max(P) \in P
  BY <1>1, HasMax
<1> QED
  BY <1>2 DEF Value

\* A key that does not occur has no value.
LEMMA NoValue ==
  ASSUME NEW ms, NEW k, \A i \in DOMAIN ms : ms[i].key # k
  PROVE  Value(ms, k) = Null
  BY DEF Value, Keys

\* SetToSeq lists each element of a finite set once.
LEMMA Listing ==
  ASSUME NEW S, IsFiniteSet(S)
  PROVE  /\ SetToSeq(S) \in Seq(S)
         /\ \A i, j \in DOMAIN SetToSeq(S) : SetToSeq(S)[i] = SetToSeq(S)[j] => i = j
         /\ \A x \in S : \E i \in DOMAIN SetToSeq(S) : SetToSeq(S)[i] = x
<1> DEFINE n == Cardinality(S)
           f == SetToSeq(S)
<1>1. n \in Nat /\ ExistsBijection(1 .. n, S)
  BY FS_CardinalityType
<1>2. PICK g \in Bijection(1 .. n, S) : TRUE
  BY <1>1 DEF ExistsBijection
<1>3. g \in [1 .. n -> S] /\ IsInjective(g)
  BY <1>2 DEF Bijection, Injection, IsInjective
<1>4. f \in [1 .. n -> S] /\ IsInjective(f)
  BY <1>3 DEF SetToSeq
<1>5. IsFiniteSet(1 .. n) /\ Cardinality(1 .. n) = n
  BY <1>1, FS_Interval
<1>6. f \in Injection(1 .. n, S)
  BY <1>4 DEF Injection, IsInjective
<1>7. f \in Surjection(1 .. n, S)
  BY <1>5, <1>6, FS_Injection
<1> HIDE DEF n, f
<1>8. f \in Seq(S) /\ DOMAIN f = 1 .. n
  BY <1>1, <1>4
<1>9. \A x \in S : \E i \in DOMAIN f : f[i] = x
  BY <1>7, <1>8 DEF Surjection
<1>10. \A i, j \in DOMAIN f : f[i] = f[j] => i = j
  BY <1>4 DEF IsInjective
<1> QED
  BY <1>8, <1>9, <1>10 DEF f

-----------------------------------------------------------------------------
(* The codec.                                                               *)

\* The members of an envelope that Encode writes itself or refuses.
KnownKeys == {"job", "urn"} \cup DOMAIN EnvelopeTypes \cup ForbiddenTopLevelKeys

\* The sequences over any set are sequences.
LEMMA ASequence ==
  ASSUME NEW T, NEW s \in Seq(T)
  PROVE  IsSequence(s)
<1>1. s = [i \in 1 .. Len(s) |-> s[i]] /\ Len(s) \in Nat
  OBVIOUS
<1> QED
  BY <1>1 DEF IsSequence, Range

\* A concatenation is a sequence; the members of both parts keep their order.
LEMMA ConcatParts ==
  ASSUME NEW H, IsSequence(H), NEW X, IsSequence(X)
  PROVE  /\ IsSequence(H \o X)
         /\ Len(H) \in Nat /\ Len(X) \in Nat
         /\ DOMAIN H = 1 .. Len(H) /\ DOMAIN X = 1 .. Len(X)
         /\ DOMAIN (H \o X) = 1 .. (Len(H) + Len(X))
         /\ \A i \in DOMAIN H : (H \o X)[i] = H[i]
         /\ \A i \in DOMAIN X : (H \o X)[Len(H) + i] = X[i]
         /\ \A i \in DOMAIN (H \o X) \ DOMAIN H : i - Len(H) \in DOMAIN X /\ (H \o X)[i] = X[i - Len(H)]
<1> DEFINE T == Range(H) \cup Range(X)
<1>1. H \in Seq(T) /\ X \in Seq(T)
  BY DEF IsSequence
<1> HIDE DEF T
<1>2. /\ Len(H) \in Nat /\ Len(X) \in Nat
      /\ DOMAIN H = 1 .. Len(H) /\ DOMAIN X = 1 .. Len(X)
  BY <1>1
<1>3. /\ DOMAIN (H \o X) = 1 .. (Len(H) + Len(X))
      /\ \A i \in 1 .. (Len(H) + Len(X)) :
            (H \o X)[i] = IF i <= Len(H) THEN H[i] ELSE X[i - Len(H)]
      /\ H \o X \in Seq(T)
  BY <1>1
<1>4. IsSequence(H \o X)
  BY <1>3, ASequence
<1>5. \A i \in DOMAIN H : (H \o X)[i] = H[i]
  BY <1>2, <1>3
<1>6. \A i \in DOMAIN X : (H \o X)[Len(H) + i] = X[i]
  <2> TAKE i \in DOMAIN X
  <2>1. Len(H) + i \in 1 .. (Len(H) + Len(X)) /\ ~(Len(H) + i <= Len(H)) /\ (Len(H) + i) - Len(H) = i
    BY <1>2
  <2> QED
    BY <2>1, <1>3
<1>7. \A i \in DOMAIN (H \o X) \ DOMAIN H : i - Len(H) \in DOMAIN X /\ (H \o X)[i] = X[i - Len(H)]
  BY <1>2, <1>3
<1> QED
  BY <1>2, <1>3, <1>4, <1>5, <1>6, <1>7

\* Known members first and carried ones after them: each can be read back.
LEMMA ReadBack ==
  ASSUME NEW reserved, NEW S, Carried(S, reserved),
         NEW H, IsSequence(H), Keys(H) \subseteq reserved
  PROVE  LET ms == H \o SetToSeq(S)
         IN  /\ IsSequence(ms)
             /\ \A k \in reserved : Value(ms, k) = Value(H, k)
             /\ Unknown(ms, reserved) = S
             /\ \A i \in DOMAIN ms : ms[i].key \in reserved => i \in DOMAIN H /\ ms[i] = H[i]
<1> DEFINE X == SetToSeq(S)
           ms == H \o X
<1>1. /\ X \in Seq(S)
      /\ \A i, j \in DOMAIN X : X[i] = X[j] => i = j
      /\ \A x \in S : \E i \in DOMAIN X : X[i] = x
  BY Listing DEF Carried
<1>2. IsSequence(X) /\ \A i \in DOMAIN X : X[i] \in S
  <2>1. IsSequence(X)
    BY <1>1, ASequence
  <2> QED
    BY <1>1, <2>1
<1>3. \A i \in DOMAIN X : X[i] = Member(X[i].key, X[i].val) /\ X[i].key \notin reserved
  BY <1>2 DEF Carried
<1>4. \A i, j \in DOMAIN X : X[i].key = X[j].key => i = j
  BY <1>1, <1>2 DEF Carried
<1> HIDE DEF X
<1>5. /\ IsSequence(ms)
      /\ Len(H) \in Nat /\ Len(X) \in Nat
      /\ DOMAIN H = 1 .. Len(H) /\ DOMAIN X = 1 .. Len(X)
      /\ DOMAIN ms = 1 .. (Len(H) + Len(X))
      /\ \A i \in DOMAIN H : ms[i] = H[i]
      /\ \A i \in DOMAIN X : ms[Len(H) + i] = X[i]
      /\ \A i \in DOMAIN ms \ DOMAIN H : i - Len(H) \in DOMAIN X /\ ms[i] = X[i - Len(H)]
  BY <1>2, ConcatParts
<1> HIDE DEF ms
<1>6. \A i \in DOMAIN ms : ms[i].key \in reserved => i \in DOMAIN H /\ ms[i] = H[i]
  BY <1>3, <1>5
<1>7. \A k \in reserved : Value(ms, k) = Value(H, k)
  <2> TAKE k \in reserved
  <2>1. CASE k \in Keys(H)
    <3> DEFINE P == {i \in DOMAIN H : H[i].key = k}
    <3>1. P # {} /\ P \subseteq 1 .. Len(H)
      BY <2>1, <1>5 DEF Keys
    <3>2. Max(P) \in P
      BY <3>1, <1>5, HasMax
    <3>3. {i \in DOMAIN ms : ms[i].key = k} = P
      BY <1>5, <1>6
    <3>4. k \in Keys(ms)
      BY <3>2, <3>3 DEF Keys
    <3>5. ms[Max(P)] = H[Max(P)]
      BY <3>2, <1>5
    <3> QED
      BY <2>1, <3>3, <3>4, <3>5 DEF Value
  <2>2. CASE k \notin Keys(H)
    <3>1. k \notin Keys(ms)
      BY <2>2, <1>6 DEF Keys
    <3> QED
      BY <2>2, <3>1 DEF Value
  <2> QED
    BY <2>1, <2>2
<1>8. \A i \in DOMAIN X : Value(ms, X[i].key) = X[i].val
  <2> TAKE i \in DOMAIN X
  <2>1. Len(H) + i \in DOMAIN ms /\ ms[Len(H) + i] = X[i] /\ DOMAIN ms \subseteq Int
    BY <1>5
  <2>2. \A j \in DOMAIN ms : ms[j].key = X[i].key => j <= Len(H) + i
    <3> SUFFICES ASSUME NEW j \in DOMAIN ms, ms[j].key = X[i].key
                 PROVE  j = Len(H) + i
      BY <2>1, <1>5
    <3>1. j \notin DOMAIN H
      <4>1. X[i].key \notin reserved
        BY <1>3
      <4> QED
        BY <4>1, <1>5 DEF Keys
    <3>2. j - Len(H) \in DOMAIN X /\ X[j - Len(H)].key = X[i].key
      BY <3>1, <1>5
    <3>3. j - Len(H) = i
      BY <3>2, <1>4
    <3> QED
      BY <3>3, <1>5
  <2> QED
    BY <2>1, <2>2, LastValue
<1>9. Unknown(ms, reserved) = S
  <2>1. ASSUME NEW x \in S
        PROVE  x \in Unknown(ms, reserved)
    <3>1. PICK i \in DOMAIN X : X[i] = x
      BY <1>1 DEF X
    <3>2. x.key \in Keys(ms) \ reserved
      <4>1. Len(H) + i \in DOMAIN ms /\ ms[Len(H) + i] = x
        BY <3>1, <1>5
      <4> QED
        BY <4>1, <3>1, <1>3 DEF Keys
    <3>3. x = Member(x.key, Value(ms, x.key))
      BY <3>1, <1>3, <1>8
    <3> QED
      BY <3>2, <3>3 DEF Unknown
  <2>2. ASSUME NEW x \in Unknown(ms, reserved)
        PROVE  x \in S
    <3>1. PICK k \in Keys(ms) \ reserved : x = Member(k, Value(ms, k))
      BY <2>2 DEF Unknown
    <3>2. PICK j \in DOMAIN ms : ms[j].key = k
      BY DEF Keys
    <3>3. j \notin DOMAIN H
      BY <3>1, <3>2, <1>5 DEF Keys
    <3>4. PICK i \in DOMAIN X : X[i].key = k
      BY <3>2, <3>3, <1>5
    <3>5. x = X[i]
      BY <3>1, <3>4, <1>3, <1>8
    <3> QED
      BY <3>5, <1>2
  <2> QED
    BY <2>1, <2>2
<1> QED
  BY <1>5, <1>6, <1>7, <1>9 DEF ms, X

\* The fields of a decoded envelope.
Fields == {"job", "data", "queue", "version", "attempts", "dead", "extras", "metaExtras"}

\* What Encode can be read back from: a named message, data of numbers in range and other
\* values, at most one dead-letter block and members that carry no reserved key.
Writable(env) ==
  /\ env = [f \in Fields |-> env[f]]
  /\ ~IsBlankASCII(env.job)
  /\ Payload(env.data)
  /\ \/ env.dead = <<>>
     \/ env.dead = << [queue |-> env.dead[1].queue, attempts |-> env.dead[1].attempts] >>
  /\ Carried(env.extras, KnownKeys)
  /\ Carried(env.metaExtras, MetaKeys)

\* What can be read back unchanged: the data went through a map[string]any before.
Encodable(env) == Writable(env) /\ AsMap(env.data) = env.data

\* The members that Encode writes, level by level.
MetaHead(env) == << Member("queue", Str(env.queue)), Member("schema_version", Num(env.version)) >>

MetaSeq(env) == MetaHead(env) \o SetToSeq(env.metaExtras)

Head4(env) == << Member("job", Str(env.job)), Member("data", env.data),
                 Member("meta", Obj(MetaSeq(env))), Member("attempts", Num(env.attempts)) >>

HeadSeq(env) ==
  Head4(env) \o [i \in DOMAIN env.dead |-> Member("dead_letter", DeadLetterBlock(env.dead[i]))]

EncodedSeq(env) == HeadSeq(env) \o SetToSeq(env.extras)

\* Encode writes the known members first and the unknown ones after them.
LEMMA EncodeForm == ASSUME NEW env PROVE Encode(env) = Obj(EncodedSeq(env))
  BY DEF Encode, EncodedSeq, HeadSeq, Head4, MetaSeq, MetaHead

\* The meta block is read back with its unknown entries.
LEMMA MetaBack ==
  ASSUME NEW env, Carried(env.metaExtras, MetaKeys)
  PROVE  /\ IsSequence(MetaSeq(env))
         /\ Value(MetaSeq(env), "queue") = Str(env.queue)
         /\ Value(MetaSeq(env), "schema_version") = Num(env.version)
         /\ Unknown(MetaSeq(env), MetaKeys) = env.metaExtras
         /\ WellTyped(MetaSeq(env), MetaTypes)
<1> DEFINE H == MetaHead(env)
<1>1. H \in Seq(Range(H)) /\ DOMAIN H = {1, 2}
  BY DEF MetaHead, Range
<1>2. H[1] = Member("queue", Str(env.queue)) /\ H[2] = Member("schema_version", Num(env.version))
  BY DEF MetaHead
<1> HIDE DEF H
<1>3. {"queue", "schema_version"} \subseteq MetaKeys /\ DOMAIN MetaTypes = {"queue", "schema_version"}
  BY DEF MetaKeys, MetaTypes
<1>4. Keys(H) \subseteq MetaKeys
  BY <1>1, <1>2, <1>3 DEF Keys, Member
<1>5. Value(H, "queue") = Str(env.queue)
  <2>1. \A j \in DOMAIN H : H[j].key = "queue" => j <= 1
    BY <1>1, <1>2 DEF Member
  <2> QED
    BY <2>1, <1>1, <1>2, LastValue DEF Member
<1>6. Value(H, "schema_version") = Num(env.version)
  <2>1. \A j \in DOMAIN H : H[j].key = "schema_version" => j <= 2
    BY <1>1
  <2> QED
    BY <2>1, <1>1, <1>2, LastValue DEF Member
<1>7. LET ms == H \o SetToSeq(env.metaExtras)
      IN  /\ IsSequence(ms)
          /\ \A k \in MetaKeys : Value(ms, k) = Value(H, k)
          /\ Unknown(ms, MetaKeys) = env.metaExtras
          /\ \A i \in DOMAIN ms : ms[i].key \in MetaKeys => i \in DOMAIN H /\ ms[i] = H[i]
  BY <1>1, <1>4, ReadBack DEF IsSequence
<1>8. WellTyped(MetaSeq(env), MetaTypes)
  BY <1>7, <1>1, <1>2, <1>3 DEF WellTyped, MetaTypes, MetaSeq, H, Member, Str, Num, MetaHead
<1> QED
  BY <1>3, <1>5, <1>6, <1>7, <1>8 DEF MetaSeq, H

\* A string is read back as its text.
LEMMA StrTag == ASSUME NEW s PROVE Str(s).is = "string" /\ Str(s).of = s /\ Text(Str(s)) = s
<1>1. Str(s).is = "string" /\ Str(s).of = s
  BY DEF Str
<1> QED
  BY <1>1 DEF Text

\* A number is read back as its value.
LEMMA NumTag == ASSUME NEW n PROVE Num(n).is = "number" /\ Num(n).of = n /\ Integer(Num(n)) = n
<1>1. Num(n).is = "number" /\ Num(n).of = n
  BY DEF Num
<1> QED
  BY <1>1 DEF Integer

\* An object is read back as its members.
LEMMA ObjTag == ASSUME NEW m PROVE Obj(m).is = "object" /\ Obj(m).of = m /\ Members(Obj(m)) = m
<1>1. Obj(m).is = "object" /\ Obj(m).of = m
  BY DEF Obj
<1> QED
  BY <1>1 DEF Members

\* A missing value reads as the zero value of every type.
LEMMA NullTag ==
  Null.is = "null" /\ Members(Null) = <<>> /\ Text(Null) = "" /\ Integer(Null) = 0
<1>1. Null.is = "null"
  BY DEF Null
<1> QED
  BY <1>1 DEF Members, Text, Integer

\* A member has the key and the value it was made of.
LEMMA MemberTag == ASSUME NEW k, NEW v PROVE Member(k, v).key = k /\ Member(k, v).val = v
  BY DEF Member

\* A list of one.
LEMMA OneMember == ASSUME NEW b PROVE IsSequence(<< b >>) /\ Len(<< b >>) = 1 /\ << b >>[1] = b
  BY DEF IsSequence, Range

\* The known members of an encoded envelope, in canonical order.
LEMMA HeadForm ==
  ASSUME NEW env, Writable(env)
  PROVE  LET H == HeadSeq(env)
         IN  /\ IsSequence(H)
             /\ H[1] = Member("job", Str(env.job))
             /\ H[2] = Member("data", env.data)
             /\ H[3] = Member("meta", Obj(MetaSeq(env)))
             /\ H[4] = Member("attempts", Num(env.attempts))
             /\ env.dead = <<>> => DOMAIN H = 1 .. 4
             /\ env.dead # <<>> => /\ DOMAIN H = 1 .. 5
                                   /\ H[5] = Member("dead_letter", DeadLetterBlock(env.dead[1]))
<1> DEFINE D == [i \in DOMAIN env.dead |-> Member("dead_letter", DeadLetterBlock(env.dead[i]))]
           B == Member("dead_letter", DeadLetterBlock(env.dead[1]))
           F == Head4(env)
<1>1. /\ IsSequence(F) /\ DOMAIN F = 1 .. 4 /\ Len(F) = 4
      /\ F[1] = Member("job", Str(env.job))
      /\ F[2] = Member("data", env.data)
      /\ F[3] = Member("meta", Obj(MetaSeq(env)))
      /\ F[4] = Member("attempts", Num(env.attempts))
  BY DEF Head4, Range, IsSequence
<1>2. HeadSeq(env) = F \o D
  BY DEF HeadSeq
<1>3. CASE env.dead = <<>>
  <2>1. D = <<>>
    BY <1>3
  <2>2. IsSequence(D) /\ Len(D) = 0
    <3>1. IsSequence(<<>>) /\ Len(<<>>) = 0
      BY DEF IsSequence
    <3> QED
      BY <2>1, <3>1
  <2>3. IsSequence(F)
    BY <1>1
  <2> HIDE DEF D, F, B
  <2>4. /\ IsSequence(F \o D)
        /\ DOMAIN (F \o D) = 1 .. (Len(F) + Len(D))
        /\ \A i \in DOMAIN F : (F \o D)[i] = F[i]
    BY <2>2, <2>3, ConcatParts
  <2> QED
    BY <1>1, <1>2, <1>3, <2>2, <2>4
<1>4. CASE env.dead # <<>>
  <2>1. env.dead = << [queue |-> env.dead[1].queue, attempts |-> env.dead[1].attempts] >>
    BY <1>4 DEF Writable
  <2>2. DOMAIN env.dead = {1}
    BY <2>1
  <2>3. D = << B >>
    BY <2>2
  <2> HIDE DEF B, F
  <2>4. IsSequence(D) /\ Len(D) = 1 /\ D[1] = B
    BY <2>3, OneMember
  <2> HIDE DEF D
  <2>5. /\ IsSequence(F \o D)
        /\ DOMAIN F = 1 .. Len(F) /\ DOMAIN D = 1 .. Len(D)
        /\ DOMAIN (F \o D) = 1 .. (Len(F) + Len(D))
        /\ \A i \in DOMAIN F : (F \o D)[i] = F[i]
        /\ \A i \in DOMAIN (F \o D) \ DOMAIN F : (F \o D)[i] = D[i - Len(F)]
    <3>1. IsSequence(F) /\ IsSequence(D)
      BY <1>1, <2>4
    <3>2. \A i \in DOMAIN (F \o D) \ DOMAIN F : (F \o D)[i] = D[i - Len(F)]
      BY <3>1, ConcatParts
    <3>3. \A i \in DOMAIN F : (F \o D)[i] = F[i]
      BY <3>1, ConcatParts
    <3>4. IsSequence(F \o D) /\ DOMAIN F = 1 .. Len(F) /\ DOMAIN D = 1 .. Len(D)
      BY <3>1, ConcatParts
    <3>5. DOMAIN (F \o D) = 1 .. (Len(F) + Len(D))
      BY <3>1, ConcatParts
    <3> QED
      BY <3>2, <3>3, <3>4, <3>5
  <2>6. \A i \in 1 .. 4 : (F \o D)[i] = F[i]
    BY <1>1, <2>5
  <2>7. DOMAIN (F \o D) = 1 .. 5 /\ (F \o D)[5] = D[1]
    BY <1>1, <2>4, <2>5
  <2> QED
    BY <1>1, <1>2, <1>4, <2>4, <2>5, <2>6, <2>7 DEF B
<1> QED
  BY <1>3, <1>4

\* The dead_letter block that Annotate writes is read back unchanged.
LEMMA BlockBack ==
  ASSUME NEW d, d = [queue |-> d.queue, attempts |-> d.attempts]
  PROVE  /\ DecodeDeadLetter(DeadLetterBlock(d)) = << d >>
         /\ DeadLetterBlock(d).is = "object"
         /\ WellTyped(DeadLetterBlock(d).of, DeadLetterTypes)
<1> DEFINE B == DeadLetterBlock(d).of
<1>1. /\ DeadLetterBlock(d).is = "object"
      /\ B = << Member("original_queue", Str(d.queue)), Member("attempts", Num(d.attempts)) >>
  BY ObjTag DEF DeadLetterBlock
<1>2. /\ DOMAIN B = {1, 2}
      /\ B[1] = Member("original_queue", Str(d.queue)) /\ B[2] = Member("attempts", Num(d.attempts))
  BY <1>1
<1> HIDE DEF B
<1>3. /\ B[1].key = "original_queue" /\ B[1].val = Str(d.queue)
      /\ B[2].key = "attempts" /\ B[2].val = Num(d.attempts)
  BY <1>2, MemberTag
<1>4. Value(B, "original_queue") = Str(d.queue)
  <2>1. \A j \in DOMAIN B : B[j].key = "original_queue" => j <= 1
    BY <1>2, <1>3
  <2> QED
    BY <2>1, <1>2, <1>3, LastValue
<1>5. Value(B, "attempts") = Num(d.attempts)
  <2>1. \A j \in DOMAIN B : B[j].key = "attempts" => j <= 2
    BY <1>2, <1>3
  <2> QED
    BY <2>1, <1>2, <1>3, LastValue
<1>6. Text(Value(B, "original_queue")) = d.queue
  BY <1>4, StrTag
<1>7. Integer(Value(B, "attempts")) = d.attempts
  BY <1>5, NumTag
<1>8. DecodeDeadLetter(DeadLetterBlock(d)) = << d >>
  BY <1>1, <1>6, <1>7 DEF DecodeDeadLetter, B
<1>9. WellTyped(B, DeadLetterTypes)
  BY <1>2, <1>3, StrTag, NumTag DEF WellTyped, DeadLetterTypes
<1> QED
  BY <1>1, <1>8, <1>9 DEF B

\* What Decode finds under each known key.
LEMMA HeadBack ==
  ASSUME NEW env, Writable(env)
  PROVE  /\ IsSequence(HeadSeq(env))
         /\ Keys(HeadSeq(env)) \subseteq KnownKeys
         /\ Value(HeadSeq(env), "job") = Str(env.job)
         /\ Value(HeadSeq(env), "urn") = Null
         /\ Value(HeadSeq(env), "data") = env.data
         /\ Value(HeadSeq(env), "meta") = Obj(MetaSeq(env))
         /\ Value(HeadSeq(env), "attempts") = Num(env.attempts)
         /\ DecodeDeadLetter(Value(HeadSeq(env), "dead_letter")) = env.dead
         /\ WellTyped(HeadSeq(env), EnvelopeTypes)
         /\ NestedWellTyped(HeadSeq(env))
<1> DEFINE H == HeadSeq(env)
           B == DeadLetterBlock(env.dead[1])
<1>1. /\ IsSequence(H)
      /\ H[1] = Member("job", Str(env.job))
      /\ H[2] = Member("data", env.data)
      /\ H[3] = Member("meta", Obj(MetaSeq(env)))
      /\ H[4] = Member("attempts", Num(env.attempts))
      /\ env.dead = <<>> => DOMAIN H = 1 .. 4
      /\ env.dead # <<>> => DOMAIN H = 1 .. 5 /\ H[5] = Member("dead_letter", B)
  BY HeadForm
<1> HIDE DEF H
<1>2. /\ DOMAIN H = 1 .. 4 \/ DOMAIN H = 1 .. 5
      /\ 1 \in DOMAIN H /\ 2 \in DOMAIN H /\ 3 \in DOMAIN H /\ 4 \in DOMAIN H
      /\ 5 \in DOMAIN H <=> env.dead # <<>>
      /\ \A i \in DOMAIN H : i \in Int
      /\ \A i \in DOMAIN H : i = 1 \/ i = 2 \/ i = 3 \/ i = 4 \/ i = 5
  BY <1>1
<1>3. /\ H[1].key = "job"      /\ H[1].val = Str(env.job)
      /\ H[2].key = "data"     /\ H[2].val = env.data
      /\ H[3].key = "meta"     /\ H[3].val = Obj(MetaSeq(env))
      /\ H[4].key = "attempts" /\ H[4].val = Num(env.attempts)
  BY <1>1, MemberTag
<1>4. env.dead # <<>> => H[5].key = "dead_letter" /\ H[5].val = B
  BY <1>1, MemberTag
<1>5. env.dead # <<>> => DecodeDeadLetter(B) = env.dead /\ B.is = "object" /\ WellTyped(B.of, DeadLetterTypes)
  <2>1. SUFFICES ASSUME env.dead # <<>>
                 PROVE  DecodeDeadLetter(B) = env.dead /\ B.is = "object" /\ WellTyped(B.of, DeadLetterTypes)
    OBVIOUS
  <2>2. env.dead = << [queue |-> env.dead[1].queue, attempts |-> env.dead[1].attempts] >>
    BY <2>1 DEF Writable
  <2>3. PICK d : d = [queue |-> env.dead[1].queue, attempts |-> env.dead[1].attempts]
    OBVIOUS
  <2>4. env.dead = << d >> /\ env.dead[1] = d
    BY <2>2, <2>3
  <2>5. d = [queue |-> d.queue, attempts |-> d.attempts]
    BY <2>3
  <2> QED
    BY <2>4, <2>5, BlockBack
<1> HIDE DEF B
<1>6. Keys(H) \subseteq KnownKeys
  <2>1. \A i \in DOMAIN H : H[i].key \in {"job", "data", "meta", "attempts", "dead_letter"}
    BY <1>2, <1>3, <1>4
  <2> QED
    BY <2>1 DEF Keys, KnownKeys, EnvelopeTypes
<1>7. \A i \in DOMAIN H : Value(H, H[i].key) = H[i].val
  <2> TAKE i \in DOMAIN H
  <2>1. \A j \in DOMAIN H : H[j].key = H[i].key => j <= i
    BY <1>2, <1>3, <1>4
  <2> QED
    BY <2>1, <1>2, LastValue
<1>8. /\ Value(H, "job") = Str(env.job)
      /\ Value(H, "data") = env.data
      /\ Value(H, "meta") = Obj(MetaSeq(env))
      /\ Value(H, "attempts") = Num(env.attempts)
  BY <1>2, <1>3, <1>7
<1>9. Value(H, "urn") = Null
  <2>1. \A i \in DOMAIN H : H[i].key # "urn"
    BY <1>2, <1>3, <1>4
  <2> QED
    BY <2>1, NoValue
<1>10. DecodeDeadLetter(Value(H, "dead_letter")) = env.dead
  <2>1. CASE env.dead = <<>>
    <3>1. \A i \in DOMAIN H : H[i].key # "dead_letter"
      BY <2>1, <1>2, <1>3
    <3>2. Value(H, "dead_letter") = Null
      BY <3>1, NoValue
    <3> QED
      BY <3>2, <2>1, NullTag DEF DecodeDeadLetter
  <2>2. CASE env.dead # <<>>
    <3>1. Value(H, "dead_letter") = B
      BY <2>2, <1>2, <1>4, <1>7
    <3> QED
      BY <3>1, <2>2, <1>5
  <2> QED
    BY <2>1, <2>2
<1>11. WellTyped(H, EnvelopeTypes)
  <2>1. SUFFICES ASSUME NEW i \in DOMAIN H, H[i].key \in DOMAIN EnvelopeTypes
                 PROVE  H[i].val.is \in {EnvelopeTypes[H[i].key], "null"}
    BY DEF WellTyped
  <2>2. /\ EnvelopeTypes["data"] = "object" /\ EnvelopeTypes["attempts"] = "number"
        /\ EnvelopeTypes["meta"] = "object" /\ EnvelopeTypes["dead_letter"] = "object"
        /\ "job" \notin DOMAIN EnvelopeTypes
    BY DEF EnvelopeTypes
  <2>3. env.data.is \in {"object", "null"}
    BY DEF Writable, Payload
  <2>4. Obj(MetaSeq(env)).is = "object" /\ Num(env.attempts).is = "number"
    BY ObjTag, NumTag
  <2> QED
    BY <2>1, <2>2, <2>3, <2>4, <1>2, <1>3, <1>4, <1>5
<1>12. NestedWellTyped(H)
  <2>1. SUFFICES ASSUME NEW i \in DOMAIN H
                 PROVE  /\ H[i].key = "data" /\ H[i].val.is = "object" => InRange(H[i].val.of)
                        /\ H[i].key = "meta" => WellTyped(H[i].val.of, MetaTypes)
                        /\ H[i].key = "dead_letter" => WellTyped(H[i].val.of, DeadLetterTypes)
    BY DEF NestedWellTyped
  <2>2. WellTyped(Obj(MetaSeq(env)).of, MetaTypes)
    BY MetaBack, ObjTag DEF Writable
  <2>3. env.data.is = "object" => InRange(env.data.of)
    BY DEF Writable, Payload, Members
  <2> QED
    BY <2>2, <2>3, <1>2, <1>3, <1>4, <1>5
<1> QED
  BY <1>1, <1>6, <1>8, <1>9, <1>10, <1>11, <1>12 DEF H

\* What Encode writes, Decode reads back: no field, dead-letter block or unknown member is
\* lost or changed, and data comes back as the map[string]any of what was written, whatever
\* its numbers and repeated keys (DataRead says what that map keeps).
THEOREM RoundTrip ==
  ASSUME NEW env, Writable(env)
  PROVE  Decode(Encode(env)) = [err |-> "none", env |-> [env EXCEPT !.data = AsMap(env.data)]]
<1> DEFINE H == HeadSeq(env)
           ms == EncodedSeq(env)
<1>1. Encode(env) = Obj(ms)
  BY EncodeForm
<1>2. /\ IsSequence(H)
      /\ Keys(H) \subseteq KnownKeys
      /\ Value(H, "job") = Str(env.job)
      /\ Value(H, "urn") = Null
      /\ Value(H, "data") = env.data
      /\ Value(H, "meta") = Obj(MetaSeq(env))
      /\ Value(H, "attempts") = Num(env.attempts)
      /\ DecodeDeadLetter(Value(H, "dead_letter")) = env.dead
      /\ WellTyped(H, EnvelopeTypes)
      /\ NestedWellTyped(H)
  BY HeadBack
<1> HIDE DEF H
<1>3. /\ IsSequence(ms)
      /\ \A k \in KnownKeys : Value(ms, k) = Value(H, k)
      /\ Unknown(ms, KnownKeys) = env.extras
      /\ \A i \in DOMAIN ms : ms[i].key \in KnownKeys => i \in DOMAIN H /\ ms[i] = H[i]
  BY <1>2, ReadBack DEF Writable, EncodedSeq, H
<1> HIDE DEF ms
<1>4. KnownKeys = {"job", "urn", "data", "attempts", "meta", "dead_letter", "timestamp"}
  BY DEF KnownKeys, EnvelopeTypes, ForbiddenTopLevelKeys
<1>5. WellTyped(ms, EnvelopeTypes)
  BY <1>2, <1>3 DEF WellTyped, KnownKeys
<1>6. NestedWellTyped(ms)
  BY <1>2, <1>3, <1>4 DEF NestedWellTyped
<1>7. Decodable(Obj(ms))
  BY <1>5, <1>6, ObjTag DEF Decodable
<1>8. Members(Obj(ms)) = ms
  BY ObjTag
<1>9. /\ Value(ms, "job") = Str(env.job) /\ Value(ms, "urn") = Null
      /\ Value(ms, "data") = env.data /\ Value(ms, "meta") = Obj(MetaSeq(env))
      /\ Value(ms, "attempts") = Num(env.attempts)
      /\ DecodeDeadLetter(Value(ms, "dead_letter")) = env.dead
  BY <1>2, <1>3, <1>4
<1>10. Identity(ms) = env.job
  <2>1. Text(Value(ms, "job")) = env.job /\ Value(ms, "urn").is = "null"
    BY <1>9, StrTag, NullTag
  <2> QED
    BY <2>1 DEF Identity
<1> DEFINE read == [env EXCEPT !.data = AsMap(env.data)]
<1>11. EnvelopeOf(ms) = read
  <2>1. Members(Value(ms, "meta")) = MetaSeq(env)
    BY <1>9, ObjTag
  <2>2. Text(Value(MetaSeq(env), "queue")) = env.queue
    BY MetaBack, StrTag DEF Writable
  <2>3. Integer(Value(MetaSeq(env), "schema_version")) = env.version
    BY MetaBack, NumTag DEF Writable
  <2>4. Unknown(MetaSeq(env), DOMAIN MetaTypes \cup ForbiddenMetaKeys) = env.metaExtras
    BY MetaBack DEF Writable, MetaKeys
  <2>5. Integer(Value(ms, "attempts")) = env.attempts
    BY <1>9, NumTag
  <2>6. Unknown(ms, {"job", "urn"} \cup DOMAIN EnvelopeTypes \cup ForbiddenTopLevelKeys) = env.extras
    BY <1>3 DEF KnownKeys
  <2>7. read = [ job |-> env.job, data |-> AsMap(env.data), queue |-> env.queue,
                 version |-> env.version, attempts |-> env.attempts, dead |-> env.dead,
                 extras |-> env.extras, metaExtras |-> env.metaExtras ]
    BY DEF Writable, Fields
  <2>8. EnvelopeOf(ms) =
          [ job |-> env.job, data |-> AsMap(env.data), queue |-> env.queue, version |-> env.version,
            attempts |-> env.attempts, dead |-> env.dead, extras |-> env.extras,
            metaExtras |-> env.metaExtras ]
    BY <2>1, <2>2, <2>3, <2>4, <2>5, <2>6, <1>9, <1>10 DEF EnvelopeOf
  <2> QED
    BY <2>7, <2>8
<1>12. ~IsBlankASCII(env.job)
  BY DEF Writable
<1> HIDE DEF read
<1>13. Decode(Encode(env)) = [err |-> "none", env |-> read]
  BY <1>1, <1>7, <1>8, <1>10, <1>11, <1>12 DEF Decode
<1> QED
  BY <1>13 DEF read

\* Data that a consumer has read before comes back unchanged.
LEMMA Reread ==
  ASSUME NEW env, Encodable(env)
  PROVE  Decode(Encode(env)) = [err |-> "none", env |-> env]
<1>1. Writable(env) /\ AsMap(env.data) = env.data /\ env = [f \in Fields |-> env[f]]
  BY DEF Encodable, Writable
<1>2. [env EXCEPT !.data = AsMap(env.data)] = env
  BY <1>1 DEF Fields
<1> QED
  BY <1>1, <1>2, RoundTrip

-----------------------------------------------------------------------------
(* Envelopes that can be encoded.                                           *)

\* The unknown members of an object are finitely many, one for a key and none of them known:
\* what Decode sets aside, Encode can carry along.
LEMMA FiniteUnknown ==
  ASSUME NEW ms, IsSequence(ms), NEW known
  PROVE  Carried(Unknown(ms, known), known)
<1>1. IsFiniteSet(Keys(ms))
  <2> DEFINE f == [i \in 1 .. Len(ms) |-> ms[i].key]
  <2>1. Len(ms) \in Nat /\ DOMAIN ms = 1 .. Len(ms)
    BY DEF IsSequence
  <2>2. f \in Surjection(1 .. Len(ms), Keys(ms))
    BY <2>1 DEF Surjection, Keys
  <2>3. IsFiniteSet(1 .. Len(ms))
    BY <2>1, FS_Interval
  <2> QED
    BY <2>2, <2>3, FS_Surjection
<1>2. IsFiniteSet(Keys(ms) \ known)
  BY <1>1, FS_Subset
<1>3. IsFiniteSet(Unknown(ms, known))
  <2> DEFINE f == [k \in Keys(ms) \ known |-> Member(k, Value(ms, k))]
  <2>1. f \in Surjection(Keys(ms) \ known, Unknown(ms, known))
    BY DEF Surjection, Unknown
  <2> QED
    BY <2>1, <1>2, FS_Surjection
<1>4. \A e \in Unknown(ms, known) : e.key \notin known /\ e = Member(e.key, Value(ms, e.key))
  <2> TAKE e \in Unknown(ms, known)
  <2>1. PICK k \in Keys(ms) \ known : e = Member(k, Value(ms, k))
    BY DEF Unknown
  <2>2. e.key = k /\ e.val = Value(ms, k)
    BY <2>1, MemberTag
  <2> QED
    BY <2>1, <2>2
<1>5. \A e \in Unknown(ms, known) : e.val = Value(ms, e.key)
  BY <1>4, MemberTag
<1>6. \A e, f \in Unknown(ms, known) : e.key = f.key => e = f
  BY <1>4
<1> QED
  BY <1>3, <1>4, <1>5, <1>6 DEF Carried

\* An integer is read as a float64, and as itself when a float64 holds it.
LEMMA Float64Type ==
  ASSUME NEW n \in Int
  PROVE  Float64(n) \in Floats /\ (n \in Floats => Float64(n) = n)
<1> DEFINE R == {p \in Nat \X Nat : p[1] < p[2]}
           T == {Distance(m, n) : m \in Floats}
           Near(m) == \A k \in Floats : Distance(m, n) <= Distance(k, n)
<1>1. Floats \subseteq Int /\ Floats # {}
  BY FloatAssumption
<1>2. \A m \in Floats : Distance(m, n) \in Nat /\ (Distance(m, n) = 0 <=> m = n)
  BY <1>1 DEF Distance
<1>3. IsWellFoundedOn(R, Nat)
  <2>1. OpToRel(<, Nat) = R
    BY DEF OpToRel
  <2> QED
    BY <2>1, NatLessThanWellFounded
<1>4. T \subseteq Nat /\ T # {}
  BY <1>1, <1>2
<1>5. PICK x \in T : \A y \in T : ~(<<y, x>> \in R)
  BY <1>3, <1>4, WFMin
<1>6. PICK m \in Floats : x = Distance(m, n)
  BY <1>5
<1>7. Near(m)
  <2> TAKE k \in Floats
  <2>1. Distance(k, n) \in T /\ Distance(k, n) \in Nat /\ Distance(m, n) \in Nat
    BY <1>2
  <2>2. ~(Distance(k, n) < Distance(m, n))
    BY <1>5, <1>6, <2>1
  <2> QED
    BY <2>1, <2>2
<1>8. Float64(n) \in Floats /\ Near(Float64(n))
  BY <1>7 DEF Float64
<1>9. ASSUME n \in Floats PROVE Float64(n) = n
  <2>1. Distance(Float64(n), n) <= Distance(n, n)
    BY <1>8, <1>9
  <2>2. Distance(n, n) = 0 /\ Distance(Float64(n), n) \in Nat
    BY <1>2, <1>8, <1>9
  <2>3. Distance(Float64(n), n) = 0
    BY <2>1, <2>2
  <2> QED
    BY <1>2, <1>8, <2>3
<1> QED
  BY <1>8, <1>9

\* Read as an any, a value is one of the same kind, in range, and stays so when it is read again.
LEMMA AnyType ==
  ASSUME NEW v, JsonValue(v)
  PROVE  /\ JsonValue(AsAny(v)) /\ AsAny(v).is = v.is /\ AsAny(AsAny(v)) = AsAny(v)
         /\ v.is = "number" => -Overflow < AsAny(v).of /\ AsAny(v).of < Overflow
<1>1. CASE v.is = "number"
  <2>1. v.of \in Int
    BY <1>1 DEF JsonValue
  <2>2. PICK m \in Floats : m = Float64(v.of) /\ Float64(m) = m /\ m \in Int
    <3>1. Float64(v.of) \in Floats /\ Floats \subseteq Int
      BY <2>1, Float64Type, FloatAssumption
    <3> QED
      BY <3>1, Float64Type
  <2>3. AsAny(v) = Num(m)
    BY <1>1, <2>2 DEF AsAny
  <2>4. AsAny(Num(m)) = Num(m)
    BY <2>2, NumTag DEF AsAny
  <2>5. -Overflow < m /\ m < Overflow
    BY <2>2, FloatAssumption
  <2>6. Num(m).is = "number" /\ Num(m).of = m /\ Members(Num(m)) = <<>>
    BY NumTag DEF Members
  <2>7. JsonValue(Num(m))
    BY <2>2, <2>6 DEF JsonValue, IsSequence
  <2> QED
    BY <1>1, <2>3, <2>4, <2>5, <2>6, <2>7
<1>2. CASE v.is # "number"
  BY <1>2 DEF AsAny
<1> QED
  BY <1>1, <1>2

\* The members of an object as a map: one for each key, with its last value.
LEMMA MapMembers ==
  ASSUME NEW v, v.is = "object", IsSequence(v.of)
  PROVE  LET ms == AsMap(v).of
             S == {Member(e.key, AsAny(e.val)) : e \in Unknown(v.of, {})}
         IN  /\ AsMap(v) = Obj(ms) /\ ms = SetToSeq(S) /\ IsSequence(ms)
             /\ Unknown(ms, {}) = S
             /\ \A i \in DOMAIN ms : ms[i] \in S
<1> DEFINE U == Unknown(v.of, {})
           S == {Member(e.key, AsAny(e.val)) : e \in U}
           X == SetToSeq(S)
<1>1. Carried(U, {})
  BY FiniteUnknown
<1> HIDE DEF U
<1>2. Carried(S, {})
  <2>1. IsFiniteSet(S)
    <3> DEFINE f == [e \in U |-> Member(e.key, AsAny(e.val))]
    <3>1. f \in Surjection(U, S)
      BY DEF Surjection
    <3> QED
      BY <3>1, <1>1, FS_Surjection DEF Carried
  <2>2. ASSUME NEW e \in S
        PROVE  e = Member(e.key, e.val) /\ \E g \in U : e = Member(g.key, AsAny(g.val)) /\ e.key = g.key
    <3>1. PICK g \in U : e = Member(g.key, AsAny(g.val))
      OBVIOUS
    <3> QED
      BY <3>1, MemberTag
  <2>3. \A e, f \in S : e.key = f.key => e = f
    <3> TAKE e \in S, f \in S
    <3>1. PICK g \in U : e = Member(g.key, AsAny(g.val)) /\ e.key = g.key
      BY <2>2
    <3>2. PICK h \in U : f = Member(h.key, AsAny(h.val)) /\ f.key = h.key
      BY <2>2
    <3> QED
      BY <3>1, <3>2, <1>1 DEF Carried
  <2> HIDE DEF S
  <2> QED
    BY <2>1, <2>2, <2>3 DEF Carried
<1> HIDE DEF S
<1>3. X \in Seq(S)
  BY <1>2, Listing DEF Carried
<1>4. <<>> \o X = X
  BY <1>3
<1>5. IsSequence(<<>>) /\ Keys(<<>>) \subseteq {}
  BY DEF IsSequence, Keys
<1>6. Unknown(X, {}) = S /\ IsSequence(X)
  BY <1>2, <1>4, <1>5, ReadBack
<1>7. \A i \in DOMAIN X : X[i] \in S
  BY <1>3
<1> HIDE DEF X
<1>8. AsMap(v) = Obj(X)
  BY DEF AsMap, X, S, U
<1>9. AsMap(v).of = X
  BY <1>8, ObjTag
<1> QED
  BY <1>6, <1>7, <1>8, <1>9 DEF X, S, U

\* The members of a list with their last values are members of it.
LEMMA LastMember ==
  ASSUME NEW ms, IsSequence(ms), NEW e \in Unknown(ms, {})
  PROVE  \E i \in DOMAIN ms : e = Member(ms[i].key, ms[i].val) /\ e.key = ms[i].key /\ e.val = ms[i].val
<1>1. PICK k \in Keys(ms) : e = Member(k, Value(ms, k))
  BY DEF Unknown
<1>2. PICK i \in DOMAIN ms : ms[i].key = k /\ Value(ms, k) = ms[i].val
  BY ValueAt
<1> QED
  BY <1>1, <1>2, MemberTag

\* What map[string]any keeps of data: every key once, with its last value, an integer exactly
\* when a float64 holds it.  The map can be written again and is then read back unchanged.
THEOREM DataRead ==
  ASSUME NEW v, Payload(v)
  PROVE  LET old == Members(v)
             new == Members(AsMap(v))
         IN  /\ Payload(AsMap(v)) /\ AsMap(AsMap(v)) = AsMap(v)
             /\ Keys(new) = Keys(old)
             /\ \A k \in Keys(old) :
                  /\ Value(new, k) = AsAny(Value(old, k))
                  /\ Value(old, k).is = "number" =>
                       /\ AsAny(Value(old, k)).of \in Floats
                       /\ AsAny(Value(old, k)).of = Value(old, k).of <=> Value(old, k).of \in Floats
<1> DEFINE old == Members(v)
           new == Members(AsMap(v))
<1>a. /\ v.is \in {"object", "null"} /\ IsSequence(old)
      /\ \A i \in DOMAIN old : JsonValue(old[i].val) /\ old[i].val.is # "object"
  BY DEF Payload
<1>1. ASSUME NEW k \in Keys(old), Value(old, k).is = "number"
      PROVE  /\ AsAny(Value(old, k)).of \in Floats
             /\ AsAny(Value(old, k)).of = Value(old, k).of <=> Value(old, k).of \in Floats
  <2> DEFINE x == Value(old, k)
  <2> HIDE DEF old
  <2>1. PICK i \in DOMAIN old : x = old[i].val
    BY <1>a, ValueAt DEF x
  <2>2. x.of \in Int
    BY <1>1, <1>a, <2>1 DEF JsonValue
  <2> HIDE DEF x
  <2>3. AsAny(x).of = Float64(x.of)
    BY <1>1, NumTag DEF AsAny, x
  <2>4. Float64(x.of) \in Floats /\ (x.of \in Floats => Float64(x.of) = x.of)
    BY <2>2, Float64Type
  <2>5. AsAny(x).of \in Floats /\ (AsAny(x).of = x.of <=> x.of \in Floats)
    BY <2>3, <2>4
  <2> QED
    BY <2>5 DEF x
<1>2. CASE v.is # "object"
  <2>1. AsMap(v) = v /\ old = <<>> /\ new = <<>>
    BY <1>2 DEF AsMap, Members
  <2>2. Keys(old) = {}
    BY <2>1 DEF Keys
  <2> QED
    BY <2>1, <2>2
<1>3. CASE v.is = "object"
  <2> DEFINE S == {Member(e.key, AsAny(e.val)) : e \in Unknown(old, {})}
  <2>1. old = v.of
    BY <1>3 DEF Members
  <2>2. /\ AsMap(v) = Obj(new) /\ new = SetToSeq(S) /\ IsSequence(new)
        /\ Unknown(new, {}) = S
        /\ \A i \in DOMAIN new : new[i] \in S
    <3>1. AsMap(v) = Obj(AsMap(v).of)
      BY <1>3, <1>a, <2>1, MapMembers
    <3>2. new = AsMap(v).of
      BY <3>1, ObjTag
    <3> QED
      BY <3>1, <3>2, <1>3, <1>a, <2>1, MapMembers
  <2> HIDE DEF old, new
  <2>3. ASSUME NEW e \in S
        PROVE  \E i \in DOMAIN old :
                 e = Member(e.key, e.val) /\ e.key = old[i].key /\ e.val = AsAny(old[i].val)
    <3>1. PICK g \in Unknown(old, {}) : e = Member(g.key, AsAny(g.val))
      OBVIOUS
    <3>2. PICK i \in DOMAIN old : g.key = old[i].key /\ g.val = old[i].val
      BY <1>a, LastMember
    <3> QED
      BY <3>1, <3>2, MemberTag
  <2> HIDE DEF S
  <2>4. ASSUME NEW i \in DOMAIN new
        PROVE  /\ JsonValue(new[i].val) /\ new[i].val.is # "object"
               /\ AsAny(new[i].val) = new[i].val
               /\ new[i].val.is = "number" => -Overflow < new[i].val.of /\ new[i].val.of < Overflow
    <3>1. PICK j \in DOMAIN old : new[i].val = AsAny(old[j].val)
      BY <2>2, <2>3
    <3>2. JsonValue(old[j].val) /\ old[j].val.is # "object"
      BY <1>a
    <3> QED
      BY <3>1, <3>2, AnyType
  <2>5. Obj(new).is = "object" /\ Obj(new).of = new /\ Members(Obj(new)) = new
    BY ObjTag
  <2>6. Payload(AsMap(v))
    BY <2>2, <2>4, <2>5 DEF Payload, InRange
  <2>7. AsMap(AsMap(v)) = AsMap(v)
    <3>1. \A e \in S : Member(e.key, AsAny(e.val)) = e
      <4> TAKE e \in S
      <4>1. PICK j \in DOMAIN old : e = Member(e.key, e.val) /\ e.val = AsAny(old[j].val)
        BY <2>3
      <4>2. AsAny(e.val) = e.val
        BY <4>1, <1>a, AnyType
      <4> QED
        BY <4>1, <4>2
    <3>2. {Member(e.key, AsAny(e.val)) : e \in S} = S
      BY <3>1
    <3>3. AsMap(Obj(new)) = Obj(SetToSeq({Member(e.key, AsAny(e.val)) : e \in Unknown(new, {})}))
      BY <2>5 DEF AsMap
    <3> QED
      BY <2>2, <3>2, <3>3
  <2>8. Keys(new) = Keys(old) /\ \A k \in Keys(old) : Value(new, k) = AsAny(Value(old, k))
    <3>1. \A k : k \in Keys(new) <=> \E e \in S : e.key = k
      <4> TAKE k
      <4>1. ASSUME NEW e \in S, e.key = k PROVE k \in Keys(new)
        <5>1. PICK i \in DOMAIN new : e.key = new[i].key
          BY <2>2, LastMember
        <5> QED
          BY <5>1, <4>1 DEF Keys
      <4>2. ASSUME k \in Keys(new) PROVE \E e \in S : e.key = k
        BY <4>2, <2>2 DEF Keys
      <4> QED
        BY <4>1, <4>2
    <3>2. \A k \in Keys(old) : Member(k, AsAny(Value(old, k))) \in S
      <4> TAKE k \in Keys(old)
      <4>1. Member(k, Value(old, k)) \in Unknown(old, {})
        BY DEF Unknown
      <4> QED
        BY <4>1, MemberTag DEF S
    <3>3. Keys(new) \subseteq Keys(old)
      BY <3>1, <2>3 DEF Keys
    <3>4. Keys(old) \subseteq Keys(new)
      BY <3>1, <3>2, MemberTag
    <3>5. ASSUME NEW k \in Keys(old) PROVE Value(new, k) = AsAny(Value(old, k))
      <4>1. PICK e \in S : e = Member(k, AsAny(Value(old, k)))
        BY <3>2
      <4>2. PICK n \in Keys(new) : e = Member(n, Value(new, n))
        BY <2>2 DEF Unknown
      <4>3. e.key = k /\ e.val = AsAny(Value(old, k))
        BY <4>1, MemberTag
      <4>4. e.key = n /\ e.val = Value(new, n)
        BY <4>2, MemberTag
      <4> QED
        BY <4>3, <4>4
    <3> QED
      BY <3>3, <3>4, <3>5
  <2> QED
    BY <1>1, <2>6, <2>7, <2>8 DEF old, new
<1> QED
  BY <1>2, <1>3

\* An envelope that Decode accepts can be encoded again.
LEMMA DecodedEncodable ==
  ASSUME NEW body, JsonBody(body), Decode(body).err = "none"
  PROVE  Encodable(Decode(body).env)
<1> DEFINE ms == Members(body)
           env == EnvelopeOf(ms)
           meta == Members(Value(ms, "meta"))
           v == Value(ms, "data")
<1>1. Decodable(body) /\ ~IsBlankASCII(Identity(ms)) /\ Decode(body).env = env
  BY DEF Decode
<1>2. IsSequence(ms)
  BY DEF JsonBody, JsonValue
<1>3. \A k \in Keys(ms) : \E i \in DOMAIN ms : ms[i].key = k /\ Value(ms, k) = ms[i].val
  BY <1>2, ValueAt
<1>4. Payload(Value(ms, "data"))
  <2>1. CASE "data" \in Keys(ms)
    <3>1. PICK i \in DOMAIN ms : ms[i].key = "data" /\ Value(ms, "data") = ms[i].val
      BY <2>1, <1>3
    <3>2. body # Null => WellTyped(ms, EnvelopeTypes)
      BY <1>1 DEF Decodable, Members
    <3>3. body # Null
      <4>1. body = Null => ms = <<>>
        BY NullTag
      <4>2. \A j \in DOMAIN <<>> : FALSE
        OBVIOUS
      <4> QED
        BY <4>1, <4>2, <3>1
    <3>4. v.is \in {"object", "null"}
      BY <3>1, <3>2, <3>3 DEF WellTyped, EnvelopeTypes
    <3>5. v.is = "object" => InRange(v.of)
      <4>1. NestedWellTyped(ms)
        BY <1>1, <3>3 DEF Decodable, Members
      <4> QED
        BY <4>1, <3>1 DEF NestedWellTyped
    <3>6. /\ IsSequence(Members(v))
          /\ \A j \in DOMAIN Members(v) : JsonValue(Members(v)[j].val) /\ Members(v)[j].val.is # "object"
      BY <3>1 DEF JsonBody, JsonValue
    <3>7. InRange(Members(v))
      BY <3>5 DEF InRange, Members
    <3> QED
      BY <3>4, <3>6, <3>7 DEF Payload
  <2>2. CASE "data" \notin Keys(ms)
    <3>1. v = Null /\ Members(v) = <<>>
      BY <2>2, NullTag DEF Value
    <3>2. IsSequence(<<>>) /\ InRange(<<>>) /\ DOMAIN <<>> = {}
      BY DEF IsSequence, InRange
    <3>3. Payload(Null)
      BY <3>2, NullTag DEF Payload
    <3> QED
      BY <3>1, <3>3
  <2> QED
    BY <2>1, <2>2
<1>a. Payload(AsMap(v)) /\ AsMap(AsMap(v)) = AsMap(v)
  BY <1>4, DataRead
<1>5. IsSequence(meta)
  <2>1. CASE "meta" \in Keys(ms)
    <3>1. PICK i \in DOMAIN ms : ms[i].key = "meta" /\ Value(ms, "meta") = ms[i].val
      BY <2>1, <1>3
    <3> QED
      BY <3>1 DEF JsonBody, JsonValue
  <2>2. CASE "meta" \notin Keys(ms)
    <3>1. meta = <<>>
      BY <2>2, NullTag DEF Value
    <3>2. IsSequence(<<>>)
      BY DEF IsSequence
    <3> QED
      BY <3>1, <3>2
  <2> QED
    BY <2>1, <2>2
<1>6. Carried(Unknown(ms, KnownKeys), KnownKeys) /\ Carried(Unknown(meta, MetaKeys), MetaKeys)
  BY <1>2, <1>5, FiniteUnknown
<1> DEFINE dead == DecodeDeadLetter(Value(ms, "dead_letter"))
<1>7. \/ dead = <<>>
      \/ dead = << [queue |-> dead[1].queue, attempts |-> dead[1].attempts] >>
  BY DEF DecodeDeadLetter
<1> HIDE DEF dead, ms, meta
<1>8. /\ env = [f \in Fields |-> env[f]]
      /\ env.job = Identity(ms) /\ env.data = AsMap(v)
      /\ env.dead = dead /\ env.extras = Unknown(ms, KnownKeys)
      /\ env.metaExtras = Unknown(meta, MetaKeys)
  BY DEF EnvelopeOf, dead, meta, v, KnownKeys, MetaKeys, Fields
<1> HIDE DEF env
<1> HIDE DEF v
<1> QED
  BY <1>1, <1>a, <1>6, <1>7, <1>8 DEF Encodable, Writable

\* Encode refuses none of them.
LEMMA EncodableChecks ==
  ASSUME NEW env, Encodable(env)
  PROVE  CheckExtras(env)
<1>1. ASSUME NEW S, NEW reserved, Carried(S, reserved)
      PROVE  Keys(SetToSeq(S)) \cap reserved = {}
  <2>1. \A i \in DOMAIN SetToSeq(S) : SetToSeq(S)[i] \in S
    BY <1>1, Listing DEF Carried
  <2> QED
    BY <1>1, <2>1 DEF Keys, Carried
<1>2. Keys(SetToSeq(env.extras)) \cap KnownKeys = {} /\ Keys(SetToSeq(env.metaExtras)) \cap MetaKeys = {}
  BY <1>1 DEF Encodable, Writable
<1> QED
  BY <1>2 DEF CheckExtras, KnownKeys, MetaKeys

\* The attempts and the dead-letter block of an envelope may be replaced.
LEMMA Replaced ==
  ASSUME NEW env, Encodable(env), NEW e,
         e = [f \in Fields |-> e[f]],
         \A f \in Fields \ {"attempts", "dead"} : e[f] = env[f],
         \/ e.dead = <<>> \/ e.dead = env.dead
         \/ e.dead = << [queue |-> e.dead[1].queue, attempts |-> e.dead[1].attempts] >>
  PROVE  Encodable(e) /\ Core(e) = Core(env)
<1>1. Encodable(e)
  BY DEF Encodable, Writable, Fields
<1>2. Core(e) = Core(env)
  BY DEF Core, Fields, Encodable, Writable
<1> QED
  BY <1>1, <1>2

\* Replacing the attempts (WithAttempts, Retry) changes nothing else.
LEMMA WithCount ==
  ASSUME NEW env, Encodable(env), NEW n
  PROVE  LET e == [env EXCEPT !.attempts = n]
         IN Encodable(e) /\ Core(e) = Core(env) /\ e.attempts = n /\ e.dead = env.dead
<1> DEFINE e == [env EXCEPT !.attempts = n]
<1>1. /\ e = [f \in Fields |-> e[f]] /\ e.attempts = n
      /\ \A f \in Fields \ {"attempts"} : e[f] = env[f]
  BY DEF Encodable, Writable, Fields
<1>2. e.dead = env.dead
  BY <1>1 DEF Fields
<1> HIDE DEF e
<1>3. Encodable(e) /\ Core(e) = Core(env)
  BY <1>1, <1>2, Replaced
<1> QED
  BY <1>1, <1>2, <1>3 DEF e

\* Annotate adds a dead-letter block with the queue it came from and changes nothing else.
LEMMA WithBlock ==
  ASSUME NEW env, Encodable(env), NEW queue, NEW n
  PROVE  LET e == Annotate(env, queue, n)
         IN  /\ Encodable(e) /\ Core(e) = Core(env) /\ e.attempts = env.attempts
             /\ e.dead[1].queue = queue
<1> DEFINE e == Annotate(env, queue, n)
           d == [queue |-> queue, attempts |-> n]
<1>1. /\ e = [f \in Fields |-> e[f]] /\ e.attempts = env.attempts
      /\ \A f \in Fields \ {"dead"} : e[f] = env[f]
      /\ e.dead = << d >>
  BY DEF Encodable, Writable, Fields, Annotate
<1>2. e.dead = << [queue |-> e.dead[1].queue, attempts |-> e.dead[1].attempts] >>
  BY <1>1
<1>4. e.dead[1].queue = queue
  BY <1>1
<1> HIDE DEF e, d
<1>3. Encodable(e) /\ Core(e) = Core(env)
  BY <1>1, <1>2, Replaced
<1> QED
  BY <1>1, <1>3, <1>4 DEF e

\* Redrive takes the block off and sets the attempts to 0, and changes nothing else.
LEMMA WithReset ==
  ASSUME NEW env, Encodable(env)
  PROVE  LET e == [env EXCEPT !.dead = <<>>, !.attempts = 0]
         IN Encodable(e) /\ Core(e) = Core(env) /\ e.attempts = 0 /\ e.dead = <<>>
<1> DEFINE e == [env EXCEPT !.dead = <<>>, !.attempts = 0]
<1>1. /\ e = [f \in Fields |-> e[f]] /\ e.attempts = 0 /\ e.dead = <<>>
      /\ \A f \in Fields \ {"attempts", "dead"} : e[f] = env[f]
  BY DEF Encodable, Writable, Fields
<1> HIDE DEF e
<1>2. Encodable(e) /\ Core(e) = Core(env)
  BY <1>1, Replaced
<1> QED
  BY <1>1, <1>2 DEF e

\* The fields that no hop changes.
LEMMA CoreFields ==
  ASSUME NEW env, NEW e, Encodable(env), Encodable(e), Core(e) = Core(env)
  PROVE  e.job = env.job /\ e.version = env.version /\ e.queue = env.queue
<1>1. \A x : Encodable(x) => /\ Core(x).job = x.job /\ Core(x).version = x.version
                             /\ Core(x).queue = x.queue
  BY DEF Core, Encodable, Writable, Fields
<1> QED
  BY <1>1

-----------------------------------------------------------------------------
(* One hop: what Pop hands over.                                            *)

\* The transports that project an envelope onto properties.
Six == {"kafka", "pulsar", "sqs", "azure", "artemis", "amqp"}

\* Decode accepts the body.
Decodes(body) == Decode(body).err = "none"

\* The larger of two.
LEMMA MaxPair ==
  ASSUME NEW a \in Int, NEW b \in Int
  PROVE  Max({a, b}) = IF a >= b THEN a ELSE b
BY DEF Max

\* The largest of one.
LEMMA MaxOne == ASSUME NEW a \in Int PROVE Max({a}) = a
BY DEF Max

\* Two bodies that differ in the attempts alone.
Alike(w, body) == Core(Env(w)) = Core(Env(body)) /\ Env(w).dead = Env(body).dead

\* WithAttempts changes the counter and nothing else, and only of a body that decodes.
LEMMA Reattempted ==
  ASSUME NEW body, NEW n, Decodes(body) => Encodable(Env(body))
  PROVE  LET w == WithAttempts(body, n)
         IN  /\ ~Decodes(body) => w = body
             /\ Decodes(body) => /\ Decodes(w) /\ Encodable(Env(w))
                                 /\ Alike(w, body)
                                 /\ Env(w).attempts = n
<1> DEFINE env == [Decode(body).env EXCEPT !.attempts = n]
           w == WithAttempts(body, n)
<1>1. CASE ~Decodes(body)
  BY <1>1 DEF Decodes, WithAttempts
<1>2. CASE Decodes(body) /\ Decode(body).env.attempts = n
  BY <1>2 DEF Decodes, WithAttempts, Env, Alike
<1>3. CASE Decodes(body) /\ Decode(body).env.attempts # n
  <2>1. Encodable(env) /\ Core(env) = Core(Decode(body).env) /\ env.attempts = n
    BY <1>3, WithCount DEF Env
  <2>6. env.dead = Decode(body).env.dead
    BY <1>3 DEF Encodable, Writable, Fields, Env
  <2>2. CheckExtras(env)
    BY <2>1, EncodableChecks
  <2>3. w = Encode(env)
    BY <1>3, <2>2 DEF Decodes, WithAttempts
  <2>4. Decode(w) = [err |-> "none", env |-> env]
    BY <2>1, <2>3, Reread
  <2> HIDE DEF w, env
  <2>5. Decodes(w) /\ Env(w) = env
    BY <2>4 DEF Decodes, Env
  <2> QED
    BY <1>3, <2>1, <2>5, <2>6 DEF w, Env, Alike
<1> QED
  BY <1>1, <1>2, <1>3

\* Pop of the transport u for the record r.
PopOf(u, r) ==
  CASE u = "kafka"   -> KafkaPop(r)
    [] u = "pulsar"  -> PulsarPop(r, r.count)
    [] u = "sqs"     -> SqsPop(r, r.count)
    [] u = "azure"   -> AzurePop(r, r.count)
    [] u = "artemis" -> ArtemisPop(r, r.count)
    [] u = "amqp"    -> AmqpPop(r)

\* The version gate of the transport u rejects the record r.
Rejects(u, r) ==
  CASE u = "kafka"   -> KafkaRejects(r.props.version)
    [] u = "pulsar"  -> PulsarRejects(r.props.version)
    [] u = "sqs"     -> SqsRejects(r.props.version)
    [] u = "azure"   -> AzureRejects(r.props.version)
    [] u = "artemis" -> ArtemisRejects(r.props.version)
    [] u = "amqp"    -> FALSE

\* The count that body, header and broker agree on.
Base(u, r) ==
  IF r.props.attempts.is = "text" /\ (u = "kafka" \/ (u = "pulsar" /\ r.props.attempts.of >= 0))
  THEN r.props.attempts.of ELSE OwnAttempts(r.body)
\* The least count that the broker vouches for.
Floor(u, r) ==
  CASE u \in {"kafka", "amqp"}    -> -1
    [] u \in {"pulsar", "sqs"}    -> r.count
    [] u \in {"azure", "artemis"} -> IF r.count = 0 THEN -1 ELSE r.count
\* The counter of the next delivery.
Due(u, r) == IF Base(u, r) >= Floor(u, r) THEN Base(u, r) ELSE Floor(u, r)

\* A record whose body, if it decodes, can be encoded again.
RecordOK(r) ==
  /\ PropsOK(r.props)
  /\ r.count \in Nat
  /\ Decodes(r.body) => Encodable(Env(r.body)) /\ OwnAttempts(r.body) \in Int

\* Pop is that of the transport in use.
LEMMA SamePop == ASSUME t \in Six PROVE Pop = PopOf(t, msg)
BY DEF Six, Pop, PopOf

\* The fields of a delivery.
LEMMA DeliveryFields ==
  ASSUME NEW b, NEW rt, NEW n
  PROVE  Delivery(b, rt, n).body = b /\ Delivery(b, rt, n).route = rt /\ Delivery(b, rt, n).deliveries = n
BY DEF Delivery

\* The gate: rejected records come back whole under the reserved route, with their version.
LEMMA PopGated ==
  ASSUME NEW u \in Six, NEW r, RecordOK(r), Rejects(u, r)
  PROVE  /\ PopOf(u, r).body = r.body
         /\ PopOf(u, r).route.is = "gate"
         /\ PopOf(u, r).route.of[1] = r.props.version
         /\ u = "pulsar" => PopOf(u, r).route.of[2] = r.props.job
         /\ PopOf(u, r).deliveries \in Nat
<1>1. HeaderAttempts(r.props) \in Nat
  BY DEF HeaderAttempts, RecordOK, PropsOK
<1>2. \A v, j : GateRoute(v, j).is = "gate" /\ GateRoute(v, j).of[1] = v /\ GateRoute(v, j).of[2] = j
  BY DEF GateRoute
<1>3. r.count \in Nat
  BY DEF RecordOK
<1>4. CASE u = "kafka"
  <2>1. PopOf(u, r) = KafkaPop(r) /\ KafkaRejects(r.props.version)
    BY <1>4 DEF PopOf, Rejects
  <2> QED
    BY <2>1, <1>4, <1>1, <1>2, <1>3, DeliveryFields DEF KafkaPop
<1>5. CASE u = "pulsar"
  <2>1. PopOf(u, r) = PulsarPop(r, r.count) /\ PulsarRejects(r.props.version)
    BY <1>5 DEF PopOf, Rejects
  <2> QED
    BY <2>1, <1>5, <1>1, <1>2, <1>3, DeliveryFields DEF PulsarPop
<1>6. CASE u = "sqs"
  <2>1. PopOf(u, r) = SqsPop(r, r.count) /\ SqsRejects(r.props.version)
    BY <1>6 DEF PopOf, Rejects
  <2> QED
    BY <2>1, <1>6, <1>1, <1>2, <1>3, DeliveryFields DEF SqsPop
<1>7. CASE u = "azure"
  <2>1. PopOf(u, r) = AzurePop(r, r.count) /\ AzureRejects(r.props.version)
    BY <1>7 DEF PopOf, Rejects
  <2> QED
    BY <2>1, <1>7, <1>1, <1>2, <1>3, DeliveryFields DEF AzurePop
<1>8. CASE u = "artemis"
  <2>1. PopOf(u, r) = ArtemisPop(r, r.count) /\ ArtemisRejects(r.props.version)
    BY <1>8 DEF PopOf, Rejects
  <2> QED
    BY <2>1, <1>8, <1>1, <1>2, <1>3, DeliveryFields DEF ArtemisPop
<1> QED
  BY <1>4, <1>5, <1>6, <1>7, <1>8 DEF Six, Rejects

\* What a record that is not rejected turns into: the same envelope with its attempts
\* reconciled, and on Pulsar the route of its bq-job property.
Accepted(u, r, d) ==
  /\ ~Decodes(r.body) => d.body = r.body
  /\ Decodes(r.body) => /\ Decodes(d.body) /\ Encodable(Env(d.body))
                        /\ Alike(d.body, r.body)
                        /\ OwnAttempts(d.body) \in Int
                        /\ Max({OwnAttempts(d.body), d.deliveries - 1}) = Due(u, r)
  /\ d.route = IF u # "pulsar" \/ Blank(r.props.job) \/ ~Decodes(r.body) THEN Null ELSE r.props.job
  /\ d.deliveries \in Nat

\* A body handed over as it is or with another counter is the same message.
LEMMA Reconciled ==
  ASSUME NEW body, Decodes(body) => Encodable(Env(body)) /\ OwnAttempts(body) \in Int,
         NEW n \in Int, NEW w, w = body \/ w = WithAttempts(body, n)
  PROVE  /\ ~Decodes(body) => w = body
         /\ Decodes(body) => /\ Decodes(w) /\ Encodable(Env(w)) /\ Alike(w, body)
                             /\ OwnAttempts(w) \in Int
                             /\ w = WithAttempts(body, n) => OwnAttempts(w) = n
  BY Reattempted DEF OwnAttempts, Alike

\* Kafka: the bq-attempts header decides the counter, there is no broker count.
LEMMA KafkaAccepted ==
  ASSUME NEW r, RecordOK(r), ~KafkaRejects(r.props.version)
  PROVE  Accepted("kafka", r, KafkaPop(r))
<1> DEFINE d == KafkaPop(r)
           a == r.props.attempts
<1> SUFFICES Accepted("kafka", r, d)
  OBVIOUS
<1>1. d.body = KafkaReconcile(r.body, r.props) /\ d.route = Null /\ d.deliveries = 0
  BY DeliveryFields DEF KafkaPop
<1> HIDE DEF d
<1>2. Decodes(r.body) => Encodable(Env(r.body)) /\ OwnAttempts(r.body) \in Int
  BY DEF RecordOK
<1>3. Due("kafka", r) = IF Base("kafka", r) >= -1 THEN Base("kafka", r) ELSE -1
  BY DEF Due, Floor
<1>4. CASE a.is = "text"
  <2>1. d.body = WithAttempts(r.body, a.of) /\ a.of \in Int
    BY <1>1, <1>4 DEF KafkaReconcile, RecordOK, PropsOK
  <2>2. Base("kafka", r) = a.of
    BY <1>4 DEF Base
  <2>3. /\ ~Decodes(r.body) => d.body = r.body
        /\ Decodes(r.body) => /\ Decodes(d.body) /\ Encodable(Env(d.body)) /\ Alike(d.body, r.body)
                              /\ OwnAttempts(d.body) = a.of
    BY <1>2, <2>1, Reconciled
  <2> HIDE DEF a
  <2>4. Max({a.of, 0 - 1}) = IF a.of >= -1 THEN a.of ELSE -1
    BY <2>1, MaxPair
  <2> QED
    BY <1>1, <1>3, <2>1, <2>2, <2>3, <2>4 DEF Accepted
<1>5. CASE a.is # "text"
  <2>1. d.body = r.body
    BY <1>1, <1>5 DEF KafkaReconcile
  <2>2. Base("kafka", r) = OwnAttempts(r.body)
    BY <1>5 DEF Base
  <2>3. Decodes(r.body) => Max({OwnAttempts(r.body), 0 - 1})
             = IF OwnAttempts(r.body) >= -1 THEN OwnAttempts(r.body) ELSE -1
    BY <1>2, MaxPair
  <2> QED
    BY <1>1, <1>2, <1>3, <2>1, <2>2, <2>3 DEF Accepted, Alike
<1> QED
  BY <1>4, <1>5

\* Pulsar: the property is a start, the redelivery count a floor, and bq-job the route.
LEMMA PulsarAccepted ==
  ASSUME NEW r, RecordOK(r), ~PulsarRejects(r.props.version)
  PROVE  Accepted("pulsar", r, PulsarPop(r, r.count))
<1> DEFINE d == PulsarPop(r, r.count)
           a == r.props.attempts
           c == r.count
<1> SUFFICES Accepted("pulsar", r, d)
  OBVIOUS
<1>1. /\ d.body = PulsarReconcile(r.body, r.props, c)
      /\ d.route = IF Blank(r.props.job) \/ ~Decodes(r.body) THEN Null ELSE r.props.job
      /\ d.deliveries = Max(ParseAttempts(a) \cup {c}) + 1
  BY DeliveryFields DEF PulsarPop, Decodes
<1>2. /\ Decodes(r.body) => Encodable(Env(r.body)) /\ OwnAttempts(r.body) \in Int
      /\ c \in Nat
      /\ a.is = "text" => a.of \in Int
  BY DEF RecordOK, PropsOK
<1>3. Due("pulsar", r) = IF Base("pulsar", r) >= c THEN Base("pulsar", r) ELSE c
  BY DEF Due, Floor
<1>4. CASE a.is = "text" /\ a.of >= 0
  <2> DEFINE m == IF a.of >= c THEN a.of ELSE c
  <2>1. a.of \in Int /\ m \in Nat
    BY <1>2, <1>4
  <2>2. ParseAttempts(a) = {a.of}
    BY <1>4 DEF ParseAttempts
  <2>3. Base("pulsar", r) = a.of
    BY <1>4 DEF Base
  <2> HIDE DEF d
  <2>4. Max({a.of}) = a.of /\ Max({a.of, c}) = m /\ {a.of} \cup {c} = {a.of, c} /\ {a.of} # {}
    BY <1>2, <2>1, MaxPair, MaxOne
  <2>5. d.body = WithAttempts(r.body, m) /\ d.deliveries = m + 1
    BY <1>1, <2>2, <2>4 DEF PulsarReconcile
  <2> HIDE DEF a, c
  <2>6. /\ ~Decodes(r.body) => d.body = r.body
        /\ Decodes(r.body) => /\ Decodes(d.body) /\ Encodable(Env(d.body)) /\ Alike(d.body, r.body)
                              /\ OwnAttempts(d.body) = m
    BY <1>2, <2>5, Reattempted DEF OwnAttempts
  <2>7. m \in Int /\ Max({m, d.deliveries - 1}) = m
    <3>1. m \in Int /\ (m + 1) - 1 = m
      BY <2>1
    <3>2. d.deliveries - 1 = m
      BY <2>5, <3>1
    <3> QED
      BY <3>1, <3>2, MaxPair
  <2>8. Due("pulsar", r) = m
    BY <1>3, <2>3
  <2> HIDE DEF m
  <2>9. d.deliveries \in Nat
    BY <2>1, <2>5
  <2> QED
    BY <1>1, <2>6, <2>7, <2>8, <2>9 DEF Accepted
<1>5. CASE ~(a.is = "text" /\ a.of >= 0)
  <2> DEFINE mine == OwnAttempts(r.body)
             m == IF mine >= c THEN mine ELSE c
  <2>1. ParseAttempts(a) = {}
    BY <1>5 DEF ParseAttempts
  <2>2. Base("pulsar", r) = mine
    BY <1>5 DEF Base
  <2> HIDE DEF d, mine
  <2>3. Max({c}) = c /\ {} \cup {c} = {c}
    BY <1>2, MaxOne
  <2>4. d.body = WithAttempts(r.body, Max({mine, c})) /\ d.deliveries = c + 1
    BY <1>1, <2>1, <2>3 DEF PulsarReconcile, mine
  <2>5. Decodes(r.body) => mine \in Int /\ Max({mine, c}) = m /\ m \in Int
    BY <1>2, MaxPair DEF mine
  <2> HIDE DEF a, c
  <2>6. /\ ~Decodes(r.body) => d.body = r.body
        /\ Decodes(r.body) => /\ Decodes(d.body) /\ Encodable(Env(d.body)) /\ Alike(d.body, r.body)
                              /\ OwnAttempts(d.body) = m
    BY <1>2, <2>4, <2>5, Reattempted DEF OwnAttempts
  <2>7. Decodes(r.body) => Max({m, (c + 1) - 1}) = m
    BY <1>2, <2>5, MaxPair
  <2>8. Due("pulsar", r) = m
    BY <1>3, <2>2
  <2> HIDE DEF m
  <2>9. d.deliveries \in Nat
    BY <1>2, <2>4
  <2> QED
    BY <1>1, <2>4, <2>5, <2>6, <2>7, <2>8, <2>9 DEF Accepted
<1> QED
  BY <1>4, <1>5

\* The three transports whose broker count is a floor.
LEMMA FlooredAccepted ==
  ASSUME NEW u \in {"sqs", "azure", "artemis"}, NEW r, RecordOK(r), NEW d,
         d.body = IF r.count = 0 \/ r.count <= OwnAttempts(r.body) THEN r.body
                  ELSE WithAttempts(r.body, r.count),
         d.route = Null,
         d.deliveries = IF u = "sqs" THEN r.count + 1 ELSE 0
  PROVE  Accepted(u, r, d)
<1> DEFINE mine == OwnAttempts(r.body)
           c == r.count
           f == IF u = "sqs" THEN c ELSE IF c = 0 THEN -1 ELSE c
<1>1. /\ Decodes(r.body) => Encodable(Env(r.body)) /\ mine \in Int
      /\ c \in Nat
  BY DEF RecordOK
<1>2. Due(u, r) = (IF mine >= f THEN mine ELSE f)
  BY DEF Due, Floor, Base
<1>3. /\ d.body = IF c = 0 \/ c <= mine THEN r.body ELSE WithAttempts(r.body, c)
      /\ d.deliveries = IF u = "sqs" THEN c + 1 ELSE 0
  OBVIOUS
<1>4. /\ ~Decodes(r.body) => d.body = r.body
      /\ Decodes(r.body) => /\ Decodes(d.body) /\ Encodable(Env(d.body)) /\ Alike(d.body, r.body)
                            /\ OwnAttempts(d.body) = IF c = 0 \/ c <= mine THEN mine ELSE c
  <2>1. CASE d.body = r.body /\ (c = 0 \/ c <= mine)
    BY <1>1, <2>1 DEF Alike
  <2>2. CASE d.body = WithAttempts(r.body, c) /\ ~(c = 0 \/ c <= mine)
    BY <1>1, <2>2, Reattempted DEF OwnAttempts
  <2> QED
    BY <1>3, <2>1, <2>2
<1> HIDE DEF c, mine
<1>5. d.deliveries \in Nat
  BY <1>1, <1>3
<1>6. Decodes(r.body) => Max({OwnAttempts(d.body), d.deliveries - 1}) = (IF mine >= f THEN mine ELSE f)
  <2>1. SUFFICES ASSUME Decodes(r.body)
                 PROVE  Max({OwnAttempts(d.body), d.deliveries - 1}) = (IF mine >= f THEN mine ELSE f)
    OBVIOUS
  <2>2. OwnAttempts(d.body) = (IF c = 0 \/ c <= mine THEN mine ELSE c) /\ mine \in Int /\ c \in Nat
    BY <1>1, <1>4, <2>1
  <2>3. OwnAttempts(d.body) \in Int /\ d.deliveries - 1 \in Int
    BY <1>5, <2>2
  <2>4. Max({OwnAttempts(d.body), d.deliveries - 1})
          = IF OwnAttempts(d.body) >= d.deliveries - 1 THEN OwnAttempts(d.body) ELSE d.deliveries - 1
    BY <2>3, MaxPair
  <2> QED
    BY <1>3, <2>2, <2>4
<1> HIDE DEF f
<1> QED
  BY <1>1, <1>2, <1>4, <1>5, <1>6 DEF Accepted

\* Every transport hands over what its gate accepts as the message it is.
LEMMA PopAccepted ==
  ASSUME NEW u \in Six, NEW r, RecordOK(r), ~Rejects(u, r)
  PROVE  Accepted(u, r, PopOf(u, r))
<1> DEFINE d == PopOf(u, r)
           c == r.count
<1> SUFFICES Accepted(u, r, d)
  OBVIOUS
<1>1. c \in Nat /\ (c + 1) - 1 = c /\ (c + 1 <= 1 <=> c = 0)
  BY DEF RecordOK
<1>2. CASE u = "kafka"
  BY <1>2, KafkaAccepted DEF PopOf, Rejects
<1>3. CASE u = "pulsar"
  BY <1>3, PulsarAccepted DEF PopOf, Rejects
<1>4. CASE u = "sqs"
  <2>1. d = Delivery(SqsReconcile(r.body, c + 1), Null, c + 1)
    BY <1>4 DEF PopOf, Rejects, SqsPop
  <2>2. SqsReconcile(r.body, c + 1) = IF c = 0 \/ c <= OwnAttempts(r.body) THEN r.body
                                      ELSE WithAttempts(r.body, c)
    BY <1>1 DEF SqsReconcile
  <2> HIDE DEF d
  <2>3. /\ d.body = IF c = 0 \/ c <= OwnAttempts(r.body) THEN r.body ELSE WithAttempts(r.body, c)
        /\ d.route = Null /\ d.deliveries = c + 1
    BY <2>1, <2>2, DeliveryFields
  <2> QED
    BY <1>4, <2>3, FlooredAccepted
<1>5. CASE u = "azure"
  <2>1. d = Delivery(AzureReconcile(r.body, c + 1), Null, 0)
    BY <1>5 DEF PopOf, Rejects, AzurePop
  <2>2. AzureReconcile(r.body, c + 1) = IF c = 0 \/ c <= OwnAttempts(r.body) THEN r.body
                                        ELSE WithAttempts(r.body, c)
    BY <1>1 DEF AzureReconcile
  <2> HIDE DEF d
  <2>3. /\ d.body = IF c = 0 \/ c <= OwnAttempts(r.body) THEN r.body ELSE WithAttempts(r.body, c)
        /\ d.route = Null /\ d.deliveries = 0
    BY <2>1, <2>2, DeliveryFields
  <2> QED
    BY <1>5, <2>3, FlooredAccepted
<1>6. CASE u = "artemis"
  <2>1. d = Delivery(ArtemisReconcile(r.body, c), Null, 0)
    BY <1>6 DEF PopOf, Rejects, ArtemisPop
  <2>2. ArtemisReconcile(r.body, c) = IF c = 0 \/ c <= OwnAttempts(r.body) THEN r.body
                                      ELSE WithAttempts(r.body, c)
    BY DEF ArtemisReconcile
  <2> HIDE DEF d
  <2>3. /\ d.body = IF c = 0 \/ c <= OwnAttempts(r.body) THEN r.body ELSE WithAttempts(r.body, c)
        /\ d.route = Null /\ d.deliveries = 0
    BY <2>1, <2>2, DeliveryFields
  <2> QED
    BY <1>6, <2>3, FlooredAccepted
<1>7. CASE u = "amqp"
  <2>1. d = Delivery(r.body, Null, 0)
    BY <1>7 DEF PopOf, AmqpPop
  <2> HIDE DEF d
  <2>2. d.body = r.body /\ d.route = Null /\ d.deliveries = 0
    BY <2>1, DeliveryFields
  <2>3. Due(u, r) = IF OwnAttempts(r.body) >= -1 THEN OwnAttempts(r.body) ELSE -1
    BY <1>7 DEF Due, Base, Floor
  <2>4. Decodes(r.body) => OwnAttempts(r.body) \in Int /\ Encodable(Env(r.body))
    BY DEF RecordOK
  <2>5. Decodes(r.body) => Max({OwnAttempts(r.body), 0 - 1})
                             = IF OwnAttempts(r.body) >= -1 THEN OwnAttempts(r.body) ELSE -1
    BY <2>4, MaxPair
  <2> QED
    BY <1>7, <2>2, <2>3, <2>4, <2>5 DEF Alike, Accepted
<1> QED
  BY <1>2, <1>3, <1>4, <1>5, <1>6, <1>7 DEF Six

\* The URN under which a handler gets the record.
RouteOf(u, r) ==
  IF u = "pulsar" /\ ~Blank(r.props.job) THEN r.props.job.of ELSE Env(r.body).job

\* What the App makes of a delivery is decided by the record alone.
PoppedAs(u, r, d) ==
  /\ Gated(d)  <=> Rejects(u, r)
  /\ Poison(d) <=> ~Rejects(u, r) /\ ~Decodes(r.body)
  /\ Runs(d)   <=> ~Rejects(u, r) /\ Decodes(r.body)
  /\ Runs(d)   => URN(d) = RouteOf(u, r)
  /\ Decodes(d.body) <=> Decodes(r.body)
  /\ ~Decodes(r.body) => d.body = r.body
  /\ Decodes(r.body) => /\ Encodable(Env(d.body)) /\ Alike(d.body, r.body)
                        /\ OwnAttempts(d.body) \in Int
  /\ d.deliveries \in Nat
  /\ d.route.is \in {"null", "string", "gate"}
  /\ Gated(d) => d.body = r.body /\ d.route.of[1] = r.props.version
  /\ Gated(d) /\ u = "pulsar" => d.route.of[2] = r.props.job
  /\ d.route.is = "string" => u = "pulsar" /\ d.route = r.props.job /\ ~Blank(r.props.job) /\ Decodes(r.body)
  /\ u = "pulsar" /\ ~Gated(d) /\ d.route.is # "string" /\ Decodes(r.body) => Blank(r.props.job)
  /\ Runs(d) => Max({OwnAttempts(d.body), d.deliveries - 1}) = Due(u, r)

\* What Pop and then Consume make of a record: gated, poison or a run under its one URN, with
\* the reconciled counter.
LEMMA Popped ==
  ASSUME NEW u \in Six, NEW r, RecordOK(r), NEW d, d = PopOf(u, r)
  PROVE  PoppedAs(u, r, d)
<1>1. r.props.job = Null \/ r.props.job.is = "string"
  BY DEF RecordOK, PropsOK
<1>2. Decodes(r.body) => Encodable(Env(r.body)) /\ OwnAttempts(r.body) \in Int
  BY DEF RecordOK
<1>3. CASE Rejects(u, r)
  <2>1. /\ d.body = r.body
        /\ d.route.is = "gate"
        /\ d.route.of[1] = r.props.version
        /\ u = "pulsar" => d.route.of[2] = r.props.job
        /\ d.deliveries \in Nat
    BY <1>3, PopGated
  <2> QED
    BY <1>2, <1>3, <2>1 DEF Gated, Poison, Runs, Decodes, PoppedAs, Alike
<1>4. CASE ~Rejects(u, r)
  <2>1. Accepted(u, r, d)
    BY <1>4, PopAccepted
  <2>2. d.route = Null \/ (d.route = r.props.job /\ u = "pulsar" /\ ~Blank(r.props.job) /\ Decodes(r.body))
    BY <2>1 DEF Accepted
  <2>3. ~Blank(r.props.job) => r.props.job.is = "string"
    BY <1>1 DEF Blank
  <2>4. d.route.is \in {"null", "string"} /\ (d.route.is = "string" => d.route = r.props.job)
    BY <2>2, <2>3, NullTag
  <2>5. Decodes(d.body) <=> Decodes(r.body)
    BY <2>1 DEF Accepted
  <2>6. Decodes(r.body) => /\ Encodable(Env(d.body)) /\ Alike(d.body, r.body)
                           /\ Env(d.body).job = Env(r.body).job
    BY <2>1, <1>2, CoreFields DEF Accepted, Alike
  <2>7. Decodes(r.body) => URN(d) = RouteOf(u, r)
    BY <2>1, <2>2, <2>3, <2>6, NullTag DEF URN, RouteOf, Accepted, Env
  <2>8. d.route.is = "string" => u = "pulsar" /\ d.route = r.props.job /\ ~Blank(r.props.job) /\ Decodes(r.body)
    BY <2>2, NullTag
  <2>9. u = "pulsar" /\ d.route.is # "string" /\ Decodes(r.body) => Blank(r.props.job)
    BY <2>1, <2>3 DEF Accepted
  <2> QED
    BY <1>4, <2>1, <2>4, <2>5, <2>6, <2>7, <2>8, <2>9 DEF Gated, Poison, Runs, Decodes, Accepted, PoppedAs
<1> QED
  BY <1>3, <1>4

-----------------------------------------------------------------------------
(* One hop: what a publish writes beside the body.                          *)

\* The properties that the transport u derives from an envelope.
Projects(u, p, env) ==
  /\ PropsOK(p)
  /\ u \in {"kafka", "pulsar"} => p.job = Str(env.job) /\ p.attempts = Txt(env.attempts)
  /\ u \in {"kafka", "pulsar", "sqs"} => p.version = IF env.version = 0 THEN Null ELSE Txt(env.version)
  /\ u = "azure" => p.version = IF env.version = 0 THEN Null ELSE Num(env.version)
  /\ u = "artemis" => p.version = Txt(env.version)

\* Out-of-band headers as callers may add them.
HeadersOK(extra) == PropsOK(extra) /\ extra.job = Null /\ extra.attempts = Null

\* A number written as text.
LEMMA TxtTag == ASSUME NEW n PROVE Txt(n).is = "text" /\ Txt(n).of = n
BY DEF Txt

\* The empty properties.
LEMMA NoPropsFields ==
  /\ NoProps = [k \in PropertyNames |-> NoProps[k]]
  /\ \A k \in PropertyNames : NoProps[k] = Null
  /\ PropertyNames = {"job", "version", "attempts", "replay"}
BY DEF NoProps, PropertyNames

\* Properties of the allowed kinds.
LEMMA MadeProps ==
  ASSUME NEW p, p = [k \in PropertyNames |-> p[k]],
         p.job = Null \/ p.job.is = "string",
         p.version.is \in {"null", "string", "text", "number", "array"},
         p.replay.is \in {"null", "string", "text", "number", "array"},
         p.attempts.is \in {"null", "number"} \/ (p.attempts.is = "text" /\ p.attempts.of \in Int)
  PROVE  PropsOK(p)
<1>1. p.job.is \in {"null", "string", "text", "number", "array"}
  BY NullTag
<1>2. p.attempts.is \in {"null", "string", "text", "number", "array"}
  OBVIOUS
<1>3. \A k \in PropertyNames : p[k].is \in {"null", "string", "text", "number", "array"}
  BY <1>1, <1>2, NoPropsFields
<1> QED
  BY <1>3 DEF PropsOK

\* Merging out-of-band headers adds the replay marker and leaves the projected route and
\* counter alone, and the version unless the body has none.
LEMMA Merged ==
  ASSUME NEW names, NEW p, PropsOK(p), NEW extra, HeadersOK(extra), p.replay = Null, "replay" \notin names
  PROVE  LET q == Overlay(names, p, extra)
         IN  /\ PropsOK(q)
             /\ q.replay = extra.replay
             /\ q.job = p.job /\ q.attempts = p.attempts
             /\ p.version # Null \/ extra.version = Null \/ "version" \in names => q.version = p.version
<1> DEFINE q == Overlay(names, p, extra)
<1>1. PropertyNames = {"job", "version", "attempts", "replay"}
  BY NoPropsFields
<1>2. /\ q = [k \in PropertyNames |-> q[k]]
      /\ \A k \in PropertyNames : q[k] = IF k \in names \/ p[k] # Null THEN p[k] ELSE extra[k]
  BY DEF Overlay
<1> HIDE DEF q
<1>3. q.job = p.job /\ q.attempts = p.attempts
  BY <1>1, <1>2 DEF HeadersOK
<1>4. \A k \in PropertyNames : q[k].is \in {"null", "string", "text", "number", "array"}
  BY <1>2 DEF PropsOK, HeadersOK
<1>5. q.replay = extra.replay
  BY <1>1, <1>2
<1>6. p.version # Null \/ extra.version = Null \/ "version" \in names => q.version = p.version
  BY <1>1, <1>2
<1>7. PropsOK(q)
  BY <1>2, <1>3, <1>4 DEF PropsOK
<1> QED
  BY <1>3, <1>5, <1>6, <1>7 DEF q

\* The projected version is absent, text or a number.
LEMMA VersionTag ==
  ASSUME NEW v, NEW n,
         \/ v = IF n = 0 THEN Null ELSE Txt(n)
         \/ v = IF n = 0 THEN Null ELSE Num(n)
         \/ v = Txt(n)
  PROVE  v.is \in {"null", "text", "number"}
<1>1. CASE v = Null
  BY <1>1, NullTag
<1>2. CASE v = Txt(n)
  BY <1>2, TxtTag
<1>3. CASE v = Num(n)
  BY <1>3, NumTag
<1> QED
  BY <1>1, <1>2, <1>3

\* PublishWithHeaders projects the route, the version and the counter of the body, whatever
\* headers the caller adds.
LEMMA FreshProps ==
  ASSUME t \in Six, NEW body, Decodes(body), OwnAttempts(body) \in Int, NEW extra, HeadersOK(extra),
         Env(body).version # 0 \/ extra.version = Null
  PROVE  LET p == PublishWithHeaders(body, extra)
         IN  Projects(t, p, Env(body)) /\ p.replay = extra.replay
<1> DEFINE p == PublishWithHeaders(body, extra)
           env == Env(body)
<1> SUFFICES Projects(t, p, env) /\ p.replay = extra.replay
  OBVIOUS
<1>1. \A props : Projected(body, props) = props
  BY DEF Projected, Decodes
<1>2. env.attempts \in Int
  BY DEF OwnAttempts, env
<1>3. PropertyNames = {"job", "version", "attempts", "replay"}
  BY NoPropsFields
<1> HIDE DEF p, env
<1>0. env.version # 0 \/ extra.version = Null
  BY DEF env
<1>4. CASE t = "kafka"
  <2> DEFINE q == KafkaHeaders(env)
  <2>1. /\ q = [k \in PropertyNames |-> q[k]]
        /\ q.job = Str(env.job) /\ q.attempts = Txt(env.attempts) /\ q.replay = Null
        /\ q.version = IF env.version = 0 THEN Null ELSE Txt(env.version)
    BY <1>3 DEF KafkaHeaders
  <2> HIDE DEF q
  <2>2. PropsOK(q)
    <3>1. q.job = Null \/ q.job.is = "string"
      BY <2>1, StrTag
    <3>2. q.version.is \in {"null", "text", "number"}
      BY <2>1, VersionTag
    <3>3. q.replay.is = "null"
      BY <2>1, NullTag
    <3>4. q.attempts.is \in {"null", "number"} \/ (q.attempts.is = "text" /\ q.attempts.of \in Int)
      BY <2>1, <1>2, TxtTag, NullTag
    <3> QED
      BY <2>1, <3>1, <3>2, <3>3, <3>4, MadeProps
  <2>3. p = Overlay(ContractHeaders, q, extra)
    BY <1>1, <1>4 DEF PublishWithHeaders, AppendOutOfBand, q, p, env
  <2>4. "replay" \notin ContractHeaders /\ "version" \in ContractHeaders
    BY DEF ContractHeaders
  <2> QED
    BY <1>4, <2>1, <2>2, <2>3, <2>4, Merged DEF Projects
<1>5. CASE t = "pulsar"
  <2> DEFINE q == PulsarMessage(body, Null)
  <2>0. q = PulsarProperties(env)
    BY <1>1, NullTag DEF PulsarMessage, env
  <2>1. /\ q = [k \in PropertyNames |-> q[k]]
        /\ q.job = Str(env.job) /\ q.attempts = Txt(env.attempts) /\ q.replay = Null
        /\ q.version = IF env.version = 0 THEN Null ELSE Txt(env.version)
    BY <2>0, <1>3 DEF PulsarProperties
  <2> HIDE DEF q
  <2>2. PropsOK(q)
    <3>1. q.job = Null \/ q.job.is = "string"
      BY <2>1, StrTag
    <3>2. q.version.is \in {"null", "text", "number"}
      BY <2>1, VersionTag
    <3>3. q.replay.is = "null"
      BY <2>1, NullTag
    <3>4. q.attempts.is \in {"null", "number"} \/ (q.attempts.is = "text" /\ q.attempts.of \in Int)
      BY <2>1, <1>2, TxtTag, NullTag
    <3> QED
      BY <2>1, <3>1, <3>2, <3>3, <3>4, MadeProps
  <2>3. p = Overlay(PulsarContract, q, extra)
    BY <1>1, <1>5 DEF PublishWithHeaders, PulsarMerge, q, p, env
  <2>4. "replay" \notin PulsarContract /\ "version" \in PulsarContract
    BY DEF PulsarContract
  <2> QED
    BY <1>5, <2>1, <2>2, <2>3, <2>4, Merged DEF Projects
<1>6. CASE t = "sqs"
  <2> DEFINE q == SqsAttributes(env)
  <2>1. /\ q = [k \in PropertyNames |-> q[k]]
        /\ q.job = Str(env.job) /\ q.attempts = Null /\ q.replay = Null
        /\ q.version = IF env.version = 0 THEN Null ELSE Txt(env.version)
    BY <1>3 DEF SqsAttributes, NoProps
  <2> HIDE DEF q
  <2>2. PropsOK(q)
    <3>1. q.job = Null \/ q.job.is = "string"
      BY <2>1, StrTag
    <3>2. q.version.is \in {"null", "text", "number"}
      BY <2>1, VersionTag
    <3>3. q.replay.is = "null"
      BY <2>1, NullTag
    <3>4. q.attempts.is \in {"null", "number"} \/ (q.attempts.is = "text" /\ q.attempts.of \in Int)
      BY <2>1, <1>2, TxtTag, NullTag
    <3> QED
      BY <2>1, <3>1, <3>2, <3>3, <3>4, MadeProps
  <2>3. p = Overlay({}, q, extra)
    BY <1>1, <1>6 DEF PublishWithHeaders, SqsMerge, q, p, env
  <2>4. q.version # Null \/ extra.version = Null
    BY <1>0, <2>1, TxtTag, NullTag
  <2> QED
    BY <1>6, <2>1, <2>2, <2>3, <2>4, Merged DEF Projects
<1>7. CASE t = "azure"
  <2> DEFINE q == AzureProperties(env)
  <2>1. /\ q = [k \in PropertyNames |-> q[k]]
        /\ q.job = Null /\ q.attempts = Null /\ q.replay = Null
        /\ q.version = IF env.version = 0 THEN Null ELSE Num(env.version)
    BY <1>3 DEF AzureProperties, NoProps
  <2> HIDE DEF q
  <2>2. PropsOK(q)
    <3>1. q.job = Null \/ q.job.is = "string"
      BY <2>1, StrTag
    <3>2. q.version.is \in {"null", "text", "number"}
      BY <2>1, VersionTag
    <3>3. q.replay.is = "null"
      BY <2>1, NullTag
    <3>4. q.attempts.is \in {"null", "number"} \/ (q.attempts.is = "text" /\ q.attempts.of \in Int)
      BY <2>1, <1>2, TxtTag, NullTag
    <3> QED
      BY <2>1, <3>1, <3>2, <3>3, <3>4, MadeProps
  <2>3. p = Overlay(AzureContract, q, extra)
    BY <1>1, <1>7 DEF PublishWithHeaders, AzureMerge, q, p, env
  <2>4. "replay" \notin AzureContract /\ "version" \in AzureContract
    BY DEF AzureContract
  <2> QED
    BY <1>7, <2>1, <2>2, <2>3, <2>4, Merged DEF Projects
<1>8. CASE t = "artemis"
  <2> DEFINE q == ArtemisProperties(env)
  <2>1. /\ q = [k \in PropertyNames |-> q[k]]
        /\ q.job = Null /\ q.attempts = Txt(env.attempts) /\ q.replay = Null
        /\ q.version = Txt(env.version)
    BY <1>3 DEF ArtemisProperties, NoProps
  <2> HIDE DEF q
  <2>2. PropsOK(q)
    <3>1. q.job = Null \/ q.job.is = "string"
      BY <2>1, StrTag
    <3>2. q.version.is \in {"null", "text", "number"}
      BY <2>1, VersionTag
    <3>3. q.replay.is = "null"
      BY <2>1, NullTag
    <3>4. q.attempts.is \in {"null", "number"} \/ (q.attempts.is = "text" /\ q.attempts.of \in Int)
      BY <2>1, <1>2, TxtTag, NullTag
    <3> QED
      BY <2>1, <3>1, <3>2, <3>3, <3>4, MadeProps
  <2>3. p = Overlay(ArtemisContract, q, extra)
    BY <1>1, <1>8 DEF PublishWithHeaders, ArtemisMerge, q, p, env
  <2>4. "replay" \notin ArtemisContract /\ "version" \in ArtemisContract
    BY DEF ArtemisContract
  <2> QED
    BY <1>8, <2>1, <2>2, <2>3, <2>4, Merged DEF Projects
<1>9. CASE t = "amqp"
  <2> DEFINE q == AmqpHeaders(env)
  <2>1. /\ q = [k \in PropertyNames |-> q[k]]
        /\ q.job = Null /\ q.attempts = Num(env.attempts) /\ q.replay = Null
        /\ q.version = IF env.version = 0 THEN Null ELSE Num(env.version)
    BY <1>3 DEF AmqpHeaders, NoProps
  <2> HIDE DEF q
  <2>2. p = [k \in PropertyNames |-> IF q[k] = Null THEN extra[k] ELSE q[k]]
    BY <1>1, <1>9 DEF PublishWithHeaders, AmqpPublishing, q, p, env
  <2>3. /\ p = [k \in PropertyNames |-> p[k]]
        /\ \A k \in PropertyNames : p[k] = IF q[k] = Null THEN extra[k] ELSE q[k]
    BY <2>2
  <2>4. p.replay = extra.replay /\ p.job = Null /\ p.attempts = Num(env.attempts)
    BY <2>1, <2>3, <1>3, NumTag, NullTag DEF HeadersOK
  <2>5. \A k \in PropertyNames : extra[k].is \in {"null", "string", "text", "number", "array"}
    BY DEF HeadersOK, PropsOK
  <2>6. p.version.is \in {"null", "string", "text", "number", "array"}
    <3>1. q.version.is \in {"null", "number"}
      BY <2>1, NumTag, NullTag
    <3>2. p.version = q.version \/ p.version = extra.version
      BY <2>3, <1>3
    <3> QED
      BY <2>5, <3>1, <3>2, <1>3
  <2>7. p.replay.is \in {"null", "string", "text", "number", "array"}
    BY <2>4, <2>5, <1>3
  <2>8. p.attempts.is = "number"
    BY <2>4, NumTag
  <2>9. PropsOK(p)
    BY <2>3, <2>4, <2>6, <2>7, <2>8, MadeProps
  <2> QED
    BY <1>9, <2>4, <2>9 DEF Projects
<1> QED
  BY <1>4, <1>5, <1>6, <1>7, <1>8, <1>9 DEF Six

\* Pulsar: the projection under the route of the delivery.
LEMMA RoutedProps ==
  ASSUME NEW body, NEW route
  PROVE  LET p == PulsarMessage(body, route)
             base == IF Decodes(body) THEN PulsarProperties(Env(body)) ELSE NoProps
         IN  /\ p = [k \in PropertyNames |-> p[k]]
             /\ p.replay = Null /\ p.attempts = base.attempts
             /\ p.version = IF route.is = "gate" THEN route.of[1] ELSE base.version
             /\ route.is = "gate" => p.job = IF route.of[2] = Null THEN base.job ELSE route.of[2]
             /\ route.is = "string" => p.job = IF Decodes(body) THEN route ELSE Null
             /\ route.is \notin {"gate", "string"} => p.job = base.job
<1> DEFINE p == PulsarMessage(body, route)
           base == IF Decodes(body) THEN PulsarProperties(Env(body)) ELSE NoProps
<1>1. Projected(body, PulsarProperties(Env(body))) = base
  BY DEF Projected, Decodes
<1>2. /\ base = [k \in PropertyNames |-> base[k]]
      /\ base.replay = Null
      /\ Decodes(body) => base # NoProps
      /\ ~Decodes(body) => base = NoProps /\ base.job = Null
  <2>1. CASE Decodes(body)
    <3>1. base = PulsarProperties(Env(body))
      BY <2>1
    <3>2. base = [k \in PropertyNames |-> base[k]] /\ base.replay = Null /\ base.job = Str(Env(body).job)
      BY <3>1, NoPropsFields DEF PulsarProperties
    <3>3. base.job # NoProps.job
      <4>1. NoProps.job = Null
        BY NoPropsFields
      <4>2. Str(Env(body).job).is = "string"
        BY StrTag
      <4> HIDE DEF base
      <4> QED
        BY <3>2, <4>1, <4>2, NullTag
    <3> QED
      BY <2>1, <3>2, <3>3
  <2>2. CASE ~Decodes(body)
    <3>1. base = NoProps
      BY <2>2
    <3> QED
      BY <2>2, <3>1, NoPropsFields
  <2> QED
    BY <2>1, <2>2
<1> HIDE DEF base
<1>3. CASE route.is = "gate"
  <2>1. p = [base EXCEPT !.version = route.of[1],
                         !.job     = IF route.of[2] = Null THEN @ ELSE route.of[2]]
    BY <1>1, <1>3 DEF PulsarMessage
  <2> HIDE DEF p
  <2> QED
    BY <1>2, <1>3, <2>1, NoPropsFields DEF p, base
<1>4. CASE route.is = "string" /\ Decodes(body)
  <2>1. p = [base EXCEPT !.job = route]
    BY <1>1, <1>2, <1>4 DEF PulsarMessage
  <2> HIDE DEF p
  <2> QED
    BY <1>2, <1>4, <2>1, NoPropsFields DEF p, base
<1>5. CASE route.is # "gate" /\ (route.is # "string" \/ ~Decodes(body))
  <2>1. p = base
    BY <1>1, <1>2, <1>5 DEF PulsarMessage
  <2> HIDE DEF p
  <2> QED
    BY <1>2, <1>5, <2>1, NoPropsFields DEF p, base
<1> QED
  BY <1>3, <1>4, <1>5

\* Which projected versions the gates reject.
LEMMA VersionRejected ==
  ASSUME NEW v, NEW n
  PROVE  /\ v = Txt(n) => /\ ~Blank(v)
                          /\ v # Txt(SchemaVersion) <=> n # 1
                          /\ v # Num(SchemaVersion)
         /\ v = Num(n) => /\ ~Blank(v)
                          /\ v # Num(SchemaVersion) <=> n # 1
                          /\ v # Txt(SchemaVersion)
         /\ v = Null => Blank(v)
<1>1. SchemaVersion = 1
  BY DEF SchemaVersion
<1>2. \A x, y : (Txt(x) = Txt(y) <=> x = y) /\ (Num(x) = Num(y) <=> x = y) /\ Txt(x) # Num(y)
  <2> TAKE x, y
  <2> QED
    BY TxtTag, NumTag
<1>3. v = Txt(n) => ~Blank(v)
  BY TxtTag, NullTag DEF Blank
<1>4. v = Num(n) => ~Blank(v)
  BY NumTag, NullTag DEF Blank
<1> QED
  BY <1>1, <1>2, <1>3, <1>4 DEF Blank

\* The gate looks at the projected version.
LEMMA ProjectedGate ==
  ASSUME NEW u \in Six, NEW r, NEW n,
         u \in {"kafka", "pulsar", "sqs"} => r.props.version = IF n = 0 THEN Null ELSE Txt(n),
         u = "azure" => r.props.version = IF n = 0 THEN Null ELSE Num(n),
         u = "artemis" => r.props.version = Txt(n)
  PROVE  /\ n \notin {0, 1} /\ u # "amqp" => Rejects(u, r)
         /\ n = 1 => ~Rejects(u, r)
<1>1. CASE u \in {"kafka", "pulsar", "sqs", "artemis"}
  <2>1. n # 0 => r.props.version = Txt(n)
    BY <1>1
  <2>2. n # 0 => ~Blank(r.props.version) /\ (r.props.version # Txt(SchemaVersion) <=> n # 1)
    BY <2>1, VersionRejected
  <2>3. Rejects(u, r) <=> ~Blank(r.props.version) /\ r.props.version # Txt(SchemaVersion)
    BY <1>1 DEF Rejects, KafkaRejects, PulsarRejects, SqsRejects, ArtemisRejects
  <2> QED
    BY <2>2, <2>3
<1>2. CASE u = "azure"
  <2>1. n # 0 => r.props.version = Num(n)
    BY <1>2
  <2>2. n # 0 => /\ ~Blank(r.props.version) /\ (r.props.version # Num(SchemaVersion) <=> n # 1)
                 /\ r.props.version # Txt(SchemaVersion)
    BY <2>1, VersionRejected
  <2> QED
    BY <1>2, <2>2 DEF Rejects, AzureRejects
<1>3. CASE u = "amqp"
  BY <1>3 DEF Rejects
<1> QED
  BY <1>1, <1>2, <1>3 DEF Six

\* What a record written from scratch has in common with the one it replaces.
Fresh(u, old, r, body, bypass) ==
  /\ r.body = body
  /\ Decodes(body) =>
       /\ r.props.replay = IF bypass THEN Str("1") ELSE Null
       /\ RouteOf(u, r) = RouteOf(u, old)
       /\ Env(body).version \notin {0, 1} /\ u # "amqp" => Rejects(u, r)
       /\ Env(body).version = 1 /\ ~(u = "pulsar" /\ Rejects(u, old)) => ~Rejects(u, r)
       /\ OwnAttempts(body) >= 0 => Due(u, r) = OwnAttempts(body)
  /\ u = "pulsar" /\ Rejects(u, old) => Rejects(u, r)

\* The fields of a record.
LEMMA RecordFields ==
  ASSUME NEW at, NEW body, NEW props, NEW key, NEW r, r = Record(at, body, props, key)
  PROVE  /\ r.at = at /\ r.body = body /\ r.props = props /\ r.key = key /\ r.count = 0
         /\ r = [at |-> r.at, body |-> r.body, props |-> r.props, key |-> r.key, count |-> r.count]
BY DEF Record

\* The headers that Republish and a bypass redrive add.
LEMMA ExtraOK ==
  /\ HeadersOK(NoProps) /\ NoProps.replay = Null /\ NoProps.version = Null
  /\ HeadersOK(ReplayBypass) /\ ReplayBypass.replay = Str("1") /\ ReplayBypass.version = Null
<1>1. /\ NoProps = [k \in PropertyNames |-> NoProps[k]]
      /\ NoProps.job = Null /\ NoProps.attempts = Null /\ NoProps.replay = Null /\ NoProps.version = Null
  BY NoPropsFields
<1>2. PropsOK(NoProps)
  BY <1>1, NullTag, MadeProps
<1>3. /\ ReplayBypass = [k \in PropertyNames |-> ReplayBypass[k]]
      /\ ReplayBypass.job = Null /\ ReplayBypass.attempts = Null
      /\ ReplayBypass.replay = Str("1") /\ ReplayBypass.version = Null
  BY <1>1, NoPropsFields DEF ReplayBypass
<1>4. PropsOK(ReplayBypass)
  BY <1>3, NullTag, StrTag, MadeProps
<1> QED
  BY <1>1, <1>2, <1>3, <1>4 DEF HeadersOK

\* A body that does not decode has no projection.
LEMMA BareProps ==
  ASSUME t \in Six, NEW body, ~Decodes(body)
  PROVE  PropsOK(PublishWithHeaders(body, NoProps))
<1>1. \A props : Projected(body, props) = NoProps
  BY DEF Projected, Decodes
<1>2. PulsarMessage(body, Null) = NoProps
  BY <1>1, NullTag DEF PulsarMessage
<1>3. \A names : Overlay(names, NoProps, NoProps) = NoProps
  BY NoPropsFields DEF Overlay
<1>4. [k \in PropertyNames |-> IF NoProps[k] = Null THEN NoProps[k] ELSE NoProps[k]] = NoProps
  BY NoPropsFields
<1>5. PublishWithHeaders(body, NoProps) = NoProps
  BY <1>1, <1>2, <1>3, <1>4
     DEF Six, PublishWithHeaders, AppendOutOfBand, PulsarMerge, SqsMerge, AzureMerge, ArtemisMerge, AmqpPublishing
<1> QED
  BY <1>5, ExtraOK DEF HeadersOK

\* A new copy starts at the counter of its body.
LEMMA FreshDue ==
  ASSUME NEW u \in Six, NEW r, r.count = 0, OwnAttempts(r.body) \in Nat,
         u \in {"kafka", "pulsar"} => r.props.attempts = Txt(OwnAttempts(r.body))
  PROVE  Due(u, r) = OwnAttempts(r.body)
<1>1. Base(u, r) = OwnAttempts(r.body)
  BY TxtTag DEF Base
<1>2. Floor(u, r) \in {-1, 0}
  BY DEF Floor, Six
<1> QED
  BY <1>1, <1>2 DEF Due

\* Every transport but Pulsar projects the body anew.
LEMMA ProjectedRecord ==
  ASSUME t \in Six, t # "pulsar", NEW queue, NEW body, NEW key, NEW bypass \in BOOLEAN, NEW old, NEW r,
         r = Record(queue, body, PublishWithHeaders(body, IF bypass THEN ReplayBypass ELSE NoProps), key),
         Decodes(body) => Encodable(Env(body)) /\ OwnAttempts(body) \in Int /\ Env(body).job = Env(old.body).job,
         Decodes(body) \/ ~bypass
  PROVE  RecordOK(r) /\ Fresh(t, old, r, body, bypass)
<1> DEFINE extra == IF bypass THEN ReplayBypass ELSE NoProps
<1>1. HeadersOK(extra) /\ extra.version = Null /\ extra.replay = IF bypass THEN Str("1") ELSE Null
  BY ExtraOK
<1> HIDE DEF extra
<1>2. r.body = body /\ r.count = 0 /\ r.props = PublishWithHeaders(body, extra)
  BY RecordFields DEF extra
<1>3. CASE Decodes(body)
  <2>1. Projects(t, r.props, Env(body)) /\ r.props.replay = extra.replay
    BY <1>1, <1>2, <1>3, FreshProps
  <2>2. RouteOf(t, r) = RouteOf(t, old)
    BY <1>2, <1>3 DEF RouteOf
  <2>3. /\ Env(body).version \notin {0, 1} /\ t # "amqp" => Rejects(t, r)
        /\ Env(body).version = 1 => ~Rejects(t, r)
    BY <2>1, ProjectedGate DEF Projects
  <2>4. OwnAttempts(body) >= 0 => Due(t, r) = OwnAttempts(body)
    BY <1>2, <1>3, <2>1, FreshDue DEF Projects, OwnAttempts
  <2>5. RecordOK(r)
    BY <1>2, <1>3, <2>1 DEF RecordOK, Projects
  <2> QED
    BY <1>1, <1>2, <2>1, <2>2, <2>3, <2>4, <2>5 DEF Fresh
<1>4. CASE ~Decodes(body)
  <2>1. extra = NoProps
    BY <1>4 DEF extra
  <2>2. PropsOK(r.props)
    BY <1>2, <1>4, <2>1, BareProps
  <2> QED
    BY <1>2, <1>4, <2>2 DEF RecordOK, Fresh
<1> QED
  BY <1>3, <1>4

\* Pulsar keeps the gate and the route of the delivery.
LEMMA PulsarRecord ==
  ASSUME NEW old, RecordOK(old), NEW d, PoppedAs("pulsar", old, d),
         NEW queue, NEW body, NEW key, NEW bypass \in BOOLEAN, NEW p, p = PulsarMessage(body, d.route),
         NEW r, r = Record(queue, body, IF bypass THEN PulsarMerge(p, ReplayBypass) ELSE p, key),
         Decodes(body) => /\ Encodable(Env(body)) /\ OwnAttempts(body) \in Int
                          /\ Env(body).job = Env(old.body).job,
         Decodes(body) <=> Decodes(old.body)
  PROVE  RecordOK(r) /\ Fresh("pulsar", old, r, body, bypass)
<1> DEFINE env == Env(body)
           j == old.props.job
           base == IF Decodes(body) THEN PulsarProperties(env) ELSE NoProps
<1>1. /\ p = [k \in PropertyNames |-> p[k]]
      /\ p.replay = Null /\ p.attempts = base.attempts
      /\ p.version = IF d.route.is = "gate" THEN d.route.of[1] ELSE base.version
      /\ d.route.is = "gate" => p.job = IF d.route.of[2] = Null THEN base.job ELSE d.route.of[2]
      /\ d.route.is = "string" => p.job = IF Decodes(body) THEN d.route ELSE Null
      /\ d.route.is \notin {"gate", "string"} => p.job = base.job
  BY RoutedProps
<1>2. /\ Gated(d) <=> Rejects("pulsar", old)
      /\ Gated(d) => d.route.of[1] = old.props.version
      /\ Gated(d) => d.route.of[2] = j
      /\ d.route.is = "string" => d.route = j /\ ~Blank(j) /\ Decodes(old.body)
      /\ ~Gated(d) /\ d.route.is # "string" /\ Decodes(old.body) => Blank(j)
  BY DEF PoppedAs
<1>3. /\ j = Null \/ j.is = "string"
      /\ old.props.version.is \in {"null", "string", "text", "number", "array"}
  BY NoPropsFields DEF RecordOK, PropsOK
<1>4. /\ Decodes(body) => /\ base.job = Str(env.job) /\ base.attempts = Txt(env.attempts)
                          /\ base.version = IF env.version = 0 THEN Null ELSE Txt(env.version)
      /\ ~Decodes(body) => base.job = Null /\ base.attempts = Null /\ base.version = Null
  BY NoPropsFields DEF PulsarProperties
<1> HIDE DEF base, env, j
<1>5. Gated(d) => p.version = old.props.version /\ p.job = IF j = Null THEN base.job ELSE j
  BY <1>1, <1>2 DEF Gated
<1>6. ~Gated(d) => p.version = base.version
  BY <1>1 DEF Gated
<1>7. base.job = Null \/ base.job.is = "string"
  BY <1>4, StrTag
<1>8. p.job = Null \/ p.job.is = "string"
  BY <1>1, <1>2, <1>3, <1>5, <1>7 DEF Gated
<1>9. base.version.is \in {"null", "text", "number"}
  BY <1>4, VersionTag, NullTag
<1>10. p.version.is \in {"null", "string", "text", "number", "array"}
  BY <1>3, <1>5, <1>6, <1>9
<1>11. p.attempts.is \in {"null", "number"} \/ (p.attempts.is = "text" /\ p.attempts.of \in Int)
  <2>1. CASE Decodes(body)
    <3>1. p.attempts = Txt(env.attempts) /\ env.attempts \in Int
      BY <1>1, <1>4, <2>1 DEF OwnAttempts, env
    <3> QED
      BY <3>1, TxtTag
  <2>2. CASE ~Decodes(body)
    BY <1>1, <1>4, <2>2, NullTag
  <2> QED
    BY <2>1, <2>2
<1>12. PropsOK(p)
  <2>1. p.replay.is \in {"null", "string", "text", "number", "array"}
    BY <1>1, NullTag
  <2> QED
    BY <1>1, <1>8, <1>10, <1>11, <2>1, MadeProps
<1> DEFINE q == IF bypass THEN PulsarMerge(p, ReplayBypass) ELSE p
<1>13. /\ PropsOK(q) /\ q.replay = IF bypass THEN Str("1") ELSE Null
       /\ q.job = p.job /\ q.attempts = p.attempts /\ q.version = p.version
  <2>1. "replay" \notin PulsarContract
    BY DEF PulsarContract
  <2>2. bypass => /\ PropsOK(q) /\ q.replay = ReplayBypass.replay
                  /\ q.job = p.job /\ q.attempts = p.attempts /\ q.version = p.version
    BY <1>1, <1>12, <2>1, ExtraOK, Merged DEF PulsarMerge
  <2> QED
    BY <1>1, <1>12, <2>2, ExtraOK
<1>14. r.body = body /\ r.count = 0 /\ r.props = q
  BY RecordFields
<1> HIDE DEF q
<1>15. Rejects("pulsar", old) => Rejects("pulsar", r)
  BY <1>2, <1>5, <1>13, <1>14 DEF Rejects
<1>16. RecordOK(r)
  BY <1>13, <1>14 DEF RecordOK
<1>17. ASSUME Decodes(body)
       PROVE  /\ RouteOf("pulsar", r) = RouteOf("pulsar", old)
              /\ env.version \notin {0, 1} => Rejects("pulsar", r)
              /\ env.version = 1 /\ ~Rejects("pulsar", old) => ~Rejects("pulsar", r)
              /\ OwnAttempts(body) >= 0 => Due("pulsar", r) = OwnAttempts(body)
  <2>1. env.job = Env(old.body).job /\ Env(r.body).job = env.job /\ Decodes(old.body)
    BY <1>14, <1>17 DEF env
  <2>2. Blank(j) \/ j.is = "string"
    BY <1>3 DEF Blank
  <2>3. RouteOf("pulsar", old) = IF ~Blank(j) THEN j.of ELSE env.job
    BY <2>1 DEF RouteOf, j
  <2>4. RouteOf("pulsar", r) = IF ~Blank(p.job) THEN p.job.of ELSE env.job
    BY <2>1, <1>13, <1>14 DEF RouteOf
  <2>5. p.job = j \/ (Blank(j) /\ p.job = Str(env.job))
    <3>1. Blank(Null)
      BY DEF Blank
    <3> QED
      BY <1>1, <1>2, <1>4, <1>5, <1>17, <3>1 DEF Gated
  <2>6. RouteOf("pulsar", r) = RouteOf("pulsar", old)
    BY <2>3, <2>4, <2>5, StrTag
  <2>7. /\ ~Gated(d) /\ env.version \notin {0, 1} => Rejects("pulsar", r)
        /\ ~Gated(d) /\ env.version = 1 => ~Rejects("pulsar", r)
    <3>1. ~Gated(d) => r.props.version = IF env.version = 0 THEN Null ELSE Txt(env.version)
      BY <1>4, <1>6, <1>13, <1>14, <1>17
    <3> QED
      BY <3>1, ProjectedGate DEF Six
  <2>8. OwnAttempts(body) >= 0 => Due("pulsar", r) = OwnAttempts(body)
    <3>1. r.props.attempts = Txt(OwnAttempts(r.body)) /\ OwnAttempts(r.body) = OwnAttempts(body)
      BY <1>1, <1>4, <1>13, <1>14, <1>17 DEF OwnAttempts, env
    <3>2. OwnAttempts(body) \in Int
      BY <1>17
    <3> QED
      BY <1>14, <3>1, <3>2, FreshDue DEF Six
  <2> QED
    BY <1>2, <1>15, <2>6, <2>7, <2>8
<1> QED
  BY <1>13, <1>14, <1>15, <1>16, <1>17 DEF Fresh, env

\* A write either restores the Kafka record as it was or writes a fresh one.
WrittenAs(u, old, d, queue, body, bypass, r) ==
  /\ r = [at |-> r.at, body |-> r.body, props |-> r.props, key |-> r.key, count |-> r.count]
  /\ r.at = queue /\ r.key = old.key /\ r.count = 0
  /\ RecordOK(r)
  /\ \/ Fresh(u, old, r, body, bypass)
     \/ /\ u = "kafka" /\ queue = old.at /\ body = d.body
        /\ r.body = old.body /\ r.props = old.props

\* Every write that follows a delivery, by Republish or PublishRedriven, keeps the key and
\* the route, projects the counter anew, and never loses the version that was gated.
LEMMA Written ==
  ASSUME t \in Six, RecordOK(msg), NEW d, PoppedAs(t, msg, d),
         NEW queue, NEW body, NEW bypass \in BOOLEAN,
         Decodes(body) => /\ Encodable(Env(body)) /\ OwnAttempts(body) \in Int
                          /\ Env(body).job = Env(msg.body).job,
         Decodes(body) <=> Decodes(msg.body),
         Decodes(body) \/ ~bypass,
         NEW r, r = PublishRedriven(queue, body, bypass, d)
  PROVE  WrittenAs(t, msg, d, queue, body, bypass, r)
<1> DEFINE extra == IF bypass THEN ReplayBypass ELSE NoProps
           p == PulsarMessage(body, d.route)
<1>1. CASE t = "kafka" /\ ~bypass /\ queue = msg.at /\ body = d.body
  <2>1. r = Record(queue, msg.body, msg.props, msg.key)
    BY <1>1 DEF PublishRedriven, Republish, PublishFrom
  <2>2. /\ r.at = queue /\ r.body = msg.body /\ r.props = msg.props /\ r.key = msg.key /\ r.count = 0
        /\ r = [at |-> r.at, body |-> r.body, props |-> r.props, key |-> r.key, count |-> r.count]
    BY <2>1, RecordFields
  <2> QED
    BY <1>1, <2>2 DEF RecordOK, WrittenAs
<1>2. CASE t = "pulsar"
  <2>1. r = Record(queue, body, IF bypass THEN PulsarMerge(p, ReplayBypass) ELSE p, msg.key)
    BY <1>2 DEF PublishRedriven, Republish, PublishFromWithHeaders
  <2>2. /\ r.at = queue /\ r.key = msg.key /\ r.count = 0
        /\ r = [at |-> r.at, body |-> r.body, props |-> r.props, key |-> r.key, count |-> r.count]
    BY <2>1, RecordFields
  <2>3. RecordOK(r) /\ Fresh("pulsar", msg, r, body, bypass)
    BY <1>2, <2>1, PulsarRecord
  <2> QED
    BY <1>2, <2>2, <2>3 DEF WrittenAs
<1>3. CASE t # "pulsar" /\ ~(t = "kafka" /\ ~bypass /\ queue = msg.at /\ body = d.body)
  <2>1. r = Record(queue, body, PublishWithHeaders(body, extra), msg.key)
    BY <1>3 DEF PublishRedriven, Republish, PublishFrom, PublishFromWithHeaders
  <2>2. /\ r.at = queue /\ r.key = msg.key /\ r.count = 0
        /\ r = [at |-> r.at, body |-> r.body, props |-> r.props, key |-> r.key, count |-> r.count]
    BY <2>1, RecordFields
  <2>3. RecordOK(r) /\ Fresh(t, msg, r, body, bypass)
    BY <1>3, <2>1, ProjectedRecord
  <2> QED
    BY <2>2, <2>3 DEF WrittenAs
<1> QED
  BY <1>1, <1>2, <1>3

-----------------------------------------------------------------------------
(* Poison records.                                                          *)

\* A body that never decoded is kept inside the poison record.
Inside(body, first) ==
  \/ Value(Members(body), "raw") = Str(first)
  \/ /\ first.is = "object"
     /\ Front(body.of) = first.of
     /\ Cardinality({i \in DOMAIN body.of : body.of[i].key = "dead_letter"}) = 1

\* The identity and the type errors of an object survive the added block.
LEMMA PoisonKept ==
  ASSUME NEW body, JsonBody(body), ~Decodes(body), NEW queue, NEW n
  PROVE  /\ ~Decodes(PoisonRecord(body, queue, n))
         /\ Inside(PoisonRecord(body, queue, n), body)
<1> DEFINE block == Member("dead_letter", DeadLetterBlock([queue |-> queue, attempts |-> n]))
           rec == PoisonRecord(body, queue, n)
<1>1. block.key = "dead_letter"
  BY MemberTag
<1> HIDE DEF block
<1>2. CASE IsSpliceableObject(body)
  <2> DEFINE ms == body.of
             ns == Append(ms, block)
             k == Len(ms) + 1
  <2>1. rec = Obj(ns) /\ body.is = "object" /\ "dead_letter" \notin Keys(ms)
    BY <1>2 DEF PoisonRecord, block, IsSpliceableObject
  <2>2. Members(body) = ms /\ IsSequence(ms)
    BY <2>1 DEF Members, JsonBody, JsonValue
  <2>3. ms \in Seq(Range(ms) \cup {block}) /\ Len(ms) \in Nat /\ DOMAIN ms = 1 .. Len(ms)
    BY <2>2 DEF IsSequence
  <2> HIDE DEF ms
  <2>4. /\ DOMAIN ns = 1 .. k /\ Len(ns) = k
        /\ \A i \in 1 .. Len(ms) : ns[i] = ms[i]
        /\ ns[k] = block
        /\ ns \in Seq(Range(ms) \cup {block})
    BY <2>3
  <2> HIDE DEF ns
  <2>5. Front(ns) = ms
    <3>1. Front(ns) = SubSeq(ns, 1, Len(ms))
      BY <2>3, <2>4 DEF Front
    <3> QED
      BY <2>3, <2>4, <3>1
  <2>6. {i \in DOMAIN ns : ns[i].key = "dead_letter"} = {k}
    <3>1. \A i \in DOMAIN ms : ms[i].key # "dead_letter"
      BY <2>1 DEF Keys
    <3>2. \A i \in DOMAIN ns : ns[i].key = "dead_letter" <=> i = k
      BY <1>1, <2>3, <2>4, <3>1
    <3> QED
      BY <2>3, <2>4, <3>2
  <2>7. Inside(rec, body)
    <3>1. rec.of = ns
      BY <2>1, ObjTag
    <3> QED
      BY <2>1, <2>5, <2>6, <3>1, FS_Singleton DEF Inside, ms
  <2>8. \A key : key # "dead_letter" => Value(ns, key) = Value(ms, key)
    <3> SUFFICES ASSUME NEW key, key # "dead_letter"
                 PROVE  Value(ns, key) = Value(ms, key)
      OBVIOUS
    <3> DEFINE P == {i \in DOMAIN ms : ms[i].key = key}
    <3>1. {i \in DOMAIN ns : ns[i].key = key} = P
      BY <1>1, <2>3, <2>4
    <3>2. key \in Keys(ns) <=> P # {}
      BY <3>1 DEF Keys
    <3>3. key \in Keys(ms) <=> P # {}
      BY DEF Keys
    <3>4. CASE P = {}
      BY <3>2, <3>3, <3>4 DEF Value
    <3>5. CASE P # {}
      <4>1. Max(P) \in P
        BY <2>3, <3>5, HasMax
      <4>2. ns[Max(P)] = ms[Max(P)]
        BY <2>3, <2>4, <4>1
      <4> QED
        BY <3>1, <3>2, <3>3, <3>5, <4>2 DEF Value
    <3> QED
      BY <3>4, <3>5
  <2>9. Identity(ns) = Identity(ms)
    BY <2>8 DEF Identity
  <2>10. Decodable(rec) => Decodable(body)
    <3>1. SUFFICES ASSUME Decodable(rec)
                   PROVE  WellTyped(ms, EnvelopeTypes) /\ NestedWellTyped(ms)
      BY <2>1 DEF Decodable, ms
    <3>2. rec.is = "object" /\ rec.of = ns /\ rec # Null
      BY <2>1, ObjTag, NullTag
    <3>3. WellTyped(ns, EnvelopeTypes) /\ NestedWellTyped(ns)
      BY <3>1, <3>2 DEF Decodable
    <3>4. \A i \in DOMAIN ms : i \in DOMAIN ns /\ ns[i] = ms[i]
      BY <2>3, <2>4
    <3> QED
      BY <3>3, <3>4 DEF WellTyped, NestedWellTyped
  <2>11. ~Decodes(rec)
    <3>1. Members(rec) = ns
      BY <2>1, ObjTag
    <3>2. ~Decodable(body) \/ IsBlankASCII(Identity(ms))
      BY <2>2 DEF Decodes, Decode
    <3> QED
      BY <2>9, <2>10, <3>1, <3>2 DEF Decodes, Decode
  <2> QED
    BY <2>7, <2>11
<1>3. CASE ~IsSpliceableObject(body)
  <2> DEFINE raw == Member("raw", Str(body))
             ns == << raw, block >>
  <2>1. rec = Obj(ns)
    BY <1>3 DEF PoisonRecord, block
  <2>2. raw.key = "raw" /\ raw.val = Str(body)
    BY MemberTag
  <2> HIDE DEF raw
  <2>3. DOMAIN ns = {1, 2} /\ ns[1] = raw /\ ns[2] = block
    OBVIOUS
  <2> HIDE DEF ns
  <2>4. Members(rec) = ns
    BY <2>1, ObjTag
  <2>5. Value(ns, "raw") = Str(body)
    <3>1. \A j \in DOMAIN ns : ns[j].key = "raw" => j <= 1
      BY <1>1, <2>2, <2>3
    <3> QED
      BY <2>2, <2>3, <3>1, LastValue
  <2>6. Value(ns, "job") = Null /\ Value(ns, "urn") = Null
    BY <1>1, <2>2, <2>3, NoValue
  <2>7. IsBlankASCII(Identity(ns))
    BY <2>6, NullTag DEF Identity, IsBlankASCII
  <2>8. ~Decodes(rec)
    BY <2>4, <2>7 DEF Decodes, Decode
  <2> QED
    BY <2>4, <2>5, <2>8 DEF Inside
<1> QED
  BY <1>2, <1>3

-----------------------------------------------------------------------------
(* The inductive invariant.                                                 *)

\* The record on its queue.
Stored(m) ==
  /\ m = [at |-> m.at, body |-> m.body, props |-> m.props, key |-> m.key, count |-> m.count]
  /\ m.key \in {"", "k"}
  /\ RecordOK(m)

\* What the body first published is known to be.
Origin(first) ==
  IF Decodes(first) THEN Encodable(Env(first)) ELSE JsonBody(first)

\* The body on the queue at stands for the one first published.
Carries(first, at, body) ==
  IF Decodes(first)
  THEN /\ Decodes(body) /\ Encodable(Env(body)) /\ Core(Env(body)) = Core(Env(first))
       /\ OwnAttempts(body) \in Int
       /\ at \in QueuesNamed(first)
       /\ Env(body).dead # <<>> => Env(body).dead[1].queue \in QueuesNamed(first)
  ELSE /\ ~Decodes(body)
       /\ at \in {"q", "dlq"}
       /\ body = first \/ (at = "dlq" /\ Inside(body, first))

\* The next route is the last one.
SameRoute(u, first, rts, m) ==
  IF Decodes(first) THEN rts \subseteq {<<RouteOf(u, m), m.key>>} ELSE rts = {}

\* What the gate rejected it rejects again; what this SDK published it never rejects.
SameGate(u, first, mine, rej, m) ==
  /\ mine => Decodes(first) /\ Env(first).version = 1 /\ ~Rejects(u, m) /\ ~rej
  /\ rej => u # "amqp"
  /\ rej /\ (u = "pulsar" \/ Env(first).version \notin {0, 1}) =>
       Rejects(u, m) \/ (m.at = "dlq" /\ ~Decodes(first))

\* The record m still stands for the message first published.
Kept(u, first, mine, rej, rts, m) ==
  Stored(m) /\ Carries(first, m.at, m.body) /\ SameRoute(u, first, rts, m) /\ SameGate(u, first, mine, rej, m)

\* The delivery j of the record m.
HeldAs(u, m, j) ==
  /\ PoppedAs(u, m, j)
  /\ j.replay <=> m.props.replay # Null
  /\ Runs(j) => j.attempts = Due(u, m)
  /\ j.attempts \in Int

\* The shape of the state.
ShapeInv ==
  /\ t \in Transport /\ t \in Six /\ backoff \in Backoffs
  /\ pc \in {"start", "queued", "running", "done"}
  /\ Stored(msg)
  /\ due \in Int /\ due >= -1
  /\ replay \in BOOLEAN
  /\ job.attempts \in Int /\ job.deliveries \in Nat /\ job.route.is \in {"null", "string", "gate"}

\* Before the first publish nothing has happened.
StartInv ==
  pc = "start" => /\ redrives = 0 /\ due = -1 /\ ~replay /\ routes = {} /\ ~rejected /\ ~own
                  /\ msg.at = "q"

\* From the first publish on the record stands for what was published.
LifeInv == pc # "start" => Origin(origin) /\ Kept(t, origin, own, rejected, routes, msg)

\* The delivery being handled is one of the stored record.
RunInv == pc = "running" => msg.at = "q" /\ HeldAs(t, msg, job)

\* The record is marked exactly when a bypass redrive wrote it.
ReplayInv == pc # "start" /\ msg.at = "q" => (msg.props.replay # Null <=> replay)

\* The next delivery counts on from the last one, and from 0 after a redrive.
Counted(u, m, least, n) ==
  m.at = "q" /\ Decodes(m.body) /\ ~Rejects(u, m) =>
    /\ Due(u, m) >= least
    /\ n > 0 /\ m.count = 0 /\ least = 0 => Due(u, m) = 0

\* The counter of the record has not fallen behind.
CountInv == pc # "start" => Counted(t, msg, due, redrives)

\* The inductive invariant.
IInv == ShapeInv /\ StartInv /\ LifeInv /\ RunInv /\ ReplayInv /\ CountInv

\* The releases in place: what was asked for, at rising attempts, none ahead of the
\* delivery to come.
Released(n) == << n, VisibilitySeconds(ComputeRetryDelay(n)) >>

ReleaseInv ==
  /\ hidden \in Seq(Range(hidden))
  /\ \A i \in DOMAIN hidden :
       /\ hidden[i][1] \in 1 .. MaxAttempts /\ hidden[i] = Released(hidden[i][1])
       /\ hidden[i][1] <= due + 1
  /\ \A i, j \in DOMAIN hidden : i < j => hidden[i][1] <= hidden[j][1]

-----------------------------------------------------------------------------
(* A step keeps it: the writes.                                             *)

\* Two bodies that stand for the same first one.
LEMMA BothCarry ==
  ASSUME NEW first, Origin(first), NEW at, NEW body, Carries(first, at, body)
  PROVE  /\ Decodes(body) <=> Decodes(first)
         /\ Decodes(first) => /\ Encodable(Env(body)) /\ OwnAttempts(body) \in Int
                              /\ Env(body).job = Env(first).job
                              /\ Env(body).version = Env(first).version
                              /\ Env(body).queue = Env(first).queue
<1>1. Decodes(body) <=> Decodes(first)
  BY DEF Carries
<1>2. CASE Decodes(first)
  <2>1. Encodable(Env(body)) /\ Core(Env(body)) = Core(Env(first)) /\ OwnAttempts(body) \in Int
    BY <1>2 DEF Carries
  <2>2. Encodable(Env(first))
    BY <1>2 DEF Origin
  <2> QED
    BY <1>1, <2>1, <2>2, CoreFields
<1> QED
  BY <1>1, <1>2

\* Whatever is written for a delivery of the stored record stands for it.
LEMMA WriteKept ==
  ASSUME t \in Six, Origin(origin), Kept(t, origin, own, rejected, routes, msg),
         NEW d, PoppedAs(t, msg, d), NEW queue, NEW body, NEW bypass \in BOOLEAN,
         Carries(origin, queue, body), Decodes(origin) \/ (queue = "dlq" /\ ~bypass),
         NEW r, r = PublishRedriven(queue, body, bypass, d)
  PROVE  /\ Kept(t, origin, own, rejected, routes, r)
         /\ WrittenAs(t, msg, d, queue, body, bypass, r)
<1>1. Stored(msg) /\ Carries(origin, msg.at, msg.body)
  BY DEF Kept
<1>2. /\ Decodes(body) <=> Decodes(origin)
      /\ Decodes(msg.body) <=> Decodes(origin)
  BY <1>1, BothCarry
<1>3. Decodes(body) => /\ Encodable(Env(body)) /\ OwnAttempts(body) \in Int
                       /\ Env(body).job = Env(msg.body).job
                       /\ Env(body).version = Env(origin).version
  BY <1>1, <1>2, BothCarry
<1>4. RecordOK(msg)
  BY <1>1 DEF Stored
<1>5. WrittenAs(t, msg, d, queue, body, bypass, r)
  BY <1>2, <1>3, <1>4, Written
<1>6. Stored(r) /\ r.at = queue /\ r.key = msg.key
  BY <1>1, <1>5 DEF WrittenAs, Stored
<1>7. CASE Fresh(t, msg, r, body, bypass)
  <2>1. r.body = body
    BY <1>7 DEF Fresh
  <2>2. Carries(origin, r.at, r.body)
    BY <1>6, <2>1
  <2>3. SameRoute(t, origin, routes, r)
    <3>1. Decodes(body) => RouteOf(t, r) = RouteOf(t, msg)
      BY <1>7 DEF Fresh
    <3>2. SameRoute(t, origin, routes, msg)
      BY DEF Kept
    <3> QED
      BY <1>2, <1>6, <3>1, <3>2 DEF SameRoute
  <2>4. SameGate(t, origin, own, rejected, r)
    <3>1. SameGate(t, origin, own, rejected, msg)
      BY DEF Kept
    <3>2. own => Decodes(origin) /\ Env(origin).version = 1 /\ ~Rejects(t, msg) /\ ~rejected
      BY <3>1 DEF SameGate
    <3>3. own => ~Rejects(t, r)
      BY <1>2, <1>3, <1>7, <3>2 DEF Fresh
    <3>4. rejected => t # "amqp"
      BY <3>1 DEF SameGate
    <3>5. ASSUME rejected, t = "pulsar" \/ Env(origin).version \notin {0, 1}
          PROVE  Rejects(t, r) \/ (r.at = "dlq" /\ ~Decodes(origin))
      <4>1. CASE ~Decodes(origin)
        BY <4>1, <1>6
      <4>2. CASE Decodes(origin) /\ t # "pulsar"
        BY <4>2, <1>2, <1>3, <1>7, <3>4, <3>5 DEF Fresh
      <4>3. CASE Decodes(origin) /\ t = "pulsar"
        <5>1. Rejects(t, msg)
          BY <4>3, <3>1, <3>5 DEF SameGate
        <5> QED
          BY <4>3, <5>1, <1>7 DEF Fresh
      <4> QED
        BY <4>1, <4>2, <4>3
    <3> QED
      BY <3>2, <3>3, <3>4, <3>5 DEF SameGate
  <2> QED
    BY <1>5, <1>6, <2>2, <2>3, <2>4 DEF Kept
<1>8. CASE t = "kafka" /\ queue = msg.at /\ r.body = msg.body /\ r.props = msg.props
  <2>1. Carries(origin, r.at, r.body)
    BY <1>1, <1>6, <1>8
  <2>2. RouteOf(t, r) = RouteOf(t, msg) /\ (Rejects(t, r) <=> Rejects(t, msg))
    BY <1>8 DEF RouteOf, Rejects
  <2>3. SameRoute(t, origin, routes, r)
    BY <2>2, <1>6 DEF Kept, SameRoute
  <2>4. SameGate(t, origin, own, rejected, r)
    BY <2>2, <1>6, <1>8 DEF Kept, SameGate
  <2> QED
    BY <1>5, <1>6, <2>1, <2>3, <2>4 DEF Kept
<1> QED
  BY <1>5, <1>7, <1>8 DEF WrittenAs

\* The counter of the next delivery is an integer, and a count of the broker's.
LEMMA DueRange ==
  ASSUME NEW u \in Six, NEW r, RecordOK(r), Decodes(r.body)
  PROVE  /\ Base(u, r) \in Int /\ Due(u, r) \in Int /\ Due(u, r) >= -1
         /\ u = "sqs" => Due(u, r) >= r.count
<1>1. Base(u, r) \in Int
  <2>1. r.props.attempts.is = "text" => r.props.attempts.of \in Int
    BY DEF RecordOK, PropsOK
  <2>2. OwnAttempts(r.body) \in Int
    BY DEF RecordOK
  <2> QED
    BY <2>1, <2>2 DEF Base
<1>2. r.count \in Nat
  BY DEF RecordOK
<1>3. Floor(u, r) \in Int /\ Floor(u, r) >= -1 /\ (u = "sqs" => Floor(u, r) = r.count)
  BY <1>2 DEF Floor, Six
<1> QED
  BY <1>1, <1>3 DEF Due

\* A redelivery of the same copy changes its count alone.
LEMMA CountKept ==
  ASSUME Kept(t, origin, own, rejected, routes, msg), t \in Six,
         NEW r, r = [msg EXCEPT !.count = @ + 1]
  PROVE  /\ Kept(t, origin, own, rejected, routes, r)
         /\ r.at = msg.at /\ r.body = msg.body /\ r.props = msg.props
         /\ Rejects(t, r) <=> Rejects(t, msg)
         /\ r.count = msg.count + 1
         /\ Decodes(msg.body) => Due(t, r) \in Int /\ Due(t, r) >= Due(t, msg)
<1>1. Stored(msg)
  BY DEF Kept
<1>2. /\ r.at = msg.at /\ r.body = msg.body /\ r.props = msg.props /\ r.key = msg.key
      /\ r.count = msg.count + 1
      /\ r = [at |-> r.at, body |-> r.body, props |-> r.props, key |-> r.key, count |-> r.count]
  BY <1>1 DEF Stored
<1>3. msg.count \in Nat /\ r.count \in Nat
  <2>1. msg.count \in Nat
    BY <1>1 DEF Stored, RecordOK
  <2> QED
    BY <2>1, <1>2
<1>4. Stored(r)
  BY <1>1, <1>2, <1>3 DEF Stored, RecordOK
<1>5. Rejects(t, r) <=> Rejects(t, msg)
  BY <1>2 DEF Rejects
<1>6. RouteOf(t, r) = RouteOf(t, msg)
  BY <1>2 DEF RouteOf
<1>7. Kept(t, origin, own, rejected, routes, r)
  BY <1>2, <1>4, <1>5, <1>6 DEF Kept, SameRoute, SameGate
<1>8. Decodes(msg.body) => Due(t, r) \in Int /\ Due(t, r) >= Due(t, msg)
  <2>1. RecordOK(msg) /\ RecordOK(r)
    BY <1>1, <1>4 DEF Stored
  <2>2. ASSUME Decodes(msg.body)
        PROVE  /\ Due(t, msg) \in Int /\ Due(t, r) \in Int
               /\ Base(t, r) = Base(t, msg) /\ Base(t, r) \in Int
    BY <2>1, <2>2, <1>2, DueRange DEF Base
  <2>3. Floor(t, r) >= Floor(t, msg) /\ Floor(t, r) \in Int /\ Floor(t, msg) \in Int
    BY <1>2, <1>3 DEF Floor, Six
  <2> QED
    BY <2>2, <2>3 DEF Due
<1> QED
  BY <1>2, <1>3, <1>5, <1>7, <1>8

-----------------------------------------------------------------------------
(* The values a JSON body holds.                                            *)

\* A JSON value whose members' values are JSON values.
Json2(v) == JsonValue(v) /\ \A j \in DOMAIN Members(v) : JsonValue(Members(v)[j].val)

\* A missing value is a JSON value.
LEMMA JsonNull == Json2(Null)
<1>1. Members(Null) = <<>>
  BY NullTag
<1>2. IsSequence(<<>>)
  BY DEF IsSequence
<1>3. DOMAIN <<>> = {}
  OBVIOUS
<1> QED
  BY <1>1, <1>2, <1>3, NullTag DEF Json2, JsonValue

\* A member's value is a JSON value.
LEMMA JsonMember ==
  ASSUME NEW v, Json2(v), NEW k
  PROVE  JsonValue(Value(Members(v), k))
<1>1. IsSequence(Members(v))
  BY DEF Json2, JsonValue
<1>2. CASE k \in Keys(Members(v))
  <2>1. PICK i \in DOMAIN Members(v) : Value(Members(v), k) = Members(v)[i].val
    BY <1>1, <1>2, ValueAt
  <2> QED
    BY <2>1 DEF Json2
<1>3. CASE k \notin Keys(Members(v))
  <2>1. Value(Members(v), k) = Null
    BY <1>3 DEF Value
  <2> QED
    BY <2>1, JsonNull DEF Json2
<1> QED
  BY <1>2, <1>3

\* The counter of a decoded envelope is a number.
LEMMA JsonAttempts ==
  ASSUME NEW body, JsonBody(body)
  PROVE  OwnAttempts(body) \in Int
<1> DEFINE ms == Members(body)
           v == Value(ms, "attempts")
<1>1. CASE ~Decodable(body)
  <2>1. Env(body) = ZeroEnvelope
    BY <1>1 DEF Env, Decode
  <2>2. ZeroEnvelope.attempts = 0
    BY DEF ZeroEnvelope
  <2> QED
    BY <2>1, <2>2 DEF OwnAttempts
<1>2. CASE Decodable(body)
  <2>1. Env(body) = EnvelopeOf(ms)
    BY <1>2 DEF Env, Decode
  <2>2. Env(body).attempts = Integer(v)
    BY <2>1 DEF EnvelopeOf
  <2>3. Json2(body)
    BY DEF JsonBody, Json2
  <2>4. JsonValue(v)
    BY <2>3, JsonMember
  <2> HIDE DEF v
  <2>5. Integer(v) \in Int
    BY <2>4 DEF JsonValue, Integer
  <2> QED
    BY <2>2, <2>5 DEF OwnAttempts
<1> QED
  BY <1>1, <1>2

-----------------------------------------------------------------------------
(* The delivery held.                                                       *)

\* What the App does with a delivery is decided by its body, route and count.
LEMMA SamePopped ==
  ASSUME NEW u, NEW r, NEW d, PoppedAs(u, r, d),
         NEW e, e.body = d.body, e.route = d.route, e.deliveries = d.deliveries
  PROVE  PoppedAs(u, r, e)
<1>1. Gated(e) = Gated(d) /\ Poison(e) = Poison(d) /\ Runs(e) = Runs(d) /\ URN(e) = URN(d)
  BY DEF Gated, Poison, Runs, URN
<1> QED
  BY <1>1 DEF PoppedAs

\* The replay marker passes the header filter of every transport.
LEMMA ReplayRead ==
  ASSUME t \in Six
  PROVE  "replay" \in DOMAIN Headers /\ Headers["replay"] = msg.props.replay
BY DEF Six, Headers, OutOfBandFromRecord, PulsarOutOfBand, SqsHeaders, AzureOutOfBand, ArtemisOutOfBand,
       AmqpHeadersFromTable, Surface, PropertyNames, ContractHeaders, PulsarContract, AzureContract,
       ArtemisContract

\* The delivery that Consume holds is the one the record stands for.
LEMMA Held ==
  ASSUME t \in Six, RecordOK(msg), Decodes(msg.body) \/ JsonBody(msg.body), NEW d, d = Pop,
         NEW j,
         j = [ body |-> d.body, route |-> d.route, deliveries |-> d.deliveries,
               replay |-> "replay" \in DOMAIN Headers /\ Headers["replay"] # Null,
               attempts |-> Max({OwnAttempts(d.body), d.deliveries - 1}) ]
  PROVE  HeldAs(t, msg, j) /\ PoppedAs(t, msg, d)
<1>1. PoppedAs(t, msg, d)
  BY SamePop, Popped
<1>2. j.body = d.body /\ j.route = d.route /\ j.deliveries = d.deliveries
  OBVIOUS
<1>3. PoppedAs(t, msg, j)
  BY <1>1, <1>2, SamePopped
<1>4. j.replay <=> msg.props.replay # Null
  BY ReplayRead
<1>5. j.attempts = Max({OwnAttempts(d.body), d.deliveries - 1})
  OBVIOUS
<1>6. Runs(j) => j.attempts = Due(t, msg)
  BY <1>2, <1>3, <1>5 DEF PoppedAs
<1>7. OwnAttempts(d.body) \in Int /\ d.deliveries \in Nat
  BY <1>1, JsonAttempts DEF PoppedAs
<1>8. j.attempts \in Int
  BY <1>5, <1>7, MaxPair
<1> QED
  BY <1>1, <1>3, <1>4, <1>6, <1>8 DEF HeldAs

-----------------------------------------------------------------------------
(* The bodies that the hops write.                                          *)

\* An envelope of the same core is encoded into a body that stands for the first one.
LEMMA EncodedCarries ==
  ASSUME NEW first, Decodes(first), NEW at \in QueuesNamed(first),
         NEW e, Encodable(e), Core(e) = Core(Env(first)), e.attempts \in Int,
         e.dead # <<>> => e.dead[1].queue \in QueuesNamed(first)
  PROVE  Carries(first, at, Encode(e)) /\ OwnAttempts(Encode(e)) = e.attempts
<1> DEFINE b == Encode(e)
<1>1. Decode(b) = [err |-> "none", env |-> e]
  BY Reread
<1> HIDE DEF b
<1>2. Decodes(b) /\ Env(b) = e
  BY <1>1 DEF Decodes, Env
<1>3. Carries(first, at, b) /\ OwnAttempts(b) = e.attempts
  BY <1>2 DEF Carries, OwnAttempts
<1> QED
  BY <1>3 DEF b

\* A delivery holds the envelope of the stored record, the attempts apart.
LEMMA DeliveredEnvelope ==
  ASSUME Origin(origin), Kept(t, origin, own, rejected, routes, msg), NEW d, PoppedAs(t, msg, d)
  PROVE  /\ Decodes(d.body) <=> Decodes(origin)
         /\ Decodes(msg.body) <=> Decodes(origin)
         /\ ~Decodes(origin) => d.body = msg.body
         /\ Decodes(origin) => /\ Encodable(Env(d.body)) /\ Core(Env(d.body)) = Core(Env(origin))
                               /\ Env(d.body).queue = Env(origin).queue
                               /\ OwnAttempts(d.body) \in Int
                               /\ Env(d.body).dead # <<>> => Env(d.body).dead[1].queue \in QueuesNamed(origin)
<1>1. Carries(origin, msg.at, msg.body)
  BY DEF Kept
<1>2. /\ Decodes(d.body) <=> Decodes(origin)
      /\ Decodes(msg.body) <=> Decodes(origin)
  BY <1>1, BothCarry DEF PoppedAs
<1>3. CASE ~Decodes(origin)
  BY <1>2, <1>3 DEF PoppedAs
<1>4. CASE Decodes(origin)
  <2>1. /\ Encodable(Env(d.body)) /\ OwnAttempts(d.body) \in Int
        /\ Alike(d.body, msg.body)
    BY <1>2, <1>4 DEF PoppedAs
  <2>2. /\ Core(Env(msg.body)) = Core(Env(origin))
        /\ Env(msg.body).dead # <<>> => Env(msg.body).dead[1].queue \in QueuesNamed(origin)
    BY <1>1, <1>4 DEF Carries
  <2>3. /\ Core(Env(d.body)) = Core(Env(origin))
        /\ Env(d.body).dead # <<>> => Env(d.body).dead[1].queue \in QueuesNamed(origin)
    BY <2>1, <2>2 DEF Alike
  <2>4. Encodable(Env(origin))
    BY <1>4 DEF Origin
  <2>5. Env(d.body).queue = Env(origin).queue
    BY <2>1, <2>3, <2>4, CoreFields
  <2> QED
    BY <1>2, <1>4, <2>1, <2>3, <2>5
<1> QED
  BY <1>3, <1>4

\* The body as it was handed over stands for the first one.
LEMMA DeliveredCarries ==
  ASSUME Origin(origin), Kept(t, origin, own, rejected, routes, msg), NEW d, PoppedAs(t, msg, d)
  PROVE  Carries(origin, "dlq", d.body)
<1>1. Carries(origin, msg.at, msg.body)
  BY DEF Kept
<1>2. CASE ~Decodes(origin)
  BY <1>1, <1>2, DeliveredEnvelope DEF Carries
<1>3. CASE Decodes(origin)
  <2>1. "dlq" \in QueuesNamed(origin)
    BY DEF QueuesNamed
  <2> QED
    BY <1>3, <2>1, DeliveredEnvelope DEF Carries
<1> QED
  BY <1>2, <1>3

-----------------------------------------------------------------------------
(* The steps.                                                               *)

\* The idle job.
LEMMA NoJobTyped ==
  NoJob.attempts \in Int /\ NoJob.deliveries \in Nat /\ NoJob.route.is \in {"null", "string", "gate"}
<1>1. NoJob.attempts = 0 /\ NoJob.deliveries = 0
  BY DEF NoJob
<1>2. NoJob.route = Null
  BY DEF NoJob
<1>3. NoJob.route.is = "null"
  BY <1>2, NullTag
<1>4. 0 \in Int /\ 0 \in Nat
  OBVIOUS
<1> QED
  BY <1>1, <1>3, <1>4

\* A step that leaves the record m in a queue.
LEMMA QueuedStep ==
  ASSUME IInv, pc # "start", pc' = "queued", NEW m, msg' = m,
         UNCHANGED <<t, backoff, origin, own, routes, rejected>>,
         job' = NoJob \/ job' = job,
         Kept(t, origin, own, rejected, routes, m),
         NEW rp \in BOOLEAN, replay' = rp, NEW du \in Int, due' = du, du >= -1,
         NEW rd, redrives' = rd,
         m.at = "q" => (m.props.replay # Null <=> rp),
         Counted(t, m, du, rd)
  PROVE  IInv'
<1>1. ShapeInv'
  <2>1. job'.attempts \in Int /\ job'.deliveries \in Nat /\ job'.route.is \in {"null", "string", "gate"}
    BY NoJobTyped DEF IInv, ShapeInv
  <2>2. Stored(m)
    BY DEF Kept
  <2> QED
    BY <2>1, <2>2 DEF IInv, ShapeInv
<1>2. StartInv' /\ RunInv'
  BY DEF StartInv, RunInv
<1>3. LifeInv'
  BY DEF IInv, LifeInv
<1>4. ReplayInv'
  BY DEF ReplayInv
<1>5. CountInv'
  BY DEF CountInv
<1> QED
  BY <1>1, <1>2, <1>3, <1>4, <1>5 DEF IInv

\* A settle that writes a record for the delivery held, from queue "q" to the dead letters.
LEMMA DeadLetterStep ==
  ASSUME IInv, pc = "running", NEW body, Carries(origin, "dlq", body),
         Settled(Republish("dlq", body, job)), replay' = FALSE, UNCHANGED due, UNCHANGED redrives
  PROVE  IInv'
<1> DEFINE r == Republish("dlq", body, job)
<1>1. r = PublishRedriven("dlq", body, FALSE, job)
  BY DEF PublishRedriven
<1>2. msg' = r /\ pc' = "queued" /\ job' = NoJob /\ UNCHANGED <<t, backoff, origin, own, routes, rejected>>
  BY DEF Settled
<1> HIDE DEF r
<1>3. PICK m : m = r
  OBVIOUS
<1>4. t \in Six /\ Origin(origin) /\ Kept(t, origin, own, rejected, routes, msg) /\ PoppedAs(t, msg, job)
  BY DEF IInv, ShapeInv, LifeInv, RunInv, HeldAs
<1>5. /\ Kept(t, origin, own, rejected, routes, m)
      /\ WrittenAs(t, msg, job, "dlq", body, FALSE, m)
  BY <1>1, <1>3, <1>4, WriteKept
<1>6. m.at = "dlq"
  BY <1>5 DEF WrittenAs
<1>7. Counted(t, m, due, redrives)
  BY <1>6 DEF Counted
<1>8. due \in Int /\ due >= -1
  BY DEF IInv, ShapeInv
<1> QED
  BY <1>2, <1>3, <1>5, <1>6, <1>7, <1>8, QueuedStep

\* settleVersionGated writes the body as it came.
LEMMA GatedStep == IInv /\ DeadLetterGated => IInv'
<1> SUFFICES ASSUME IInv, DeadLetterGated
             PROVE  IInv'
  OBVIOUS
<1>1. pc = "running"
  BY DEF DeadLetterGated
<1>2. Origin(origin) /\ Kept(t, origin, own, rejected, routes, msg) /\ PoppedAs(t, msg, job)
  BY <1>1 DEF IInv, LifeInv, RunInv, HeldAs
<1>3. Carries(origin, "dlq", job.body)
  BY <1>2, DeliveredCarries
<1> QED
  BY <1>1, <1>3, DeadLetterStep DEF DeadLetterGated, Settled

\* settleRawPoison keeps an undecodable body whole.
LEMMA PoisonStep == IInv /\ DeadLetterPoison => IInv'
<1> SUFFICES ASSUME IInv, DeadLetterPoison
             PROVE  IInv'
  OBVIOUS
<1> DEFINE n == Max({job.deliveries - 1, 0})
           body == PoisonRecord(job.body, "q", n)
<1>1. pc = "running" /\ Poison(job)
  BY DEF DeadLetterPoison
<1>2. /\ Origin(origin) /\ Kept(t, origin, own, rejected, routes, msg) /\ PoppedAs(t, msg, job)
      /\ msg.at = "q"
  BY <1>1 DEF IInv, LifeInv, RunInv, HeldAs
<1>3. ~Decodes(origin) /\ ~Decodes(msg.body) /\ job.body = msg.body
  BY <1>1, <1>2, DeliveredEnvelope DEF PoppedAs
<1>4. msg.body = origin /\ JsonBody(origin)
  BY <1>2, <1>3 DEF Kept, Carries, Origin
<1>5. ~Decodes(body) /\ Inside(body, origin)
  BY <1>3, <1>4, PoisonKept
<1>6. Carries(origin, "dlq", body)
  BY <1>3, <1>5 DEF Carries
<1>7. Settled(Republish("dlq", body, job)) /\ replay' = FALSE /\ UNCHANGED due
  BY DEF DeadLetterPoison
<1> HIDE DEF body
<1>8. UNCHANGED redrives
  BY <1>7 DEF Settled
<1> QED
  BY <1>1, <1>6, <1>7, <1>8, DeadLetterStep

\* What a running delivery is known to be: decoded, accepted by the gate, at the counter due.
LEMMA Running ==
  ASSUME IInv, pc = "running", Runs(job)
  PROVE  /\ t \in Six /\ Origin(origin) /\ Kept(t, origin, own, rejected, routes, msg)
         /\ msg.at = "q" /\ PoppedAs(t, msg, job)
         /\ Decodes(origin) /\ Decodes(msg.body) /\ ~Rejects(t, msg) /\ RecordOK(msg)
         /\ job.attempts = Due(t, msg) /\ job.attempts \in Int /\ job.attempts >= -1
         /\ OwnAttempts(job.body) \in Int /\ OwnAttempts(job.body) <= job.attempts
         /\ Due(t, msg) >= due
<1>1. /\ t \in Six /\ Origin(origin) /\ Kept(t, origin, own, rejected, routes, msg)
      /\ msg.at = "q" /\ HeldAs(t, msg, job)
  BY DEF IInv, ShapeInv, LifeInv, RunInv
<1>2. PoppedAs(t, msg, job) /\ job.attempts = Due(t, msg)
  BY <1>1 DEF HeldAs
<1>3. Decodes(msg.body) /\ ~Rejects(t, msg) /\ Decodes(origin)
  BY <1>1, <1>2, DeliveredEnvelope DEF PoppedAs
<1>4. RecordOK(msg)
  BY <1>1 DEF Kept, Stored
<1>5. Due(t, msg) \in Int /\ Due(t, msg) >= -1
  BY <1>1, <1>3, <1>4, DueRange
<1>6. /\ OwnAttempts(job.body) \in Int /\ job.deliveries \in Nat
      /\ Max({OwnAttempts(job.body), job.deliveries - 1}) = Due(t, msg)
  BY <1>2, <1>3 DEF PoppedAs
<1>7. OwnAttempts(job.body) <= Due(t, msg)
  <2>1. job.deliveries - 1 \in Int
    BY <1>6
  <2> QED
    BY <1>6, <2>1, MaxPair
<1>8. Due(t, msg) >= due
  BY <1>1, <1>3 DEF IInv, CountInv, Counted
<1> QED
  BY <1>1, <1>2, <1>3, <1>4, <1>5, <1>6, <1>7, <1>8

\* writeDeadLetter annotates the envelope and changes no other field.
LEMMA FailedStep == IInv /\ DeadLetterFailed => IInv'
<1> SUFFICES ASSUME IInv, DeadLetterFailed
             PROVE  IInv'
  OBVIOUS
<1> DEFINE n == job.attempts + 1
           env == [Decode(job.body).env EXCEPT !.attempts = n]
           queue == IF env.queue = "" THEN "q" ELSE env.queue
           noted == Annotate(env, queue, n)
           body == Encode(noted)
<1>1. pc = "running" /\ Runs(job)
  BY DEF DeadLetterFailed
<1>2. /\ Origin(origin) /\ Kept(t, origin, own, rejected, routes, msg) /\ PoppedAs(t, msg, job)
      /\ Decodes(origin) /\ n \in Int
  BY <1>1, Running
<1>3. Settled(Republish("dlq", body, job)) /\ replay' = FALSE /\ UNCHANGED due
  BY DEF DeadLetterFailed
<1>4. /\ Encodable(Decode(job.body).env) /\ Core(Decode(job.body).env) = Core(Env(origin))
      /\ Decode(job.body).env.queue = Env(origin).queue
  BY <1>2, DeliveredEnvelope DEF Env
<1> HIDE DEF n
<1>5. Encodable(env) /\ Core(env) = Core(Env(origin)) /\ env.attempts = n
  BY <1>4, WithCount
<1>6. env.queue = Env(origin).queue
  BY <1>2, <1>5, CoreFields DEF Origin
<1> HIDE DEF env
<1>7. queue \in QueuesNamed(origin)
  BY <1>6 DEF QueuesNamed
<1> HIDE DEF queue
<1>8. /\ Encodable(noted) /\ Core(noted) = Core(Env(origin)) /\ noted.attempts = n
      /\ noted.dead[1].queue = queue
  BY <1>5, WithBlock
<1> HIDE DEF noted
<1>9. Carries(origin, "dlq", body)
  <2>1. "dlq" \in QueuesNamed(origin)
    BY DEF QueuesNamed
  <2> QED
    BY <1>2, <1>7, <1>8, <2>1, EncodedCarries
<1> HIDE DEF body
<1>10. UNCHANGED redrives
  BY <1>3 DEF Settled
<1> QED
  BY <1>1, <1>3, <1>9, <1>10, DeadLetterStep

\* A new copy of a message that decodes: marked by a bypass alone, its count starting anew.
LEMMA Rewritten ==
  ASSUME t \in Six, Origin(origin), Kept(t, origin, own, rejected, routes, msg),
         NEW d, PoppedAs(t, msg, d), NEW queue, NEW body, NEW bypass \in BOOLEAN,
         Decodes(origin), Carries(origin, queue, body), OwnAttempts(body) \in Nat,
         queue # msg.at \/ body # d.body,
         NEW r, r = PublishRedriven(queue, body, bypass, d)
  PROVE  /\ Kept(t, origin, own, rejected, routes, r)
         /\ r.at = queue /\ r.count = 0
         /\ r.props.replay # Null <=> bypass
         /\ Due(t, r) = OwnAttempts(body)
<1>1. /\ Kept(t, origin, own, rejected, routes, r)
      /\ WrittenAs(t, msg, d, queue, body, bypass, r)
  BY WriteKept
<1>2. r.at = queue /\ r.count = 0 /\ Fresh(t, msg, r, body, bypass)
  BY <1>1 DEF WrittenAs
<1>3. Decodes(body)
  BY DEF Carries
<1>4. r.props.replay = IF bypass THEN Str("1") ELSE Null
  BY <1>2, <1>3 DEF Fresh
<1>5. Str("1") # Null
  BY StrTag, NullTag
<1>6. Due(t, r) = OwnAttempts(body)
  BY <1>2, <1>3 DEF Fresh
<1> QED
  BY <1>1, <1>2, <1>4, <1>5, <1>6

\* A retry in place or with a new copy.
LEMMA RetryStep == IInv /\ Retry => IInv'
<1> SUFFICES ASSUME IInv, Retry
             PROVE  IInv'
  OBVIOUS
<1> DEFINE n == job.attempts + 1
           env == [Decode(job.body).env EXCEPT !.attempts = n]
           body == Encode(env)
<1>1. pc = "running" /\ Runs(job)
  BY DEF Retry
<1>2. /\ t \in Six /\ Origin(origin) /\ Kept(t, origin, own, rejected, routes, msg)
      /\ msg.at = "q" /\ PoppedAs(t, msg, job)
      /\ Decodes(origin) /\ Decodes(msg.body) /\ ~Rejects(t, msg) /\ RecordOK(msg)
      /\ job.attempts = Due(t, msg) /\ job.attempts \in Int /\ job.attempts >= -1
      /\ OwnAttempts(job.body) \in Int /\ OwnAttempts(job.body) <= job.attempts
  BY <1>1, Running
<1>3. n \in Nat /\ OwnAttempts(job.body) # n
  BY <1>2
<1>4. CASE t = "sqs"
  <2> DEFINE r == [msg EXCEPT !.count = @ + 1]
  <2>1. Settled(r) /\ due' = job.attempts /\ UNCHANGED replay
    BY <1>4 DEF Retry
  <2>2. PICK m : m = r
    OBVIOUS
  <2>3. /\ Kept(t, origin, own, rejected, routes, m)
        /\ m.at = msg.at /\ m.props = msg.props
        /\ m.count = msg.count + 1
        /\ Due(t, m) \in Int /\ Due(t, m) >= Due(t, msg)
    BY <1>2, <2>2, CountKept
  <2>4. /\ msg' = m /\ pc' = "queued" /\ job' = NoJob
        /\ UNCHANGED <<t, backoff, origin, own, routes, rejected, redrives>>
    BY <2>1, <2>2 DEF Settled
  <2> HIDE DEF r
  <2>5. m.props.replay # Null <=> replay
    BY <1>1, <1>2, <2>3 DEF IInv, ReplayInv
  <2>6. msg.count \in Nat
    BY <1>2 DEF RecordOK
  <2>7. Counted(t, m, job.attempts, redrives)
    BY <1>2, <2>3, <2>6 DEF Counted
  <2>8. replay \in BOOLEAN
    BY DEF IInv, ShapeInv
  <2> QED
    BY <1>1, <1>2, <2>1, <2>3, <2>4, <2>5, <2>7, <2>8, QueuedStep
<1>5. CASE t # "sqs"
  <2>1. Settled(Republish("q", body, job)) /\ due' = n /\ replay' = FALSE
    BY <1>5 DEF Retry
  <2>2. /\ Encodable(Decode(job.body).env) /\ Core(Decode(job.body).env) = Core(Env(origin))
        /\ Env(job.body).dead # <<>> => Env(job.body).dead[1].queue \in QueuesNamed(origin)
    BY <1>2, DeliveredEnvelope DEF Env
  <2> HIDE DEF n
  <2>3. /\ Encodable(env) /\ Core(env) = Core(Env(origin)) /\ env.attempts = n
        /\ env.dead = Env(job.body).dead
    BY <2>2, WithCount DEF Env
  <2> HIDE DEF env
  <2>4. "q" \in QueuesNamed(origin)
    BY DEF QueuesNamed
  <2>5. Carries(origin, "q", body) /\ OwnAttempts(body) = n
    BY <1>2, <1>3, <2>2, <2>3, <2>4, EncodedCarries
  <2> HIDE DEF body
  <2>6. PICK m : m = Republish("q", body, job)
    OBVIOUS
  <2>7. m = PublishRedriven("q", body, FALSE, job)
    BY <2>6 DEF PublishRedriven
  <2>8. /\ msg' = m /\ pc' = "queued" /\ job' = NoJob
        /\ UNCHANGED <<t, backoff, origin, own, routes, rejected, redrives>>
    BY <2>1, <2>6 DEF Settled
  <2>9. body # job.body
    BY <1>3, <2>5
  <2>10. PICK bypass \in BOOLEAN : bypass = FALSE
    OBVIOUS
  <2>11. m = PublishRedriven("q", body, bypass, job)
    BY <2>7, <2>10
  <2>12. /\ Kept(t, origin, own, rejected, routes, m)
         /\ m.at = "q" /\ m.count = 0
         /\ m.props.replay # Null <=> bypass
         /\ Due(t, m) = OwnAttempts(body)
    BY <1>2, <1>3, <2>5, <2>9, <2>11, Rewritten
  <2>13. /\ Kept(t, origin, own, rejected, routes, m)
         /\ m.at = "q" /\ m.count = 0
         /\ m.props.replay = Null
         /\ Due(t, m) = n
    BY <2>5, <2>10, <2>12
  <2>14. n \in Int /\ n >= -1
    BY <1>3
  <2>15. Counted(t, m, n, redrives)
    BY <2>13, <2>14 DEF Counted
  <2> QED
    BY <1>1, <2>1, <2>8, <2>13, <2>14, <2>15, QueuedStep
<1> QED
  BY <1>4, <1>5

\* Lapse: the copy held is delivered again, one delivery later.
LEMMA LapseStep == IInv /\ Lapse => IInv'
<1> SUFFICES ASSUME IInv, Lapse
             PROVE  IInv'
  OBVIOUS
<1> DEFINE r == [msg EXCEPT !.count = @ + 1]
           du == IF Runs(job) THEN job.attempts ELSE due
<1>1. /\ pc = "running" /\ msg' = r /\ due' = du /\ job' = NoJob /\ pc' = "queued"
      /\ UNCHANGED <<t, backoff, redrives, origin, own, routes, rejected, replay>>
  BY DEF Lapse
<1>2. /\ t \in Six /\ Origin(origin) /\ Kept(t, origin, own, rejected, routes, msg)
      /\ msg.at = "q" /\ PoppedAs(t, msg, job)
  BY <1>1 DEF IInv, ShapeInv, LifeInv, RunInv, HeldAs
<1>3. PICK m : m = r
  OBVIOUS
<1>4. /\ Kept(t, origin, own, rejected, routes, m)
      /\ m.at = msg.at /\ m.body = msg.body /\ m.props = msg.props
      /\ Rejects(t, m) <=> Rejects(t, msg)
      /\ m.count = msg.count + 1
      /\ Decodes(msg.body) => Due(t, m) \in Int /\ Due(t, m) >= Due(t, msg)
  BY <1>2, <1>3, CountKept
<1>5. msg.count \in Nat
  BY <1>2 DEF Kept, Stored, RecordOK
<1>6. m.props.replay # Null <=> replay
  BY <1>1, <1>2, <1>4 DEF IInv, ReplayInv
<1>7. due \in Int /\ due >= -1 /\ replay \in BOOLEAN
  BY DEF IInv, ShapeInv
<1>8. CASE Runs(job)
  <2>1. du = job.attempts /\ job.attempts = Due(t, msg) /\ job.attempts \in Int /\ job.attempts >= -1
    BY <1>1, <1>8, Running
  <2>2. Decodes(msg.body)
    BY <1>1, <1>8, Running
  <2> HIDE DEF r, du
  <2>3. Counted(t, m, job.attempts, redrives)
    BY <1>4, <1>5, <2>1, <2>2 DEF Counted
  <2> QED
    BY <1>1, <1>3, <1>4, <1>6, <1>7, <2>1, <2>3, QueuedStep
<1>9. CASE ~Runs(job)
  <2>1. ~(Decodes(msg.body) /\ ~Rejects(t, msg))
    BY <1>2, <1>9 DEF PoppedAs
  <2>2. Counted(t, m, due, redrives)
    BY <1>4, <2>1 DEF Counted
  <2>3. due' = due
    BY <1>1, <1>9
  <2> HIDE DEF r, du
  <2> QED
    BY <1>1, <1>3, <1>4, <1>6, <1>7, <2>2, <2>3, QueuedStep
<1> QED
  BY <1>8, <1>9

\* DrainLapse: a redelivery on the dead-letter queue.
LEMMA DrainLapseStep == IInv /\ DrainLapse => IInv'
<1> SUFFICES ASSUME IInv, DrainLapse
             PROVE  IInv'
  OBVIOUS
<1> DEFINE r == [msg EXCEPT !.count = @ + 1]
<1>1. /\ pc = "queued" /\ msg.at = "dlq" /\ msg' = r
      /\ UNCHANGED <<t, backoff, pc, job, redrives, origin, own, routes, rejected, replay, due>>
  BY DEF DrainLapse, history
<1>2. t \in Six /\ Kept(t, origin, own, rejected, routes, msg)
  BY <1>1 DEF IInv, ShapeInv, LifeInv
<1>3. PICK m : m = r
  OBVIOUS
<1>4. Kept(t, origin, own, rejected, routes, m) /\ m.at = "dlq"
  BY <1>1, <1>2, <1>3, CountKept
<1> HIDE DEF r
<1>5. Counted(t, m, due, redrives)
  BY <1>4 DEF Counted
<1>6. due \in Int /\ due >= -1 /\ replay \in BOOLEAN
  BY DEF IInv, ShapeInv
<1> QED
  BY <1>1, <1>3, <1>4, <1>5, <1>6, QueuedStep

\* restoreToDLQ puts the delivery back as it came.
LEMMA RestoreStep ==
  ASSUME NEW selected \in BOOLEAN, IInv, Restore(selected)
  PROVE  IInv'
<1>1. PICK d \in {Pop} : msg' = Republish("dlq", d.body, d)
  BY DEF Restore
<1>2. /\ pc = "queued" /\ msg.at = "dlq" /\ redrives' = redrives + 1
      /\ UNCHANGED <<t, backoff, pc, job, origin, own, routes, rejected, replay, due>>
  BY DEF Restore, history
<1>3. t \in Six /\ Origin(origin) /\ Kept(t, origin, own, rejected, routes, msg)
  BY <1>2 DEF IInv, ShapeInv, LifeInv
<1>4. PoppedAs(t, msg, d)
  <2>1. RecordOK(msg) /\ d = PopOf(t, msg)
    BY <1>3, SamePop DEF Kept, Stored
  <2> QED
    BY <1>3, <2>1, Popped
<1>5. Carries(origin, "dlq", d.body)
  BY <1>3, <1>4, DeliveredCarries
<1>6. PICK m : m = Republish("dlq", d.body, d)
  OBVIOUS
<1>7. m = PublishRedriven("dlq", d.body, FALSE, d)
  BY <1>6 DEF PublishRedriven
<1>8. /\ Kept(t, origin, own, rejected, routes, m)
      /\ WrittenAs(t, msg, d, "dlq", d.body, FALSE, m)
  BY <1>3, <1>4, <1>5, <1>7, WriteKept
<1>9. m.at = "dlq"
  BY <1>8 DEF WrittenAs
<1>10. PICK rd : rd = redrives + 1
  OBVIOUS
<1>11. Counted(t, m, due, rd)
  BY <1>9 DEF Counted
<1>12. due \in Int /\ due >= -1 /\ replay \in BOOLEAN
  BY DEF IInv, ShapeInv
<1> QED
  BY <1>1, <1>2, <1>6, <1>8, <1>9, <1>10, <1>11, <1>12, QueuedStep

\* The queues a redrive may be given.
ToQueues == {"", "q"}

\* A redriven message starts over: no attempts, no dead-letter block.
LEMMA RedriveStep ==
  ASSUME NEW toQueue \in ToQueues, NEW bypass \in BOOLEAN, IInv, Redrive(toQueue, bypass)
  PROVE  IInv'
<1>1. PICK d \in {Pop} :
        LET env    == Decode(d.body).env
            reset  == [env EXCEPT !.dead = <<>>, !.attempts = 0]
            target == IF toQueue = "" THEN SourceQueueOf(env) ELSE toQueue
        IN /\ Decode(d.body).err = "none"
           /\ msg' = PublishRedriven(target, Encode(reset), bypass, d)
  BY DEF Redrive
<1>2. /\ pc = "queued" /\ msg.at = "dlq" /\ redrives' = redrives + 1
      /\ replay' = bypass /\ due' = 0
      /\ UNCHANGED <<t, backoff, pc, job, origin, own, routes, rejected>>
  BY DEF Redrive
<1>3. t \in Six /\ Origin(origin) /\ Kept(t, origin, own, rejected, routes, msg)
  BY <1>2 DEF IInv, ShapeInv, LifeInv
<1>4. PoppedAs(t, msg, d)
  <2>1. RecordOK(msg) /\ d = PopOf(t, msg)
    BY <1>3, SamePop DEF Kept, Stored
  <2> QED
    BY <1>3, <2>1, Popped
<1> DEFINE env    == Decode(d.body).env
           reset  == [env EXCEPT !.dead = <<>>, !.attempts = 0]
           target == IF toQueue = "" THEN SourceQueueOf(env) ELSE toQueue
           body   == Encode(reset)
<1>5. Decodes(d.body) /\ msg' = PublishRedriven(target, body, bypass, d)
  BY <1>1 DEF Decodes
<1>6. /\ Decodes(origin) /\ Encodable(env) /\ Core(env) = Core(Env(origin))
      /\ env.queue = Env(origin).queue
      /\ env.dead # <<>> => env.dead[1].queue \in QueuesNamed(origin)
  BY <1>3, <1>4, <1>5, DeliveredEnvelope DEF Env
<1> HIDE DEF env
<1>7. target \in QueuesNamed(origin)
  BY <1>6 DEF SourceQueueOf, QueuesNamed, ToQueues
<1>8. Encodable(reset) /\ Core(reset) = Core(Env(origin)) /\ reset.attempts = 0 /\ reset.dead = <<>>
  BY <1>6, WithReset
<1> HIDE DEF reset, target
<1>9. Carries(origin, target, body) /\ OwnAttempts(body) = 0
  BY <1>6, <1>7, <1>8, EncodedCarries
<1> HIDE DEF body
<1>10. PICK m : m = PublishRedriven(target, body, bypass, d)
  OBVIOUS
<1>11. CASE target # msg.at \/ body # d.body
  <2>1. /\ Kept(t, origin, own, rejected, routes, m)
        /\ m.props.replay # Null <=> bypass
        /\ Due(t, m) = 0
    BY <1>3, <1>4, <1>6, <1>9, <1>10, <1>11, Rewritten
  <2>2. PICK rd : rd = redrives + 1
    OBVIOUS
  <2>3. Counted(t, m, 0, rd)
    BY <2>1 DEF Counted
  <2> QED
    BY <1>2, <1>5, <1>10, <2>1, <2>2, <2>3, QueuedStep
<1>12. CASE target = msg.at
  <2>1. /\ Kept(t, origin, own, rejected, routes, m)
        /\ WrittenAs(t, msg, d, target, body, bypass, m)
    BY <1>3, <1>4, <1>6, <1>9, <1>10, WriteKept
  <2>2. m.at # "q"
    BY <1>2, <1>12, <2>1 DEF WrittenAs
  <2>3. PICK rd : rd = redrives + 1
    OBVIOUS
  <2>4. Counted(t, m, 0, rd)
    BY <2>2 DEF Counted
  <2> QED
    BY <1>2, <1>5, <1>10, <2>1, <2>2, <2>3, <2>4, QueuedStep
<1> QED
  BY <1>11, <1>12

\* The handler sees the message under its one route; the gate rejects what it rejected.
LEMMA ConsumeStep == IInv /\ Consume => IInv'
<1> SUFFICES ASSUME IInv, Consume
             PROVE  IInv'
  OBVIOUS
<1>1. PICK d \in {Pop} :
        /\ job' = [ body |-> d.body, route |-> d.route, deliveries |-> d.deliveries,
                    replay |-> "replay" \in DOMAIN Headers /\ Headers["replay"] # Null,
                    attempts |-> Max({OwnAttempts(d.body), d.deliveries - 1}) ]
        /\ routes' = IF Runs(d) THEN routes \cup {<<URN(d), msg.key>>} ELSE routes
        /\ rejected' = (rejected \/ Gated(d))
  BY DEF Consume
<1>2. /\ pc = "queued" /\ msg.at = "q" /\ pc' = "running"
      /\ UNCHANGED <<t, backoff, msg, redrives, origin, own, replay, due>>
  BY DEF Consume
<1>3. t \in Six /\ Origin(origin) /\ Kept(t, origin, own, rejected, routes, msg)
  BY <1>2 DEF IInv, ShapeInv, LifeInv
<1>4. RecordOK(msg) /\ Carries(origin, msg.at, msg.body)
  BY <1>3 DEF Kept, Stored
<1>5. Decodes(msg.body) \/ JsonBody(msg.body)
  BY <1>2, <1>3, <1>4 DEF Carries, Origin
<1>6. PICK j : j = [ body |-> d.body, route |-> d.route, deliveries |-> d.deliveries,
                     replay |-> "replay" \in DOMAIN Headers /\ Headers["replay"] # Null,
                     attempts |-> Max({OwnAttempts(d.body), d.deliveries - 1}) ]
  OBVIOUS
<1>7. HeldAs(t, msg, j) /\ PoppedAs(t, msg, d)
  BY <1>3, <1>4, <1>5, <1>6, Held
<1>8. job' = j
  BY <1>1, <1>6
<1>9. ShapeInv'
  BY <1>2, <1>7, <1>8 DEF IInv, ShapeInv, HeldAs, PoppedAs
<1>10. SameRoute(t, origin, routes', msg)
  <2>1. SameRoute(t, origin, routes, msg)
    BY <1>3 DEF Kept
  <2>2. Decodes(msg.body) <=> Decodes(origin)
    BY <1>3, <1>4, BothCarry
  <2>3. Runs(d) => URN(d) = RouteOf(t, msg) /\ Decodes(msg.body)
    BY <1>7 DEF PoppedAs
  <2> QED
    BY <1>1, <2>1, <2>2, <2>3 DEF SameRoute
<1>11. SameGate(t, origin, own, rejected', msg)
  <2>1. SameGate(t, origin, own, rejected, msg)
    BY <1>3 DEF Kept
  <2>2. Gated(d) <=> Rejects(t, msg)
    BY <1>7 DEF PoppedAs
  <2>3. Rejects(t, msg) => t # "amqp"
    BY DEF Rejects
  <2> QED
    BY <1>1, <2>1, <2>2, <2>3 DEF SameGate
<1>12. LifeInv'
  BY <1>2, <1>3, <1>10, <1>11 DEF LifeInv, Kept
<1>13. RunInv'
  BY <1>2, <1>7, <1>8 DEF RunInv
<1>14. ReplayInv' /\ CountInv' /\ StartInv'
  BY <1>2 DEF IInv, ReplayInv, CountInv, StartInv
<1> QED
  BY <1>9, <1>12, <1>13, <1>14 DEF IInv

\* A handler that returns nil: Ack removes the record.
LEMMA HandlerStep == IInv /\ HandlerOk => IInv'
<1> SUFFICES ASSUME IInv, HandlerOk
             PROVE  IInv'
  OBVIOUS
<1>1. /\ pc = "running" /\ pc' = "done"
      /\ UNCHANGED <<t, backoff, msg, job, redrives, origin, own, routes, rejected, replay, due>>
  BY DEF HandlerOk, history
<1> QED
  BY <1>1 DEF IInv, ShapeInv, StartInv, LifeInv, RunInv, ReplayInv, CountInv

\* The first publish puts a record that stands for its body, unmarked and uncounted.
LEMMA StartStep ==
  ASSUME IInv, pc = "start", pc' = "queued", NEW m, msg' = m, NEW first, origin' = first,
         NEW mine, own' = mine,
         UNCHANGED <<t, backoff, job, redrives, routes, rejected, replay, due>>,
         Origin(first), Stored(m), Carries(first, m.at, m.body), m.props.replay = Null,
         mine => Decodes(first) /\ Env(first).version = 1 /\ ~Rejects(t, m)
  PROVE  IInv'
<1>1. redrives = 0 /\ due = -1 /\ ~replay /\ routes = {} /\ ~rejected
  BY DEF IInv, StartInv
<1>2. t \in Six /\ RecordOK(m)
  BY DEF IInv, ShapeInv, Stored
<1>3. ShapeInv'
  BY DEF IInv, ShapeInv
<1>4. SameRoute(t, first, routes, m) /\ SameGate(t, first, mine, rejected, m)
  BY <1>1 DEF SameRoute, SameGate
<1>5. LifeInv'
  BY <1>4 DEF LifeInv, Kept
<1>6. ReplayInv' /\ StartInv' /\ RunInv'
  BY <1>1 DEF ReplayInv, StartInv, RunInv
<1>7. Counted(t, m, due, redrives)
  <2>1. Decodes(m.body) => Due(t, m) \in Int /\ Due(t, m) >= -1
    BY <1>2, DueRange
  <2> QED
    BY <1>1, <2>1 DEF Counted
<1>8. CountInv'
  BY <1>7 DEF CountInv
<1> QED
  BY <1>3, <1>5, <1>6, <1>8 DEF IInv

\* A body of another producer, with the properties it chose.
LEMMA ForeignStep ==
  ASSUME NEW f \in Foreign[t], IInv, ForeignPublish(f)
  PROVE  IInv'
<1>1. t \in Transport
  BY DEF IInv, ShapeInv
<1>2. JsonBody(f.body) /\ PropsOK(f.props) /\ f.props.replay = Null
  BY <1>1, ForeignAssumption
<1> DEFINE key == IF t = "kafka" THEN "k" ELSE ""
<1>3. /\ pc = "start" /\ pc' = "queued" /\ msg' = Record("q", f.body, f.props, key)
      /\ origin' = f.body /\ own' = own
      /\ UNCHANGED <<t, backoff, job, redrives, routes, rejected, replay, due>>
  BY DEF ForeignPublish
<1>4. PICK m : m = Record("q", f.body, f.props, key)
  OBVIOUS
<1>5. key \in {"", "k"}
  OBVIOUS
<1> HIDE DEF key
<1>6. /\ m.at = "q" /\ m.body = f.body /\ m.props = f.props /\ m.key = key /\ m.count = 0
      /\ m = [at |-> m.at, body |-> m.body, props |-> m.props, key |-> m.key, count |-> m.count]
  BY <1>4, RecordFields
<1>7. Decodes(f.body) => Encodable(Env(f.body))
  BY <1>2, DecodedEncodable DEF Decodes, Env
<1>8. OwnAttempts(f.body) \in Int
  BY <1>2, JsonAttempts
<1>9. m.count \in Nat
  BY <1>6
<1>10. Stored(m)
  BY <1>2, <1>5, <1>6, <1>7, <1>8, <1>9 DEF Stored, RecordOK
<1>11. Origin(f.body)
  BY <1>2, <1>7 DEF Origin
<1>12. Carries(f.body, "q", f.body)
  <2>1. "q" \in QueuesNamed(f.body)
    BY DEF QueuesNamed
  <2>2. Decodes(f.body) /\ Env(f.body).dead # <<>> => 1 \in DOMAIN Env(f.body).dead
    BY <1>7 DEF Encodable, Writable
  <2> QED
    BY <1>7, <1>8, <2>1, <2>2 DEF Carries, QueuesNamed
<1>13. ~own
  BY <1>3 DEF IInv, StartInv
<1>14. PICK first : first = f.body
  OBVIOUS
<1> QED
  BY <1>2, <1>3, <1>4, <1>6, <1>10, <1>11, <1>12, <1>13, <1>14, StartStep

\* An envelope that Make built can be written: version 1, no attempts, no block.
LEMMA MadeWritable ==
  ASSUME NEW data \in Payloads, NEW meta \in Meta, NEW e, e = Make("A", "q", data, meta)
  PROVE  /\ Writable(e) /\ e.version = 1 /\ e.attempts = 0 /\ e.dead = <<>>
<1>1. /\ e.job = "A" /\ e.data = (IF data = Null THEN Obj(<<>>) ELSE data) /\ e.version = 1 /\ e.attempts = 0 /\ e.dead = <<>>
      /\ e.extras = {} /\ e.metaExtras = meta
      /\ e = [f \in Fields |-> e[f]]
  BY DEF Make, Fields, SchemaVersion
<1>2. Carried(meta, MetaKeys)
  BY MetaAssumption
<1>3. Carried({}, KnownKeys)
  BY FS_EmptySet DEF Carried
<1>4. Payload(e.data)
  <2>1. IsSequence(<<>>) /\ InRange(<<>>) /\ DOMAIN <<>> = {}
    BY DEF IsSequence, InRange
  <2>2. Payload(Obj(<<>>))
    BY <2>1, ObjTag DEF Payload
  <2> QED
    BY <1>1, <2>2, PayloadAssumption
<1>5. ~IsBlankASCII("A")
  BY DEF IsBlankASCII
<1> QED
  BY <1>1, <1>2, <1>3, <1>4, <1>5 DEF Writable

\* An envelope that was written once is read as one of its kind, data as its map.
LEMMA ReadOnce ==
  ASSUME NEW env, Writable(env), NEW e, e = [env EXCEPT !.data = AsMap(env.data)]
  PROVE  /\ Decode(Encode(env)) = [err |-> "none", env |-> e]
         /\ Encodable(e) /\ e.version = env.version /\ e.attempts = env.attempts /\ e.dead = env.dead
<1>1. Payload(AsMap(env.data)) /\ AsMap(AsMap(env.data)) = AsMap(env.data)
  BY DataRead DEF Writable
<1>2. /\ e = [f \in Fields |-> e[f]] /\ e.data = AsMap(env.data)
      /\ \A f \in Fields \ {"data"} : e[f] = env[f]
  BY DEF Writable, Fields
<1>3. /\ e.job = env.job /\ e.version = env.version /\ e.attempts = env.attempts /\ e.dead = env.dead
      /\ e.extras = env.extras /\ e.metaExtras = env.metaExtras
  BY <1>2 DEF Fields
<1>4. Encodable(e)
  BY <1>1, <1>2, <1>3 DEF Encodable, Writable
<1> QED
  BY <1>3, <1>4, RoundTrip

\* A message of this SDK under the headers of its caller.
LEMMA ProduceStep ==
  ASSUME NEW data \in Payloads, NEW meta \in Meta, NEW version \in {Null, Str("2")}, IInv,
         Produce(data, meta, version)
  PROVE  IInv'
<1>1. PICK made : made = Make("A", "q", data, meta)
  OBVIOUS
<1>a. PICK e : e = [made EXCEPT !.data = AsMap(made.data)]
  OBVIOUS
<1> DEFINE body == Encode(made)
           extra == [NoProps EXCEPT !.version = version]
<1>2. /\ pc = "start" /\ pc' = "queued" /\ msg' = Record("q", body, PublishWithHeaders(body, extra), "")
      /\ origin' = body /\ own' = TRUE
      /\ UNCHANGED <<t, backoff, job, redrives, routes, rejected, replay, due>>
  BY <1>1 DEF Produce
<1>3. Encodable(e) /\ e.version = 1 /\ e.attempts = 0 /\ e.dead = <<>>
  BY <1>1, <1>a, MadeWritable, ReadOnce
<1>4. HeadersOK(extra) /\ extra.replay = Null
  <2>1. /\ extra = [k \in PropertyNames |-> extra[k]]
        /\ extra.job = Null /\ extra.attempts = Null /\ extra.replay = Null /\ extra.version = version
    BY NoPropsFields
  <2>2. version.is \in {"null", "string"}
    BY NullTag, StrTag
  <2> HIDE DEF extra
  <2>3. PropsOK(extra)
    BY <2>1, <2>2, NullTag, MadeProps
  <2> QED
    BY <2>1, <2>3 DEF HeadersOK
<1>5. Decode(body) = [err |-> "none", env |-> e]
  BY <1>1, <1>a, MadeWritable, ReadOnce
<1> HIDE DEF body, extra
<1>6. Decodes(body) /\ Env(body) = e /\ OwnAttempts(body) = 0
  BY <1>3, <1>5 DEF Decodes, Env, OwnAttempts
<1>7. t \in Six /\ t \in Transport
  BY DEF IInv, ShapeInv
<1>8. PICK p : p = PublishWithHeaders(body, extra)
  OBVIOUS
<1>9. 0 \in Int /\ 0 \in Nat
  OBVIOUS
<1>10. Projects(t, p, Env(body)) /\ p.replay = Null
  BY <1>3, <1>4, <1>6, <1>7, <1>8, <1>9, FreshProps
<1>11. PICK key : key = ""
  OBVIOUS
<1>12. PICK m : m = Record("q", body, p, key)
  OBVIOUS
<1>13. /\ m.at = "q" /\ m.body = body /\ m.props = p /\ m.key = key /\ m.count = 0
       /\ m = [at |-> m.at, body |-> m.body, props |-> m.props, key |-> m.key, count |-> m.count]
  BY <1>12, RecordFields
<1>14. RecordOK(m)
  BY <1>3, <1>6, <1>9, <1>10, <1>13 DEF RecordOK, Projects
<1>15. Stored(m)
  BY <1>11, <1>13, <1>14 DEF Stored
<1>16. ~Rejects(t, m)
  <2>1. Env(body).version = 1
    BY <1>3, <1>6
  <2> QED
    BY <1>7, <1>10, <1>13, <2>1, ProjectedGate DEF Projects
<1>17. Origin(body) /\ Carries(body, "q", body)
  <2>1. "q" \in QueuesNamed(body)
    BY DEF QueuesNamed
  <2> QED
    BY <1>3, <1>6, <1>9, <2>1 DEF Origin, Carries
<1>18. PICK first : first = body
  OBVIOUS
<1>19. PICK mine : mine = TRUE
  OBVIOUS
<1> QED
  BY <1>2, <1>3, <1>6, <1>8, <1>10, <1>11, <1>12, <1>13, <1>15, <1>16, <1>17, <1>18, <1>19, StartStep

-----------------------------------------------------------------------------
(* The theorems.                                                            *)

\* Before the first publish there is no message.
LEMMA InitIInv == Init => IInv
<1> SUFFICES ASSUME Init
             PROVE  IInv
  OBVIOUS
<1>1. t \in Transport /\ t \in Six /\ backoff \in Backoffs
  BY TransportAssumption DEF Init, Six
<1>2. ~Decodes(Null)
  <2>3. DOMAIN <<>> = {}
    OBVIOUS
  <2>1. Members(Null) = <<>> /\ DOMAIN <<>> = {}
    BY <2>3, NullTag
  <2>2. Value(<<>>, "job") = Null /\ Value(<<>>, "urn") = Null
    BY <2>1, NoValue
  <2>4. IsBlankASCII(Identity(Members(Null)))
    <3>1. Text(Null) = ""
      BY NullTag
    <3>2. Identity(Members(Null)) = ""
      BY <2>1, <2>2, <3>1, NullTag DEF Identity
    <3> QED
      BY <3>2 DEF IsBlankASCII
  <2> QED
    BY <2>4 DEF Decodes, Decode
<1>3. PICK key : key = ""
  OBVIOUS
<1>4. msg = Record("q", Null, NoProps, key)
  BY <1>3 DEF Init
<1>5. /\ msg.at = "q" /\ msg.body = Null /\ msg.props = NoProps /\ msg.key = key /\ msg.count = 0
      /\ msg = [at |-> msg.at, body |-> msg.body, props |-> msg.props, key |-> msg.key,
                count |-> msg.count]
  BY <1>4, RecordFields
<1>6. key \in {"", "k"}
  BY <1>3
<1> HIDE <1>3
<1>7. PropsOK(NoProps)
  BY ExtraOK DEF HeadersOK
<1>8. Stored(msg)
  <2>1. 0 \in Nat
    OBVIOUS
  <2>2. RecordOK(msg)
    BY <1>2, <1>5, <1>7, <2>1 DEF RecordOK
  <2> QED
    BY <1>5, <1>6, <2>2 DEF Stored
<1>10. pc = "start" /\ job = NoJob /\ replay = FALSE /\ due = -1
  BY DEF Init
<1>9. ShapeInv
  <2>1. due \in Int /\ due >= -1
    BY <1>10
  <2> QED
    BY <1>1, <1>8, <1>10, <2>1, NoJobTyped DEF ShapeInv
<1> QED
  BY <1>5, <1>9 DEF Init, IInv, StartInv, LifeInv, RunInv, ReplayInv, CountInv

\* Every step keeps the invariant.
LEMMA NextIInv == IInv /\ [Next]_vars => IInv'
<1> SUFFICES ASSUME IInv, [Next]_vars
             PROVE  IInv'
  OBVIOUS
<1>1. CASE \E data \in Payloads, meta \in Meta, version \in {Null, Str("2")} : Produce(data, meta, version)
  BY <1>1, ProduceStep
<1>2. CASE \E f \in Foreign[t] : ForeignPublish(f)
  BY <1>2, ForeignStep
<1>3. CASE Consume
  BY <1>3, ConsumeStep
<1>4. CASE DeadLetterGated
  BY <1>4, GatedStep
<1>5. CASE DeadLetterPoison
  BY <1>5, PoisonStep
<1>6. CASE HandlerOk
  BY <1>6, HandlerStep
<1>7. CASE Retry
  BY <1>7, RetryStep
<1>8. CASE DeadLetterFailed
  BY <1>8, FailedStep
<1>9. CASE Lapse
  BY <1>9, LapseStep
<1>10. CASE DrainLapse
  BY <1>10, DrainLapseStep
<1>11. CASE \E selected \in BOOLEAN : Restore(selected)
  BY <1>11, RestoreStep
<1>12. CASE \E toQueue \in {"", "q"}, bypass \in BOOLEAN : Redrive(toQueue, bypass)
  BY <1>12, RedriveStep DEF ToQueues
<1>13. CASE UNCHANGED vars
  <2>1. UNCHANGED <<t, backoff, pc, msg, job, redrives, origin, own, routes, rejected, replay, due, hidden>>
    BY <1>13 DEF vars
  <2> QED
    BY <2>1 DEF IInv, ShapeInv, StartInv, LifeInv, RunInv, ReplayInv, CountInv
<1> QED
  BY <1>1, <1>2, <1>3, <1>4, <1>5, <1>6, <1>7, <1>8, <1>9, <1>10, <1>11, <1>12, <1>13 DEF Next

\* The invariant holds in every reachable state.
LEMMA Invariance == Spec => []IInv
BY InitIInv, NextIInv, PTL DEF Spec

\* Retries, dead-letter writes and redrives keep the envelope first published, and what
\* never decoded stays whole: every body that PublishFrom and its kin write.
THEOREM BodiesFaithful == Spec => []Faithful
<1>1. IInv => Faithful
  <2> SUFFICES ASSUME IInv, pc # "start"
               PROVE  IF Decode(origin).err = "none"
                      THEN /\ Decode(msg.body).err = "none"
                           /\ Core(Decode(msg.body).env) = Core(Decode(origin).env)
                           /\ CheckExtras(Decode(msg.body).env)
                      ELSE \/ msg.body = origin
                           \/ /\ msg.at = "dlq" /\ Decode(msg.body).err # "none"
                              /\ \/ Value(Members(msg.body), "raw") = Str(origin)
                                 \/ /\ origin.is = "object"
                                    /\ Front(msg.body.of) = origin.of
                                    /\ Cardinality({i \in DOMAIN msg.body.of :
                                                     msg.body.of[i].key = "dead_letter"}) = 1
    BY DEF Faithful
  <2>1. Carries(origin, msg.at, msg.body)
    BY DEF IInv, LifeInv, Kept
  <2>2. CASE Decodes(origin)
    <3>1. Decodes(msg.body) /\ Encodable(Env(msg.body)) /\ Core(Env(msg.body)) = Core(Env(origin))
      BY <2>1, <2>2 DEF Carries
    <3>2. CheckExtras(Env(msg.body))
      BY <3>1, EncodableChecks
    <3> QED
      BY <2>2, <3>1, <3>2 DEF Decodes, Env
  <2>3. CASE ~Decodes(origin)
    <3>1. /\ ~Decodes(msg.body)
          /\ msg.body = origin \/ (msg.at = "dlq" /\ Inside(msg.body, origin))
      BY <2>1, <2>3 DEF Carries
    <3> QED
      BY <2>3, <3>1 DEF Decodes, Inside
  <2> QED
    BY <2>2, <2>3
<1> QED
  BY <1>1, Invariance, PTL

\* One URN and one key for life, under every republish path of every transport.
THEOREM RoutesStable == Spec => []RouteStable
<1>1. IInv => RouteStable
  <2> SUFFICES ASSUME IInv
               PROVE  Cardinality(routes) <= 1
    BY DEF RouteStable
  <2>1. PICK x : routes \subseteq {x}
    BY DEF IInv, StartInv, LifeInv, Kept, SameRoute
  <2>2. IsFiniteSet({x}) /\ Cardinality({x}) = 1
    BY FS_Singleton
  <2> QED
    BY <2>1, <2>2, FS_Subset
<1> QED
  BY <1>1, Invariance, PTL

\* The version gate lets every message of this SDK pass and never changes its verdict on
\* a version that the body, or on Pulsar the property, declares.
THEOREM GateNeverTurns == Spec => []GateSound
<1>1. IInv => GateSound
  <2> SUFFICES ASSUME IInv
               PROVE  /\ own => ~rejected
                      /\ pc = "running" /\ rejected
                           /\ (t = "pulsar" \/ Decode(origin).env.version \notin {0, SchemaVersion})
                         => Gated(job)
    BY DEF GateSound
  <2>1. CASE pc = "start"
    BY <2>1 DEF IInv, StartInv
  <2>2. CASE pc # "start"
    <3>1. SameGate(t, origin, own, rejected, msg)
      BY <2>2 DEF IInv, LifeInv, Kept
    <3>2. pc = "running" => msg.at = "q" /\ (Gated(job) <=> Rejects(t, msg))
      BY DEF IInv, RunInv, HeldAs, PoppedAs
    <3> QED
      BY <3>1, <3>2 DEF SameGate, Env, SchemaVersion
  <2> QED
    BY <2>1, <2>2
<1> QED
  BY <1>1, Invariance, PTL

\* The attempts that Pop and Consume reconcile from body, header and broker count never
\* fall behind, and start over at a redrive.
THEOREM AttemptsNeverLost == Spec => []AttemptsKept
<1>1. IInv => AttemptsKept
  <2> SUFFICES ASSUME IInv, pc = "running", Runs(job)
               PROVE  /\ job.attempts >= due
                      /\ redrives > 0 /\ msg.count = 0 /\ due = 0 => job.attempts = 0
    BY DEF AttemptsKept
  <2>1. /\ msg.at = "q" /\ job.attempts = Due(t, msg) /\ Decodes(msg.body) /\ ~Rejects(t, msg)
    BY Running
  <2> QED
    BY <2>1 DEF IInv, CountInv, Counted
<1> QED
  BY <1>1, Invariance, PTL

\* The replay marker is on the deliveries of a bypass redrive and on no other.
THEOREM ReplaysMarked == Spec => []ReplayMarked
<1>1. IInv => ReplayMarked
  BY DEF IInv, RunInv, ReplayInv, HeldAs, ReplayMarked
<1> QED
  BY <1>1, Invariance, PTL

-----------------------------------------------------------------------------
(* Retry delays.                                                            *)

\* The smaller of two.
LEMMA MinPair ==
  ASSUME NEW a \in Int, NEW b \in Int
  PROVE  Min({a, b}) = IF a <= b THEN a ELSE b
<1>1. CASE a <= b
  <2>1. a \in {a, b} /\ \A y \in {a, b} : a <= y
    BY <1>1
  <2>2. \A x \in {a, b} : (\A y \in {a, b} : x <= y) => x = a
    BY <1>1
  <2> QED
    BY <1>1, <2>1, <2>2 DEF Min
<1>2. CASE ~(a <= b)
  <2>1. b \in {a, b} /\ \A y \in {a, b} : b <= y
    BY <1>2
  <2>2. \A x \in {a, b} : (\A y \in {a, b} : x <= y) => x = b
    BY <1>2
  <2> QED
    BY <1>2, <2>1, <2>2 DEF Min
<1> QED
  BY <1>1, <1>2

\* Products of naturals rise with their factors.
LEMMA Scaled ==
  ASSUME NEW a \in Nat, NEW p \in Nat, NEW q \in Nat, p <= q
  PROVE  a * p \in Nat /\ a * p <= a * q
OBVIOUS

\* The product without a cap.
Exact(n) == Max({backoff.base, 0}) * Growth(backoff)^(n - 1)

\* A delay is the backoff, unless that exceeds the largest duration.
LEMMA DelayOf ==
  ASSUME backoff \in Backoffs, NEW n \in 1 .. MaxAttempts
  PROVE  /\ Exact(n) \in Nat
         /\ Backoff(n) \in Nat /\ ComputeRetryDelay(n) \in Nat
         /\ \/ ComputeRetryDelay(n) = Backoff(n)
            \/ ComputeRetryDelay(n) = MaxInt64 /\ Backoff(n) > MaxInt64
         /\ Backoff(n) = IF backoff.max > 0 /\ Exact(n) > backoff.max THEN backoff.max ELSE Exact(n)
<1> DEFINE base == backoff.base
           cap  == backoff.max
           p    == Growth(backoff)^(n - 1)
<1>1. base \in Int /\ cap \in Int
  BY BackoffAssumption
<1>2. p \in Nat
  <2>1. n - 1 \in 0 .. MaxAttempts
    BY LimitAssumption
  <2> QED
    BY <2>1, PowerAssumption
<1>3. Max({base, 0}) = IF base >= 0 THEN base ELSE 0
  BY <1>1, MaxPair
<1>4. Max({n, 1}) = n
  <2>1. n \in Int /\ n >= 1
    OBVIOUS
  <2> QED
    BY <2>1, MaxPair
<1>5. ComputeRetryDelay(n) = CASE base <= 0 -> 0
                               [] cap > 0 /\ base * p > cap -> cap
                               [] OTHER -> Min({base * p, MaxInt64})
  BY <1>4 DEF ComputeRetryDelay
<1>6. Exact(n) = Max({base, 0}) * p
  BY DEF Exact
<1>7. Backoff(n) = IF cap > 0 THEN Min({Max({base, 0}) * p, cap}) ELSE Max({base, 0}) * p
  BY DEF Backoff
<1> HIDE DEF base, cap, p
<1>8. MaxInt64 \in Nat
  BY DurationAssumption
<1>9. CASE base <= 0
  <2>1. Exact(n) = 0
    BY <1>1, <1>2, <1>3, <1>6, <1>9
  <2>2. cap > 0 => Min({0, cap}) = 0
    BY <1>1, MinPair
  <2>3. ComputeRetryDelay(n) = 0
    <3>1. (0 - base) * p \in Nat /\ base * p = 0 - (0 - base) * p
      BY <1>1, <1>2, <1>9
    <3>2. ~(cap > 0 /\ base * p > cap)
      BY <1>1, <3>1
    <3> QED
      BY <1>1, <1>5, <1>9, <3>2
  <2>4. Backoff(n) = 0
    BY <1>6, <1>7, <2>1, <2>2
  <2> QED
    BY <1>1, <2>1, <2>3, <2>4 DEF cap
<1>10. CASE ~(base <= 0)
  <2> DEFINE d == base * p
  <2>1. d \in Nat /\ Max({base, 0}) = base
    BY <1>1, <1>2, <1>3, <1>10, Scaled
  <2>2. Exact(n) = d
    BY <1>6, <2>1
  <2>3. ComputeRetryDelay(n) = IF cap > 0 /\ d > cap THEN cap ELSE Min({d, MaxInt64})
    BY <1>5, <1>10
  <2>4. Backoff(n) = IF cap > 0 THEN Min({d, cap}) ELSE d
    BY <1>7, <2>1
  <2> HIDE DEF d
  <2>5. Min({d, cap}) = (IF d <= cap THEN d ELSE cap) /\ Min({d, MaxInt64}) = (IF d <= MaxInt64 THEN d ELSE MaxInt64)
    BY <1>1, <1>8, <2>1, MinPair
  <2>6. Backoff(n) = IF cap > 0 /\ d > cap THEN cap ELSE d
    BY <1>1, <2>1, <2>4, <2>5
  <2> QED
    BY <1>1, <1>8, <2>1, <2>2, <2>3, <2>5, <2>6 DEF cap
<1> QED
  BY <1>9, <1>10

\* Below the longest timeout the sum of delay and rounding stays within a duration.
LEMMA Rounded ==
  ASSUME NEW d \in Nat
  PROVE  LET s == VisibilitySeconds(d)
         IN /\ s \in 0 .. MaxVisibility
            /\ d >= MaxVisibility * Second => s = MaxVisibility
            /\ \/ s = MaxVisibility /\ d >= MaxVisibility * Second
               \/ s * Second >= d /\ s * Second < d + Second
<1> DEFINE s == VisibilitySeconds(d)
           w == Wrap(d + Second - 1)
<1> SUFFICES /\ s \in 0 .. MaxVisibility
             /\ d >= MaxVisibility * Second => s = MaxVisibility
             /\ \/ s = MaxVisibility /\ d >= MaxVisibility * Second
                \/ s * Second >= d /\ s * Second < d + Second
  OBVIOUS
<1>1. Second \in Nat \ {0} /\ MaxVisibility \in Nat /\ MaxInt64 \in Nat
  BY DurationAssumption
<1>2. MaxVisibility * Second \in Nat /\ MaxVisibility * Second + Second <= MaxInt64
  <2>1. (MaxVisibility + 1) * Second = MaxVisibility * Second + Second
    BY <1>1
  <2> QED
    BY <1>1, <2>1, DurationAssumption
<1>3. s = CASE d <= 0 -> 0
            [] d >= MaxVisibility * Second -> MaxVisibility
            [] OTHER -> Min({w \div Second, MaxVisibility})
  BY DEF VisibilitySeconds
<1> HIDE DEF s, w
<1>4. CASE d = 0
  <2>1. d >= MaxVisibility * Second => MaxVisibility = 0
    BY <1>1, <1>2, <1>4
  <2>2. s = 0
    <3>1. CASE d >= MaxVisibility * Second
      BY <1>3, <1>4, <2>1, <3>1
    <3>2. CASE ~(d >= MaxVisibility * Second)
      BY <1>3, <1>4, <3>2
    <3> QED
      BY <3>1, <3>2
  <2>3. 0 * Second = 0 /\ 0 < Second
    BY <1>1
  <2> QED
    BY <1>1, <1>4, <2>1, <2>2, <2>3
<1>5. CASE d # 0 /\ d >= MaxVisibility * Second
  <2>1. s = MaxVisibility
    BY <1>3, <1>5
  <2> QED
    BY <1>1, <1>5, <2>1
<1>6. CASE d # 0 /\ ~(d >= MaxVisibility * Second)
  <2> DEFINE q == w \div Second
  <2>1. w = d + Second - 1
    <3>1. w = ((d + Second - 1 + MaxInt64 + 1) % (2 * (MaxInt64 + 1))) - (MaxInt64 + 1)
      BY DEF Wrap, w
    <3> DEFINE e == d + Second - 1 + MaxInt64 + 1
               k == 2 * (MaxInt64 + 1)
    <3>2. e \in Nat /\ k \in Nat /\ e < k /\ k > 0
      BY <1>1, <1>2, <1>6
    <3> HIDE DEF e, k
    <3>3. e % k = e
      BY <3>2
    <3>4. w = e - (MaxInt64 + 1)
      BY <3>1, <3>3 DEF e, k
    <3> QED
      BY <1>1, <3>4 DEF e
  <2>2. w \in Nat /\ w >= d /\ w < d + Second
    BY <1>1, <2>1
  <2>3. q \in Nat /\ q * Second <= w /\ w < q * Second + Second
    BY <1>1, <2>2
  <2> HIDE DEF q
  <2>4. q * Second >= d
    BY <1>1, <2>1, <2>3
  <2>5. q <= MaxVisibility
    <3>1. q * Second < MaxVisibility * Second + Second
      BY <1>1, <1>2, <1>6, <2>2, <2>3
    <3>2. ASSUME q >= MaxVisibility + 1
          PROVE  FALSE
      <4>1. (MaxVisibility + 1) * Second <= q * Second
        BY <1>1, <2>3, <3>2
      <4>2. (MaxVisibility + 1) * Second = MaxVisibility * Second + Second
        BY <1>1
      <4> QED
        BY <1>1, <1>2, <2>3, <3>1, <4>1, <4>2
    <3> QED
      BY <1>1, <2>3, <3>2
  <2>6. s = Min({q, MaxVisibility})
    BY <1>3, <1>6 DEF q
  <2>7. s = q
    BY <1>1, <2>3, <2>5, <2>6, MinPair
  <2> QED
    BY <1>1, <1>6, <2>2, <2>3, <2>4, <2>5, <2>7
<1> QED
  BY <1>4, <1>5, <1>6

\* A longer delay never hides a message for less.
LEMMA SecondsRise ==
  ASSUME NEW c \in Nat, NEW d \in Nat, c <= d
  PROVE  VisibilitySeconds(c) <= VisibilitySeconds(d)
<1> DEFINE r == VisibilitySeconds(c)
           s == VisibilitySeconds(d)
<1> SUFFICES r <= s
  OBVIOUS
<1>1. /\ r \in 0 .. MaxVisibility
      /\ c >= MaxVisibility * Second => r = MaxVisibility
      /\ \/ r = MaxVisibility /\ c >= MaxVisibility * Second
         \/ r * Second >= c /\ r * Second < c + Second
  BY Rounded
<1>2. /\ s \in 0 .. MaxVisibility
      /\ d >= MaxVisibility * Second => s = MaxVisibility
      /\ \/ s = MaxVisibility /\ d >= MaxVisibility * Second
         \/ s * Second >= d /\ s * Second < d + Second
  BY Rounded
<1>3. Second \in Nat \ {0} /\ MaxVisibility \in Nat /\ MaxVisibility * Second \in Nat
  BY DurationAssumption
<1> HIDE DEF r, s
<1>4. CASE d >= MaxVisibility * Second
  BY <1>1, <1>2, <1>3, <1>4
<1>5. CASE ~(d >= MaxVisibility * Second)
  <2>1. r * Second < c + Second /\ s * Second >= d /\ r \in Nat /\ s \in Nat
    BY <1>1, <1>2, <1>3, <1>5
  <2>2. ASSUME r >= s + 1
        PROVE  FALSE
    <3>1. (s + 1) * Second <= r * Second
      BY <1>3, <2>1, <2>2
    <3>2. (s + 1) * Second = s * Second + Second
      BY <1>3, <2>1
    <3>3. r * Second \in Nat /\ s * Second \in Nat
      BY <1>3, <2>1
    <3> QED
      BY <1>3, <2>1, <3>1, <3>2, <3>3
  <2> QED
    BY <2>1, <2>2
<1> QED
  BY <1>4, <1>5

\* Later attempts wait at least as long.
LEMMA WaitsRise ==
  ASSUME backoff \in Backoffs, NEW m \in 1 .. MaxAttempts, NEW n \in 1 .. MaxAttempts, m <= n
  PROVE  VisibilitySeconds(ComputeRetryDelay(m)) <= VisibilitySeconds(ComputeRetryDelay(n))
<1> DEFINE c == ComputeRetryDelay(m)
           d == ComputeRetryDelay(n)
           b == Max({backoff.base, 0})
           p == Growth(backoff)^(m - 1)
           q == Growth(backoff)^(n - 1)
<1> SUFFICES VisibilitySeconds(c) <= VisibilitySeconds(d)
  OBVIOUS
<1>1. /\ Backoff(m) \in Nat /\ c \in Nat
      /\ c = Backoff(m) \/ (c = MaxInt64 /\ Backoff(m) > MaxInt64)
      /\ Exact(m) \in Nat
      /\ Backoff(m) = IF backoff.max > 0 /\ Exact(m) > backoff.max THEN backoff.max ELSE Exact(m)
  BY DelayOf
<1>2. /\ Backoff(n) \in Nat /\ d \in Nat
      /\ d = Backoff(n) \/ (d = MaxInt64 /\ Backoff(n) > MaxInt64)
      /\ Exact(n) \in Nat
      /\ Backoff(n) = IF backoff.max > 0 /\ Exact(n) > backoff.max THEN backoff.max ELSE Exact(n)
  BY DelayOf
<1>3. Exact(m) <= Exact(n)
  <2>1. m - 1 \in 0 .. MaxAttempts /\ n - 1 \in 0 .. MaxAttempts /\ n - 1 \in (m - 1) .. MaxAttempts
    BY LimitAssumption
  <2>2. p \in Nat /\ q \in Nat /\ p <= q
    BY <2>1, PowerAssumption
  <2>3. backoff.base \in Int
    BY BackoffAssumption
  <2>4. b \in Nat
    BY <2>3, MaxPair
  <2>5. Exact(m) = b * p /\ Exact(n) = b * q
    BY DEF Exact
  <2> HIDE DEF b, p, q
  <2> QED
    BY <2>2, <2>4, <2>5, Scaled
<1>4. backoff.max \in Int
  BY BackoffAssumption
<1> HIDE DEF c, d
<1>5. Backoff(m) <= Backoff(n)
  BY <1>1, <1>2, <1>3, <1>4
<1>6. MaxInt64 \in Nat
  BY DurationAssumption
<1>7. CASE d = Backoff(n)
  <2>1. c <= d
    BY <1>1, <1>2, <1>5, <1>6, <1>7
  <2> QED
    BY <1>1, <1>2, <2>1, SecondsRise
<1>8. CASE d = MaxInt64
  <2>1. d >= MaxVisibility * Second
    <3>1. Second \in Nat /\ MaxVisibility \in Nat /\ (MaxVisibility + 1) * Second <= MaxInt64
      BY DurationAssumption
    <3>2. (MaxVisibility + 1) * Second = MaxVisibility * Second + Second /\ MaxVisibility * Second \in Nat
      BY <3>1
    <3> QED
      BY <1>6, <1>8, <3>1, <3>2
  <2>2. VisibilitySeconds(d) = MaxVisibility
    BY <1>2, <2>1, Rounded
  <2>3. VisibilitySeconds(c) \in 0 .. MaxVisibility
    BY <1>1, Rounded
  <2> QED
    BY <2>2, <2>3, DurationAssumption
<1> QED
  BY <1>2, <1>7, <1>8

\* What a release asks for is the backoff of its attempts.
LEMMA WaitHonoured ==
  ASSUME backoff \in Backoffs, NEW n \in 1 .. MaxAttempts,
         NEW secs, secs = VisibilitySeconds(ComputeRetryDelay(n))
  PROVE  /\ secs \in 0 .. MaxVisibility
         /\ \/ secs = MaxVisibility /\ Backoff(n) > (secs - 1) * Second
            \/ secs * Second >= Backoff(n) /\ secs * Second < Backoff(n) + Second
<1> DEFINE d == ComputeRetryDelay(n)
<1>1. /\ Backoff(n) \in Nat /\ d \in Nat
      /\ d = Backoff(n) \/ (d = MaxInt64 /\ Backoff(n) > MaxInt64)
  BY DelayOf
<1>2. /\ secs \in 0 .. MaxVisibility
      /\ d >= MaxVisibility * Second => secs = MaxVisibility
      /\ \/ secs = MaxVisibility /\ d >= MaxVisibility * Second
         \/ secs * Second >= d /\ secs * Second < d + Second
  BY <1>1, Rounded
<1>3. /\ Second \in Nat \ {0} /\ MaxVisibility \in Nat /\ MaxInt64 \in Nat
      /\ (MaxVisibility + 1) * Second <= MaxInt64
  BY DurationAssumption
<1> HIDE DEF d
<1>4. /\ MaxVisibility * Second \in Nat
      /\ (MaxVisibility + 1) * Second = MaxVisibility * Second + Second
      /\ (MaxVisibility - 1) * Second = MaxVisibility * Second - Second
  BY <1>3
<1>5. CASE d >= MaxVisibility * Second
  BY <1>1, <1>2, <1>3, <1>4, <1>5
<1>6. CASE ~(d >= MaxVisibility * Second)
  BY <1>1, <1>2, <1>3, <1>4, <1>6
<1> QED
  BY <1>5, <1>6

-----------------------------------------------------------------------------
(* The releases in place.                                                   *)

\* Nothing released, and the attempts no lower than before.
LEMMA NoRelease ==
  ASSUME ReleaseInv, due \in Int, UNCHANGED <<backoff, hidden>>, NEW du \in Int, due' = du, due <= du
  PROVE  ReleaseInv'
<1>1. \A i \in DOMAIN hidden : hidden[i][1] \in Int /\ hidden[i][1] <= du + 1
  BY DEF ReleaseInv
<1>2. \A n : Released(n)' = Released(n)
  BY DEF Released, ComputeRetryDelay
<1> QED
  BY <1>1, <1>2 DEF ReleaseInv

\* A release in place counts on, below MaxAttempts, and asks for the backoff of its attempts.
LEMMA RetryRelease == IInv /\ ReleaseInv /\ Retry => ReleaseInv'
<1> SUFFICES ASSUME IInv, ReleaseInv, Retry
             PROVE  ReleaseInv'
  OBVIOUS
<1>1. pc = "running" /\ Runs(job)
  BY DEF Retry
<1>2. /\ t \in Six /\ job.attempts = Due(t, msg) /\ job.attempts \in Int /\ job.attempts >= -1
      /\ Due(t, msg) >= due /\ Decodes(msg.body) /\ RecordOK(msg)
  BY <1>1, Running
<1>3. due \in Int
  BY DEF IInv, ShapeInv
<1> DEFINE n == job.attempts + 1
<1>4. n < MaxAttempts
  BY DEF Retry
<1>5. CASE t # "sqs"
  <2>1. due' = n /\ UNCHANGED <<backoff, hidden>>
    BY <1>5 DEF Retry, Settled
  <2>2. n \in Int /\ due <= n
    BY <1>2, <1>3
  <2> HIDE DEF n
  <2> QED
    BY <1>3, <2>1, <2>2, NoRelease
<1>6. CASE t = "sqs"
  <2>1. /\ hidden' = Append(hidden, Released(n)) /\ due' = job.attempts /\ UNCHANGED backoff
    BY <1>6 DEF Retry, Settled, Released
  <2>2. Due(t, msg) >= msg.count /\ msg.count \in Nat
    BY <1>2, <1>6, DueRange DEF RecordOK
  <2>3. n \in 1 .. MaxAttempts
    BY <1>2, <1>4, <2>2, LimitAssumption
  <2>4. Released(n)[1] = n /\ \A k : Released(k)' = Released(k)
    BY <2>1 DEF Released, ComputeRetryDelay
  <2>5. PICK x : x = Released(n)
    OBVIOUS
  <2>6. \A i \in DOMAIN hidden : hidden[i][1] \in 1 .. MaxAttempts /\ hidden[i][1] <= n
    BY <1>2, <1>3 DEF ReleaseInv
  <2> DEFINE h == Append(hidden, x)
  <2>7. /\ hidden \in Seq(Range(hidden)) /\ Len(hidden) \in Nat /\ DOMAIN hidden = 1 .. Len(hidden)
        /\ h \in Seq(Range(hidden) \cup {x})
        /\ DOMAIN h = 1 .. (Len(hidden) + 1)
        /\ \A i \in DOMAIN hidden : h[i] = hidden[i]
        /\ h[Len(hidden) + 1] = x
    BY DEF ReleaseInv
  <2>8. h \in Seq(Range(h))
    BY <2>7, ASequence DEF IsSequence
  <2> HIDE DEF h, n
  <2>9. \A i \in DOMAIN h : i \in DOMAIN hidden \/ i = Len(hidden) + 1
    BY <2>7
  <2>10. x[1] = n /\ n \in Int /\ n = due' + 1
    BY <1>2, <2>1, <2>3, <2>4, <2>5 DEF n
  <2>11. ASSUME NEW i \in DOMAIN h
         PROVE  h[i][1] \in 1 .. MaxAttempts /\ h[i] = Released(h[i][1]) /\ h[i][1] <= n
    <3>1. CASE i \in DOMAIN hidden
      BY <2>6, <2>7, <3>1 DEF ReleaseInv
    <3>2. CASE i = Len(hidden) + 1
      <4>1. h[i] = x
        BY <2>7, <3>2
      <4> QED
        BY <2>3, <2>5, <2>10, <4>1
    <3> QED
      BY <2>9, <3>1, <3>2
  <2>12. ASSUME NEW i \in DOMAIN h, NEW j \in DOMAIN h, i < j
         PROVE  h[i][1] <= h[j][1]
    <3>1. CASE j \in DOMAIN hidden
      <4>1. i \in DOMAIN hidden
        BY <2>7, <2>9, <2>12, <3>1
      <4> QED
        BY <2>7, <2>12, <3>1, <4>1 DEF ReleaseInv
    <3>2. CASE j = Len(hidden) + 1
      <4>1. h[j][1] = n
        BY <2>7, <2>10, <3>2
      <4> QED
        BY <2>11, <4>1
    <3> QED
      BY <2>9, <3>1, <3>2
  <2>13. hidden' = h
    BY <2>1, <2>5 DEF h
  <2> QED
    BY <2>4, <2>8, <2>10, <2>11, <2>12, <2>13 DEF ReleaseInv
<1> QED
  BY <1>5, <1>6

\* Every step keeps the invariant of the releases.
LEMMA NextRelease == IInv /\ ReleaseInv /\ [Next]_vars => ReleaseInv'
<1> SUFFICES ASSUME IInv, ReleaseInv, [Next]_vars
             PROVE  ReleaseInv'
  OBVIOUS
<1>1. due \in Int
  BY DEF IInv, ShapeInv
<1>2. CASE UNCHANGED <<backoff, hidden, due>>
  <2>1. due' = due /\ due <= due
    BY <1>1, <1>2
  <2> QED
    BY <1>1, <1>2, <2>1, NoRelease
<1>3. CASE \E data \in Payloads, meta \in Meta, version \in {Null, Str("2")} : Produce(data, meta, version)
  BY <1>2, <1>3 DEF Produce
<1>4. CASE \E f \in Foreign[t] : ForeignPublish(f)
  BY <1>2, <1>4 DEF ForeignPublish
<1>5. CASE Consume
  BY <1>2, <1>5 DEF Consume
<1>6. CASE DeadLetterGated \/ DeadLetterPoison \/ DeadLetterFailed
  BY <1>2, <1>6 DEF DeadLetterGated, DeadLetterPoison, DeadLetterFailed, Settled
<1>7. CASE HandlerOk \/ DrainLapse
  BY <1>2, <1>7 DEF HandlerOk, DrainLapse, history
<1>8. CASE Retry
  BY <1>8, RetryRelease
<1>9. CASE Lapse
  <2> DEFINE du == IF Runs(job) THEN job.attempts ELSE due
  <2>1. pc = "running" /\ due' = du /\ UNCHANGED <<backoff, hidden>>
    BY <1>9 DEF Lapse
  <2>2. Runs(job) => job.attempts \in Int /\ job.attempts >= due
    BY <2>1, Running
  <2>3. du \in Int /\ due <= du
    BY <1>1, <2>2
  <2> HIDE DEF du
  <2> QED
    BY <1>1, <2>1, <2>3, NoRelease
<1>10. CASE \E selected \in BOOLEAN : Restore(selected)
  BY <1>2, <1>10 DEF Restore, history
<1>11. CASE \E toQueue \in {"", "q"}, bypass \in BOOLEAN : Redrive(toQueue, bypass)
  <2>1. hidden' = <<>>
    BY <1>11 DEF Redrive
  <2>2. DOMAIN <<>> = {} /\ <<>> \in Seq(Range(<<>>))
    OBVIOUS
  <2> QED
    BY <2>1, <2>2 DEF ReleaseInv
<1>12. CASE UNCHANGED vars
  BY <1>2, <1>12 DEF vars
<1> QED
  BY <1>3, <1>4, <1>5, <1>6, <1>7, <1>8, <1>9, <1>10, <1>11, <1>12 DEF Next

\* The invariants of the releases hold in every reachable state.
LEMMA ReleaseInvariance == Spec => [](IInv /\ ReleaseInv)
<1>1. Init => ReleaseInv
  <2>1. DOMAIN <<>> = {} /\ <<>> \in Seq(Range(<<>>))
    OBVIOUS
  <2> QED
    BY <2>1 DEF Init, ReleaseInv
<1> QED
  BY <1>1, InitIInv, NextIInv, NextRelease, PTL DEF Spec

\* Each release in place asks SQS for the backoff of its attempts, rounded up to a second
\* and clamped before the sum could overflow, and a later one never for less.
THEOREM BackoffsHonoured == Spec => []BackoffHonoured
<1>1. IInv /\ ReleaseInv => BackoffHonoured
  <2> SUFFICES ASSUME IInv, ReleaseInv
               PROVE  BackoffHonoured
    OBVIOUS
  <2>1. backoff \in Backoffs
    BY DEF IInv, ShapeInv
  <2>2. \A i \in DOMAIN hidden :
          /\ hidden[i][1] \in 1 .. MaxAttempts
          /\ hidden[i][2] = VisibilitySeconds(ComputeRetryDelay(hidden[i][1]))
    BY DEF ReleaseInv, Released
  <2>3. ASSUME NEW i \in DOMAIN hidden
        PROVE  LET n == hidden[i][1]
                   secs == hidden[i][2]
               IN \/ secs = MaxVisibility /\ Backoff(n) > (secs - 1) * Second
                  \/ secs * Second >= Backoff(n) /\ secs * Second < Backoff(n) + Second
    BY <2>1, <2>2, WaitHonoured
  <2>4. ASSUME NEW i \in DOMAIN hidden, NEW j \in DOMAIN hidden, i < j
        PROVE  hidden[i][2] <= hidden[j][2]
    <3>1. hidden[i][1] <= hidden[j][1]
      BY <2>4 DEF ReleaseInv
    <3> QED
      BY <2>1, <2>2, <3>1, WaitsRise
  <2> QED
    BY <2>3, <2>4 DEF BackoffHonoured
<1> QED
  BY <1>1, ReleaseInvariance, PTL

\* The shape of the record and of the delivery, the queues a message may reach, and the
\* range of what Release asks for.
THEOREM TypeCorrect == Spec => []TypeOK
<1>1. IInv /\ ReleaseInv => TypeOK
  <2> SUFFICES ASSUME IInv, ReleaseInv
               PROVE  TypeOK
    OBVIOUS
  <2>1. Stored(msg) /\ RecordOK(msg) /\ PropsOK(msg.props)
    BY DEF IInv, ShapeInv, Stored, RecordOK
  <2>2. msg.at \in QueuesNamed(origin)
    <3>1. CASE pc = "start"
      BY <3>1 DEF IInv, StartInv, QueuesNamed
    <3>2. CASE pc # "start"
      BY <3>2 DEF IInv, LifeInv, Kept, Carries, QueuesNamed
    <3> QED
      BY <3>1, <3>2
  <2>3. DOMAIN msg.props = PropertyNames
    BY <2>1 DEF PropsOK
  <2>4. \A k \in PropertyNames : msg.props[k].is \in {"null", "string", "text", "number", "array"}
    BY <2>1 DEF PropsOK
  <2>5. backoff \in Backoffs
    BY DEF IInv, ShapeInv
  <2>6. \A i \in DOMAIN hidden : hidden[i] \in (1 .. MaxAttempts) \X (0 .. MaxVisibility)
    <3> TAKE i \in DOMAIN hidden
    <3>1. PICK n \in 1 .. MaxAttempts : hidden[i] = << n, VisibilitySeconds(ComputeRetryDelay(n)) >>
      BY DEF ReleaseInv, Released
    <3>2. VisibilitySeconds(ComputeRetryDelay(n)) \in 0 .. MaxVisibility
      BY <2>5, WaitHonoured
    <3> QED
      BY <3>1, <3>2
  <2>7. /\ pc \in {"start", "queued", "running", "done"}
        /\ msg.key \in {"", "k"} /\ msg.count \in Nat
        /\ job.attempts \in Int /\ job.deliveries \in Nat
        /\ job.route.is \in {"null", "string", "gate"}
    BY <2>1 DEF IInv, ShapeInv, Stored, RecordOK
  <2> QED
    BY <2>2, <2>3, <2>4, <2>6, <2>7 DEF TypeOK
<1> QED
  BY <1>1, ReleaseInvariance, PTL
=============================================================================
