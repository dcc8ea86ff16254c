------------------------- MODULE IdempotencyProofs -------------------------
(***************************************************************************)
(* Proofs about Idempotency: type correctness, that the guard never        *)
(* acknowledges a message whose handler has not succeeded, and the bound   *)
(* on reruns.                                                              *)
(***************************************************************************)
EXTENDS Idempotency, FiniteSetTheorems, TLAPS

LEMMA InitIInv == Init => IInv
BY ConstantsAssumption DEF Init, IInv, TypeOK, RememberedWasRun, SkippedWasRun

(* Every step of a consumer, of the store and of the broker preserves the   *)
(* invariant.                                                               *)
LEMMA NextIInv == IInv /\ [Next]_vars => IInv'
<1> SUFFICES ASSUME IInv, [Next]_vars PROVE IInv'
  OBVIOUS
<1> USE ConstantsAssumption
<1> USE DEF IInv, TypeOK, RememberedWasRun, SkippedWasRun
<1>1. ASSUME NEW c \in Consumer, NEW m \in Msg, Deliver(c, m) PROVE IInv'
  BY <1>1 DEF Deliver, Goto
<1>2. ASSUME NEW c \in Consumer, Seen(c) PROVE IInv'
  BY <1>2 DEF Seen, ReturnNil, ReturnError, Goto, Fault, NoFault
<1>3. ASSUME NEW c \in Consumer, Run(c) PROVE IInv'
  <2>1. CASE runs' = [runs EXCEPT ![job[c]] = @ + 1]
    <3>1. /\ runs' \in [Msg -> Nat]
          /\ runs'[job[c]] > 0
          /\ \A m \in Msg : runs[m] > 0 => runs'[m] > 0
      BY <2>1
    <3>2. QED BY <1>3, <3>1 DEF Run, ReturnNil, ReturnError, Goto
  <2>2. CASE UNCHANGED runs /\ ReturnError(c)
    BY <1>3, <2>2 DEF Run, ReturnError, Goto
  <2>3. QED BY <1>3, <2>1, <2>2 DEF Run
<1>4. ASSUME NEW c \in Consumer, Remember(c) PROVE IInv'
  BY <1>4 DEF Remember, ReturnNil, Goto, Fault, NoFault
<1>5. ASSUME NEW c \in Consumer, Crash(c) PROVE IInv'
  BY <1>5 DEF Crash, Goto, Fault
<1>6. ASSUME NEW m \in Msg, Evict(m) PROVE IInv'
  BY <1>6 DEF Evict, Fault
<1>7. CASE UNCHANGED vars
  BY <1>7 DEF vars
<1>8. QED BY <1>1, <1>2, <1>3, <1>4, <1>5, <1>6, <1>7 DEF Next

(* The invariant holds in every reachable state.                            *)
LEMMA InvariantHolds == Spec => []IInv
BY InitIInv, NextIInv, PTL DEF Spec

(* Store, consumers and counters keep their types: an empty id is neither   *)
(* looked up nor remembered.                                                *)
THEOREM TypeCorrect == Spec => []TypeOK
BY InvariantHolds, PTL DEF IInv

(* For every set of consumers and messages and every fault, a delivery that *)
(* Wrap acknowledges belongs to a message whose handler succeeded.          *)
THEOREM GuardSkipsOnlyRun == Spec => []SkippedWasRun
BY InvariantHolds, PTL DEF IInv

-----------------------------------------------------------------------------
(* The bound on reruns.                                                     *)

LEMMA WidthNat == Width \in Nat
BY ConstantsAssumption, FS_CardinalityType DEF Width

(* One more fault allows one more run of every consumer.                    *)
LEMMA NextFault ==
  ASSUME NEW n \in Nat, NEW f \in Nat
  PROVE  n * f \in Nat /\ n * (1 + f) = n * f + n /\ n * (1 + (f + 1)) = n * (f + 1) + n
BY Z3

(* Disjoint subsets of a finite set do not outnumber it.                    *)
LEMMA DisjointSubsets ==
  ASSUME NEW S, IsFiniteSet(S), NEW A \in SUBSET S, NEW B \in SUBSET S, A \cap B = {}
  PROVE  /\ IsFiniteSet(A) /\ IsFiniteSet(B)
         /\ Cardinality(A) \in Nat /\ Cardinality(B) \in Nat /\ Cardinality(S) \in Nat
         /\ Cardinality(A) + Cardinality(B) <= Cardinality(S)
<1>1. IsFiniteSet(A) /\ IsFiniteSet(B)
  BY FS_Subset
<1>2. IsFiniteSet(A \cup B) /\ Cardinality(A \cup B) <= Cardinality(S)
  BY FS_Subset
<1>3. Cardinality(A) \in Nat /\ Cardinality(B) \in Nat /\ Cardinality(S) \in Nat
  BY <1>1, FS_CardinalityType
<1>4. Cardinality(A \cap B) = 0
  BY FS_EmptySet
<1>5. Cardinality(A \cup B) = Cardinality(A) + Cardinality(B) - Cardinality(A \cap B)
  BY <1>1, FS_Union
<1>6. QED BY <1>1, <1>2, <1>3, <1>4, <1>5

(* The consumers of a message at two different steps are different ones.    *)
LEMMA StepsDisjoint ==
  ASSUME NEW m
  PROVE  /\ IsFiniteSet(At(m, "run")) /\ IsFiniteSet(At(m, "remember"))
         /\ Cardinality(At(m, "run")) \in Nat /\ Cardinality(At(m, "remember")) \in Nat
         /\ Cardinality(At(m, "run")) + Cardinality(At(m, "remember")) <= Width
<1>1. /\ At(m, "run") \in SUBSET Consumer /\ At(m, "remember") \in SUBSET Consumer
      /\ At(m, "run") \cap At(m, "remember") = {}
  BY DEF At
<1>2. QED BY <1>1, DisjointSubsets, ConstantsAssumption DEF Width

(* Only the consumer that takes a step is counted differently, under its    *)
(* own message.                                                             *)
LEMMA StepCounts ==
  ASSUME TypeOK, NEW c \in Consumer, NEW step, Goto(c, step), UNCHANGED job, step # pc[c],
         NEW m, NEW s \in {"run", "remember"}
  PROVE  Cardinality(At(m, s)') =
           IF m = job[c] /\ s = step THEN Cardinality(At(m, s)) + 1
           ELSE IF m = job[c] /\ s = pc[c] THEN Cardinality(At(m, s)) - 1
           ELSE Cardinality(At(m, s))
<1>1. \A k \in Consumer : pc'[k] = IF k = c THEN step ELSE pc[k]
  BY DEF Goto, TypeOK
<1>2. IsFiniteSet(At(m, s))
  BY StepsDisjoint
<1>3. CASE m = job[c] /\ s = step
  <2>1. At(m, s)' = At(m, s) \cup {c} /\ c \notin At(m, s)
    BY <1>1, <1>3 DEF At
  <2>2. QED BY <1>2, <1>3, <2>1, FS_AddElement
<1>4. CASE m = job[c] /\ s # step /\ s = pc[c]
  <2>1. At(m, s)' = At(m, s) \ {c} /\ c \in At(m, s)
    BY <1>1, <1>4 DEF At
  <2>2. QED BY <1>2, <1>4, <2>1, FS_RemoveElement
<1>5. CASE m # job[c] \/ (s # step /\ s # pc[c])
  <2>1. At(m, s)' = At(m, s)
    BY <1>1, <1>5 DEF At
  <2>2. QED BY <1>5, <2>1
<1>6. QED BY <1>3, <1>4, <1>5

LEMMA InitReruns == Init => RerunsCounted
<1> SUFFICES ASSUME Init, NEW m \in Msg \ NoId
             PROVE  runs[m] <= Width * faults + Cardinality(At(m, "remember"))
  BY DEF RerunsCounted, Init
<1>1. Width * 0 = 0
  BY WidthNat
<1>2. QED BY <1>1, StepsDisjoint DEF Init

(* Every step preserves the count of reruns.                                *)
LEMMA NextReruns == IInv /\ RerunsCounted /\ [Next]_vars => RerunsCounted'
<1> SUFFICES ASSUME IInv, RerunsCounted, [Next]_vars, NEW m \in Msg \ NoId
             PROVE  IF m \in remembered'
                    THEN runs'[m] + Cardinality(At(m, "run")') <= Width * (1 + faults')
                    ELSE runs'[m] <= Width * faults' + Cardinality(At(m, "remember")')
  BY DEF RerunsCounted
<1> DEFINE R  == Cardinality(At(m, "run"))
           M  == Cardinality(At(m, "remember"))
           R1 == Cardinality(At(m, "run")')
           M1 == Cardinality(At(m, "remember")')
           W  == Width * faults
<1>a. TypeOK /\ runs[m] \in Nat /\ faults \in Nat
  BY ConstantsAssumption DEF IInv, TypeOK
<1>b. R \in Nat /\ M \in Nat /\ R + M <= Width /\ Width \in Nat
  BY StepsDisjoint, WidthNat
<1>c. R1 \in Nat /\ M1 \in Nat
  <2>1. At(m, "run")' \in SUBSET Consumer /\ At(m, "remember")' \in SUBSET Consumer
    BY DEF At
  <2>2. QED BY <2>1, FS_Subset, FS_CardinalityType, ConstantsAssumption
<1>d. W \in Nat /\ Width * (1 + faults) = W + Width
  BY <1>a, <1>b, NextFault
<1>e. faults' = faults + 1 =>
        Width * faults' = W + Width /\ Width * (1 + faults') = W + Width + Width
  <2>1. faults + 1 = 1 + faults
    BY <1>a
  <2>2. QED BY <1>a, <1>b, <1>d, <2>1, NextFault
<1>f. IF m \in remembered THEN runs[m] + R <= W + Width ELSE runs[m] <= W + M
  BY <1>d DEF RerunsCounted
(* A fault pays for whatever the count was, as long as the run count and    *)
(* the running consumers do not grow.                                       *)
<1>g. ASSUME faults' = faults + 1, runs' = runs, R1 <= R
      PROVE  /\ runs'[m] + R1 <= Width * (1 + faults')
             /\ runs'[m] <= Width * faults' + M1
  <2> HIDE DEF R, M, R1, M1, W
  <2>1. QED BY <1>a, <1>b, <1>c, <1>d, <1>e, <1>f, <1>g
(* Without one the set the count depends on has to stay.                    *)
<1>h. ASSUME faults' = faults, runs' = runs, remembered' = remembered,
             m \in remembered => R1 <= R, M1 >= M
      PROVE  IF m \in remembered' THEN runs'[m] + R1 <= Width * (1 + faults')
                                   ELSE runs'[m] <= Width * faults' + M1
  <2> HIDE DEF R, M, R1, M1
  <2>1. QED BY <1>a, <1>b, <1>c, <1>d, <1>f, <1>h
<1>1. ASSUME NEW c \in Consumer, NEW k \in Msg, Deliver(c, k)
      PROVE  R1 = R /\ M1 = M
  <2>1. At(m, "run")' = At(m, "run") /\ At(m, "remember")' = At(m, "remember")
    BY <1>1, <1>a DEF Deliver, Goto, At, TypeOK
  <2>2. QED BY <2>1
<1>2. ASSUME NEW c \in Consumer, Seen(c)
      PROVE  M1 = M /\ R1 <= (IF m \in remembered \/ faults' # faults THEN R ELSE R + 1)
  <2>1. CASE Goto(c, "idle")
    BY <1>2, <2>1, <1>a, <1>b, StepCounts DEF Seen
  <2>2. CASE job[c] \notin remembered /\ Goto(c, "run") /\ NoFault
    BY <1>2, <2>2, <1>a, <1>b, StepCounts DEF Seen, NoFault
  <2>3. QED BY <1>2, <2>1, <2>2 DEF Seen, ReturnNil, ReturnError
<1>3. ASSUME NEW c \in Consumer, Run(c)
      PROVE  IF m \in remembered' THEN runs'[m] + R1 <= Width * (1 + faults')
                                   ELSE runs'[m] <= Width * faults' + M1
  <2>1. CASE Goto(c, "idle") /\ runs' = runs
    <3>1. M1 = M /\ R1 <= R
      BY <1>3, <2>1, <1>a, <1>b, StepCounts DEF Run
    <3>2. QED BY <1>3, <2>1, <3>1, <1>b, <1>h DEF Run
  <2>2. CASE /\ runs' = [runs EXCEPT ![job[c]] = @ + 1]
             /\ job[c] \in NoId => Goto(c, "idle")
             /\ job[c] \notin NoId => Goto(c, "remember")
    <3>1. CASE m # job[c]
      <4>1. M1 = M /\ R1 = R
        BY <1>3, <2>2, <3>1, <1>a, <1>b, StepCounts DEF Run
      <4>2. runs'[m] = runs[m]
        BY <2>2, <3>1, <1>a DEF TypeOK
      <4>3. QED BY <1>3, <4>1, <4>2, <1>d, <1>f DEF Run
    <3>2. CASE m = job[c]
      <4>1. M1 = M + 1 /\ R1 = R - 1
        BY <1>3, <2>2, <3>2, <1>a, <1>b, StepCounts DEF Run
      <4>2. runs'[m] = runs[m] + 1
        BY <2>2, <3>2, <1>a DEF TypeOK
      <4>3. UNCHANGED <<remembered, faults>>
        BY <1>3 DEF Run
      <4> HIDE DEF R, M, R1, M1, W
      <4>4. QED BY <4>1, <4>2, <4>3, <1>a, <1>b, <1>d, <1>f DEF W
    <3>3. QED BY <3>1, <3>2
  <2>3. QED BY <1>3, <2>1, <2>2 DEF Run, ReturnNil, ReturnError
<1>4. ASSUME NEW c \in Consumer, Remember(c)
      PROVE  IF m \in remembered' THEN runs'[m] + R1 <= Width * (1 + faults')
                                   ELSE runs'[m] <= Width * faults' + M1
  <2>1. /\ R1 = R
        /\ M1 = IF m = job[c] THEN M - 1 ELSE M
    BY <1>4, <1>a, <1>b, StepCounts DEF Remember, ReturnNil
  <2>2. CASE UNCHANGED remembered /\ Fault
    BY <1>4, <2>1, <2>2, <1>b, <1>g DEF Remember, Fault
  <2>3. CASE remembered' = remembered \cup {job[c]} /\ NoFault
    <3>1. CASE m # job[c]
      BY <1>4, <2>1, <2>3, <3>1, <1>a, <1>b, <1>d, <1>f DEF Remember, NoFault
    <3>2. CASE m = job[c]
      <4>1. m \in remembered' /\ runs' = runs /\ faults' = faults
        BY <1>4, <2>3, <3>2 DEF Remember, NoFault
      <4> HIDE DEF R, M, R1, M1, W
      <4>2. QED BY <4>1, <2>1, <1>a, <1>b, <1>d, <1>f
    <3>3. QED BY <3>1, <3>2
  <2>4. QED BY <1>4, <2>2, <2>3 DEF Remember
<1>5. ASSUME NEW c \in Consumer, Crash(c) PROVE R1 <= R
  BY <1>5, <1>a, <1>b, StepCounts DEF Crash
<1>6. ASSUME NEW k \in Msg, Evict(k) PROVE R1 = R
  BY <1>6 DEF Evict, At
<1>7. CASE UNCHANGED vars
  <2>1. At(m, "run")' = At(m, "run") /\ At(m, "remember")' = At(m, "remember")
    BY <1>7 DEF vars, At
  <2>2. QED BY <1>7, <2>1, <1>b, <1>h DEF vars
<1> DEFINE Kept == IF m \in remembered' THEN runs'[m] + R1 <= Width * (1 + faults')
                                         ELSE runs'[m] <= Width * faults' + M1
<1>8. ASSUME NEW c \in Consumer, NEW k \in Msg, Deliver(c, k) PROVE Kept
  <2>1. R1 <= R /\ M1 >= M
    BY <1>8, <1>1, <1>b
  <2>2. UNCHANGED <<remembered, runs, faults>>
    BY <1>8 DEF Deliver
  <2>3. QED BY <2>1, <2>2, <1>h
<1>9. ASSUME NEW c \in Consumer, Seen(c) PROVE Kept
  <2>1. UNCHANGED <<remembered, runs>> /\ (faults' = faults \/ faults' = faults + 1)
    BY <1>9 DEF Seen, Fault, NoFault
  <2>2. CASE faults' = faults
    <3>1. M1 = M /\ (m \in remembered => R1 <= R)
      BY <1>9, <1>2
    <3>2. QED BY <2>1, <2>2, <3>1, <1>b, <1>h
  <2>3. CASE faults' = faults + 1
    <3>1. R1 <= R
      BY <1>9, <1>2, <2>3, <1>a
    <3>2. QED BY <2>1, <2>3, <3>1, <1>g
  <2>4. QED BY <2>1, <2>2, <2>3
<1>10. ASSUME NEW c \in Consumer, Crash(c) PROVE Kept
  BY <1>10, <1>5, <1>g DEF Crash, Fault
<1>11. ASSUME NEW k \in Msg, Evict(k) PROVE Kept
  BY <1>11, <1>6, <1>b, <1>g DEF Evict, Fault
<1>12. QED BY <1>3, <1>4, <1>7, <1>8, <1>9, <1>10, <1>11 DEF Next

(* For every number of consumers, deliveries and faults, a message with an  *)
(* id runs at most once per consumer, and once more per consumer after each *)
(* failed mark, crash or eviction.                                          *)
THEOREM RerunsBounded == Spec => []BoundedReruns
<1>1. IInv /\ RerunsCounted => BoundedReruns
  <2> SUFFICES ASSUME IInv, RerunsCounted, NEW m \in Msg \ NoId
               PROVE  runs[m] <= Width * (1 + faults)
    BY DEF BoundedReruns, Width
  <2>1. runs[m] \in Nat /\ faults \in Nat
    BY ConstantsAssumption DEF IInv, TypeOK
  <2>2. Width * faults \in Nat /\ Width * (1 + faults) = Width * faults + Width
    BY <2>1, WidthNat, NextFault
  <2>3. QED BY <2>1, <2>2, WidthNat, StepsDisjoint DEF RerunsCounted
<1>2. QED BY <1>1, InvariantHolds, InitReruns, NextReruns, PTL DEF Spec
=============================================================================
