---------------------------- MODULE OutboxProofs ----------------------------
(***************************************************************************)
(* Proofs about Outbox: type correctness, that a row is marked published   *)
(* only after the broker took its message, and the bound on duplicates.    *)
(***************************************************************************)
EXTENDS Outbox, FiniteSetTheorems, TLAPS

(* FetchUnpublished hands out rows that were written.                       *)
LEMMA OldestRows ==
  ASSUME TypeOK
  PROVE  Oldest(Pending) \in SUBSET Row
<1>1. \A x \in 1..written : x \in Row
  BY RowsAssumption DEF TypeOK, Row
<1>2. QED BY <1>1 DEF Oldest, Pending

LEMMA InitIInv == Init => IInv
BY RowsAssumption, RelayAssumption
   DEF Init, IInv, TypeOK, PassLeft, AcceptedWasSent, MarkedWasSent

(* A step that publishes x leaves what was sent before sent.                *)
LEMMA SentGrows ==
  ASSUME TypeOK, NEW x \in Row, Sent(x)
  PROVE  /\ sent' \in [Row -> Nat]
         /\ sent'[x] > 0
         /\ \A y \in Row : sent[y] > 0 => sent'[y] > 0
BY DEF TypeOK, Sent

(* Every step of the relays and of the writer preserves the invariant.      *)
LEMMA NextIInv == IInv /\ [Next]_vars => IInv'
<1> SUFFICES ASSUME IInv, [Next]_vars PROVE IInv'
  OBVIOUS
<1> USE RowsAssumption, RelayAssumption
<1> USE DEF IInv
<1>1. CASE Write
  BY <1>1 DEF Write, TypeOK, PassLeft, AcceptedWasSent, MarkedWasSent, drains
<1>2. ASSUME NEW r \in Relay, Drain(r) PROVE IInv'
  BY <1>2 DEF Drain, TypeOK, PassLeft, AcceptedWasSent, MarkedWasSent, Goto, store, drains
<1>3. ASSUME NEW r \in Relay, Fetch(r) PROVE IInv'
  <2>1. TypeOK'
    BY <1>3, OldestRows DEF Fetch, TypeOK, PassLeft, Goto, Fault, NoFault, store
  <2>2. PassLeft' /\ AcceptedWasSent' /\ MarkedWasSent'
    BY <1>3 DEF Fetch, TypeOK, PassLeft, AcceptedWasSent, MarkedWasSent, Goto, store
  <2>3. QED BY <2>1, <2>2
<1>4. ASSUME NEW r \in Relay, NEW x \in Row, Publish(r, x) PROVE IInv'
  <2>1. TypeOK'
    BY <1>4, SentGrows DEF Publish, TypeOK, Advance, Goto, store, drains
  <2>2. PassLeft'
    BY <1>4 DEF Publish, TypeOK, PassLeft, Advance, Goto
  <2>3. AcceptedWasSent' /\ MarkedWasSent'
    BY <1>4, SentGrows DEF Publish, TypeOK, AcceptedWasSent, MarkedWasSent, store
  <2>4. QED BY <2>1, <2>2, <2>3
<1>5. ASSUME NEW r \in Relay, NEW x \in Row, PublishError(r, x) PROVE IInv'
  <2>1. sent' \in [Row -> Nat] /\ \A y \in Row : sent[y] > 0 => sent'[y] > 0
    BY <1>5, SentGrows DEF PublishError, TypeOK
  <2>2. TypeOK' /\ PassLeft'
    BY <1>5, <2>1 DEF PublishError, TypeOK, PassLeft, Goto, Fault, NoFault, store, drains
  <2>3. AcceptedWasSent' /\ MarkedWasSent'
    BY <1>5, <2>1 DEF PublishError, TypeOK, AcceptedWasSent, MarkedWasSent, store
  <2>4. QED BY <2>2, <2>3
<1>6. ASSUME NEW r \in Relay, NEW x \in Row, MarkFailed(r, x) PROVE IInv'
  <2>1. TypeOK'
    BY <1>6 DEF MarkFailed, TypeOK, Advance, Counted, Goto, Fault, NoFault, drains
  <2>2. PassLeft' /\ AcceptedWasSent' /\ MarkedWasSent'
    BY <1>6 DEF MarkFailed, TypeOK, PassLeft, AcceptedWasSent, MarkedWasSent, Advance, Goto
  <2>3. QED BY <2>1, <2>2
<1>7. ASSUME NEW r \in Relay, MarkPublished(r) PROVE IInv'
  <2>1. Pending \in SUBSET Row
    BY DEF Pending, TypeOK, Row
  <2>2. TypeOK'
    BY <1>7, <2>1 DEF MarkPublished, TypeOK, Goto, Fault, NoFault
  <2>3. PassLeft' /\ AcceptedWasSent' /\ MarkedWasSent'
    BY <1>7 DEF MarkPublished, TypeOK, PassLeft, AcceptedWasSent, MarkedWasSent, Goto
  <2>4. QED BY <2>2, <2>3
<1>8. ASSUME NEW r \in Relay, Crash(r) PROVE IInv'
  BY <1>8 DEF Crash, TypeOK, PassLeft, AcceptedWasSent, MarkedWasSent, Goto, Fault, store, drains
<1>9. CASE UNCHANGED vars
  BY <1>9 DEF vars, TypeOK, PassLeft, AcceptedWasSent, MarkedWasSent
<1>10. QED BY <1>1, <1>2, <1>3, <1>4, <1>5, <1>6, <1>7, <1>8, <1>9 DEF Next, Flush

(* The invariant holds in every reachable state.                            *)
LEMMA InvariantHolds == Spec => []IInv
BY InitIInv, NextIInv, PTL DEF Spec

(* The store and the relays keep their types; the passes stay under Drain's *)
(* ceiling.                                                                 *)
THEOREM TypeCorrect == Spec => []TypeOK
BY InvariantHolds, PTL DEF IInv

(* For every number of relays, rows, batch size and fault, a row marked     *)
(* published was taken by the broker: the relay never drops a message.      *)
THEOREM MarkedRowsWereSent == Spec => []MarkedWasSent
BY InvariantHolds, PTL DEF IInv

-----------------------------------------------------------------------------
(* The bound on duplicates.                                                 *)

(* Sets of relays are finite, and disjoint ones do not outnumber Relay.     *)
LEMMA RelaySets ==
  ASSUME NEW A \in SUBSET Relay, NEW B \in SUBSET Relay
  PROVE  /\ IsFiniteSet(A) /\ Cardinality(A) \in Nat /\ Cardinality(Relay) \in Nat
         /\ Cardinality(A) <= Cardinality(Relay)
         /\ A \cap B = {} => Cardinality(A) + Cardinality(B) <= Cardinality(Relay)
<1>1. IsFiniteSet(A) /\ IsFiniteSet(B) /\ IsFiniteSet(Relay)
  BY FS_Subset, RelayAssumption
<1>2. Cardinality(A) <= Cardinality(Relay) /\ Cardinality(A \cup B) <= Cardinality(Relay)
  BY <1>1, FS_Subset
<1>3. Cardinality(A) \in Nat /\ Cardinality(B) \in Nat /\ Cardinality(Relay) \in Nat
  BY <1>1, FS_CardinalityType
<1>4. A \cap B = {} => Cardinality(A \cap B) = 0
  BY FS_EmptySet
<1>5. Cardinality(A \cup B) = Cardinality(A) + Cardinality(B) - Cardinality(A \cap B)
  BY <1>1, FS_Union
<1>6. QED BY <1>1, <1>2, <1>3, <1>4, <1>5

(* A set that differs from another in one relay at most.                    *)
LEMMA OneRelay ==
  ASSUME NEW A \in SUBSET Relay, NEW B \in SUBSET Relay, NEW r \in Relay,
         \A k \in Relay \ {r} : k \in A <=> k \in B
  PROVE  /\ r \in A /\ r \in B => Cardinality(B) = Cardinality(A)
         /\ r \notin A /\ r \notin B => Cardinality(B) = Cardinality(A)
         /\ r \in A /\ r \notin B => Cardinality(B) = Cardinality(A) - 1
         /\ r \notin A /\ r \in B => Cardinality(B) = Cardinality(A) + 1
<1>1. IsFiniteSet(A)
  BY RelaySets
<1>2. r \in A <=> r \in B => A = B
  OBVIOUS
<1>3. r \in A /\ r \notin B => B = A \ {r}
  OBVIOUS
<1>4. r \notin A /\ r \in B => B = A \cup {r}
  OBVIOUS
<1>5. QED BY <1>1, <1>2, <1>3, <1>4, FS_AddElement, FS_RemoveElement

(* A batch is split, whatever the relay does next.                          *)
LEMMA SplitStep == IInv /\ BatchSplit /\ [Next]_vars => BatchSplit'
<1> SUFFICES ASSUME IInv, BatchSplit, [Next]_vars PROVE BatchSplit'
  OBVIOUS
<1> USE DEF IInv, TypeOK, BatchSplit, Goto
<1>1. CASE Write \/ UNCHANGED vars
  BY <1>1 DEF Write, vars
<1>2. ASSUME NEW r \in Relay, Drain(r) \/ Crash(r) \/ MarkPublished(r) PROVE BatchSplit'
  BY <1>2 DEF Drain, Crash, MarkPublished
<1>3. ASSUME NEW r \in Relay, Fetch(r) PROVE BatchSplit'
  BY <1>3 DEF Fetch
<1>4. ASSUME NEW r \in Relay, NEW x \in Row,
             Publish(r, x) \/ PublishError(r, x) \/ MarkFailed(r, x)
      PROVE  BatchSplit'
  BY <1>4 DEF Publish, PublishError, MarkFailed, Advance
<1>5. QED BY <1>1, <1>2, <1>3, <1>4 DEF Next, Flush

(* Every step preserves the count of copies of a row.                       *)
LEMMA CopiesStep == IInv /\ BatchSplit /\ CopiesCounted /\ [Next]_vars => CopiesCounted'
<1> SUFFICES ASSUME IInv, BatchSplit, CopiesCounted, [Next]_vars, NEW y \in Row
             PROVE  IF y \in published'
                    THEN sent'[y] + Cardinality(Holders(y)') <= Cardinality(Relay) + faults'
                    ELSE sent'[y] <= Cardinality(Unmarked(y)') + faults'
  BY DEF CopiesCounted
<1> DEFINE N  == Cardinality(Relay)
           H  == Cardinality(Holders(y))
           U  == Cardinality(Unmarked(y))
           H1 == Cardinality(Holders(y)')
           U1 == Cardinality(Unmarked(y)')
           Kept == IF y \in published' THEN sent'[y] + H1 <= N + faults'
                                        ELSE sent'[y] <= U1 + faults'
<1>a. /\ Holders(y) \in SUBSET Relay /\ Unmarked(y) \in SUBSET Relay
      /\ Holders(y)' \in SUBSET Relay /\ Unmarked(y)' \in SUBSET Relay
      /\ Holders(y) \cap Unmarked(y) = {}
  BY DEF Holders, Unmarked, BatchSplit
<1>b. H \in Nat /\ U \in Nat /\ H1 \in Nat /\ U1 \in Nat /\ N \in Nat /\ H + U <= N
  BY <1>a, RelaySets
<1>c. TypeOK /\ sent[y] \in Nat /\ faults \in Nat
  BY RelayAssumption DEF IInv, TypeOK
<1>d. IF y \in published THEN sent[y] + H <= N + faults ELSE sent[y] <= U + faults
  BY DEF CopiesCounted
(* A step that leaves the counted relays alone.                             *)
<1>e. ASSUME UNCHANGED <<published, sent>>, faults' >= faults, faults' \in Nat,
             y \in published => H1 <= H, U1 >= U
      PROVE  Kept
  <2> HIDE DEF N, H, U, H1, U1
  <2>1. QED BY <1>b, <1>c, <1>d, <1>e
(* A fault pays for a relay that forgets the row, and for a lost reply.     *)
<1>f. ASSUME UNCHANGED <<published, sent>>, faults' = faults + 1, H1 <= H, U1 >= U - 1
      PROVE  Kept
  <2> HIDE DEF N, H, U, H1, U1
  <2>1. QED BY <1>b, <1>c, <1>d, <1>f
<1>f2. ASSUME published' = published, faults' = faults + 1, H1 <= H, U1 >= U,
              sent'[y] \in Nat, sent'[y] <= sent[y] + 1
       PROVE  Kept
  <2> HIDE DEF N, H, U, H1, U1
  <2>1. QED BY <1>b, <1>c, <1>d, <1>f2
(* The sets change in the acting relay only.                                *)
<1>g. ASSUME NEW r \in Relay,
             \A k \in Relay \ {r} : /\ pc'[k] = pc[k] /\ todo'[k] = todo[k]
                                     /\ accepted'[k] = accepted[k]
      PROVE  /\ (r \in Holders(y) <=> r \in Holders(y)') => H1 = H
             /\ (r \in Unmarked(y) <=> r \in Unmarked(y)') => U1 = U
             /\ r \in Holders(y) /\ r \notin Holders(y)' => H1 = H - 1
             /\ r \in Unmarked(y) /\ r \notin Unmarked(y)' => U1 = U - 1
             /\ r \notin Unmarked(y) /\ r \in Unmarked(y)' => U1 = U + 1
  <2>1. \A k \in Relay \ {r} : k \in Holders(y) <=> k \in Holders(y)'
    BY <1>g DEF Holders
  <2>2. \A k \in Relay \ {r} : k \in Unmarked(y) <=> k \in Unmarked(y)'
    BY <1>g DEF Unmarked
  <2>3. QED BY <1>a, <2>1, <2>2, OneRelay
<1> USE DEF Goto
<1>1. CASE Write \/ UNCHANGED vars
  <2>1. Holders(y)' = Holders(y) /\ Unmarked(y)' = Unmarked(y)
    BY <1>1 DEF Write, vars, Holders, Unmarked
  <2>2. UNCHANGED <<published, sent, faults>>
    BY <1>1 DEF Write, vars
  <2>3. QED BY <2>1, <2>2, <1>b, <1>c, <1>e
<1>2. ASSUME NEW r \in Relay, Drain(r) PROVE Kept
  <2>1. Holders(y)' = Holders(y) /\ Unmarked(y)' = Unmarked(y)
    BY <1>2, <1>c DEF Drain, TypeOK, Holders, Unmarked
  <2>2. UNCHANGED <<published, sent, faults>>
    BY <1>2 DEF Drain, store
  <2>3. QED BY <2>1, <2>2, <1>b, <1>c, <1>e
<1>3. ASSUME NEW r \in Relay, Fetch(r) PROVE Kept
  <2>1. \A k \in Relay \ {r} : pc'[k] = pc[k] /\ todo'[k] = todo[k] /\ accepted'[k] = accepted[k]
    BY <1>3, <1>c DEF Fetch, TypeOK
  <2>2. r \notin Unmarked(y) /\ r \notin Unmarked(y)'
    BY <1>3, <1>c DEF Fetch, TypeOK, Unmarked
  <2>3. y \in published => r \notin Holders(y) /\ r \notin Holders(y)'
    <3>1. y \in published => y \notin Oldest(Pending)
      BY DEF Oldest, Pending
    <3>2. QED BY <1>3, <1>c, <3>1 DEF Fetch, TypeOK, Holders
  <2>4. UNCHANGED <<published, sent>> /\ (faults' = faults \/ faults' = faults + 1)
    BY <1>3 DEF Fetch, Fault, NoFault, store
  <2>5. (y \in published => H1 = H) /\ U1 = U
    BY <2>1, <2>2, <2>3, <1>g
  <2>6. QED BY <2>4, <2>5, <1>b, <1>c, <1>e
<1>4. ASSUME NEW r \in Relay, NEW x \in Row, Publish(r, x) PROVE Kept
  <2>1. \A k \in Relay \ {r} : pc'[k] = pc[k] /\ todo'[k] = todo[k] /\ accepted'[k] = accepted[k]
    BY <1>4, <1>c DEF Publish, Advance, TypeOK
  <2>2. UNCHANGED <<published, faults>> /\ sent'[y] = IF x = y THEN sent[y] + 1 ELSE sent[y]
    BY <1>4, <1>c DEF Publish, Sent, TypeOK, store
  <2>3. CASE x # y
    <3>1. (r \in Holders(y) <=> r \in Holders(y)') /\ (r \in Unmarked(y) <=> r \in Unmarked(y)')
      BY <1>4, <2>3, <1>c DEF Publish, Advance, TypeOK, Holders, Unmarked, First
    <3>2. H1 = H /\ U1 = U
      BY <2>1, <3>1, <1>g
    <3>3. QED BY <2>2, <2>3, <3>2, <1>d
  <2>4. CASE x = y
    <3>1. /\ r \in Holders(y) /\ r \notin Holders(y)'
          /\ r \notin Unmarked(y) /\ r \in Unmarked(y)'
      BY <1>4, <2>4, <1>c DEF Publish, Advance, TypeOK, Holders, Unmarked, First, BatchSplit
    <3>2. H1 = H - 1 /\ U1 = U + 1
      BY <2>1, <3>1, <1>g
    <3> HIDE DEF N, H, U, H1, U1
    <3>3. QED BY <2>2, <2>4, <3>2, <1>b, <1>c, <1>d
  <2>5. QED BY <2>3, <2>4
<1>5. ASSUME NEW r \in Relay, NEW x \in Row, PublishError(r, x) PROVE Kept
  <2>1. Holders(y)' = Holders(y) /\ Unmarked(y)' = Unmarked(y)
    BY <1>5, <1>c DEF PublishError, TypeOK, Holders, Unmarked
  <2>2. CASE UNCHANGED <<faults, sent>>
    <3>1. published' = published /\ H1 <= H /\ U1 >= U
      BY <1>5, <2>1, <1>b DEF PublishError, store
    <3>2. QED BY <2>2, <3>1, <1>c, <1>e
  <2>3. CASE Fault /\ (Sent(x) \/ UNCHANGED sent)
    <3>1. sent'[y] \in Nat /\ sent'[y] <= sent[y] + 1
      BY <2>3, <1>c DEF Sent, TypeOK
    <3>2. published' = published /\ faults' = faults + 1
      BY <1>5, <2>3 DEF PublishError, Fault, store
    <3>3. QED BY <2>1, <3>1, <3>2, <1>b, <1>f2
  <2>4. QED BY <1>5, <2>2, <2>3 DEF PublishError, NoFault
<1>6. ASSUME NEW r \in Relay, NEW x \in Row, MarkFailed(r, x) PROVE Kept
  <2>1. \A k \in Relay \ {r} : pc'[k] = pc[k] /\ todo'[k] = todo[k] /\ accepted'[k] = accepted[k]
    BY <1>6, <1>c DEF MarkFailed, Advance, TypeOK
  <2>2. UNCHANGED <<published, sent>>
    BY <1>6 DEF MarkFailed
  <2>3. r \in Holders(y)' => r \in Holders(y)
    BY <1>6, <1>c DEF MarkFailed, Advance, TypeOK, Holders
  <2>4. H1 <= H
    BY <2>1, <2>3, <1>b, <1>g
  <2>5. CASE Advance(r, x) /\ NoFault
    <3>1. r \in Unmarked(y) <=> r \in Unmarked(y)'
      BY <1>6, <2>5, <1>c DEF MarkFailed, Advance, TypeOK, Unmarked
    <3>2. U1 = U
      BY <2>1, <3>1, <1>g
    <3>3. QED BY <2>2, <2>4, <2>5, <3>2, <1>b, <1>c, <1>e DEF NoFault
  <2>6. CASE Fault /\ pc' = [pc EXCEPT ![r] = "idle"]
    <3>1. r \notin Unmarked(y)'
      BY <2>6, <1>c DEF TypeOK, Unmarked
    <3>2. U1 >= U - 1
      BY <2>1, <3>1, <1>b, <1>g
    <3>3. QED BY <2>2, <2>4, <2>6, <3>2, <1>f DEF Fault
  <2>7. QED BY <1>6, <2>5, <2>6 DEF MarkFailed
<1>7. ASSUME NEW r \in Relay, MarkPublished(r) PROVE Kept
  <2>1. \A k \in Relay \ {r} : pc'[k] = pc[k] /\ todo'[k] = todo[k] /\ accepted'[k] = accepted[k]
    BY <1>7, <1>c DEF MarkPublished, TypeOK
  <2>2. r \notin Holders(y) /\ r \notin Holders(y)' /\ r \notin Unmarked(y)' /\ sent' = sent
    BY <1>7, <1>c DEF MarkPublished, TypeOK, Holders, Unmarked
  <2>3. H1 = H /\ U1 >= U - 1 /\ (r \notin Unmarked(y) => U1 = U)
    BY <2>1, <2>2, <1>b, <1>g
  <2>4. CASE Fault /\ published' = published
    <3>1. H1 <= H
      BY <2>3, <1>b
    <3>2. QED BY <2>2, <2>3, <2>4, <3>1, <1>f DEF Fault
  <2>5. CASE published' = published \cup accepted[r] /\ NoFault
    <3>1. CASE y \in accepted[r] /\ y \notin published
      <4>1. y \in published' /\ faults' = faults
        BY <2>5, <3>1 DEF NoFault
      <4> HIDE DEF N, H, U, H1, U1
      <4>2. QED BY <2>2, <2>3, <3>1, <4>1, <1>b, <1>c, <1>d
    <3>2. CASE y \in published
      BY <2>2, <2>3, <2>5, <3>2, <1>d DEF NoFault
    <3>3. CASE y \notin accepted[r] /\ y \notin published
      <4>1. r \notin Unmarked(y) /\ y \notin published'
        BY <2>5, <3>3 DEF Unmarked
      <4>2. QED BY <2>2, <2>3, <2>5, <3>3, <4>1, <1>d DEF NoFault
    <3>4. QED BY <3>1, <3>2, <3>3
  <2>6. QED BY <1>7, <2>4, <2>5 DEF MarkPublished
<1>8. ASSUME NEW r \in Relay, Crash(r) PROVE Kept
  <2>1. \A k \in Relay \ {r} : pc'[k] = pc[k] /\ todo'[k] = todo[k] /\ accepted'[k] = accepted[k]
    BY <1>8, <1>c DEF Crash, TypeOK
  <2>2. r \notin Holders(y)' /\ r \notin Unmarked(y)'
    BY <1>8, <1>c DEF Crash, TypeOK, Holders, Unmarked
  <2>3. H1 <= H /\ U1 >= U - 1
    BY <2>1, <2>2, <1>b, <1>g
  <2>4. UNCHANGED <<published, sent>> /\ faults' = faults + 1
    BY <1>8 DEF Crash, Fault, store
  <2>5. QED BY <2>3, <2>4, <1>f
<1>9. QED BY <1>1, <1>2, <1>3, <1>4, <1>5, <1>6, <1>7, <1>8 DEF Next, Flush

(* For every number of relays, rows and faults, a row reaches the broker at *)
(* most once per relay and once more per fault.                             *)
THEOREM DuplicatesBounded == Spec => []BoundedDuplicates
<1>1. Init => BatchSplit /\ CopiesCounted
  <2> SUFFICES ASSUME Init, NEW x \in Row
               PROVE  BatchSplit /\ sent[x] <= Cardinality(Unmarked(x)) + faults
    BY DEF Init, BatchSplit, CopiesCounted
  <2>1. Unmarked(x) \in SUBSET Relay
    BY DEF Unmarked
  <2>2. QED BY <2>1, RelaySets DEF Init, BatchSplit
<1>2. IInv /\ CopiesCounted => BoundedDuplicates
  <2> SUFFICES ASSUME IInv, CopiesCounted, NEW x \in Row
               PROVE  sent[x] <= Cardinality(Relay) + faults
    BY DEF BoundedDuplicates
  <2>1. Holders(x) \in SUBSET Relay /\ Unmarked(x) \in SUBSET Relay
    BY DEF Holders, Unmarked
  <2>2. sent[x] \in Nat /\ faults \in Nat
    BY RelayAssumption DEF IInv, TypeOK
  <2>3. QED BY <2>1, <2>2, RelaySets DEF CopiesCounted
<1>3. QED BY <1>1, <1>2, InvariantHolds, SplitStep, CopiesStep, PTL DEF Spec
=============================================================================
