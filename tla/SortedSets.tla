---------------------------- MODULE SortedSets -----------------------------
(***************************************************************************)
(* Redis sorted sets, as sets of records with a score: what the sweep and  *)
(* migrate scripts read with ZRANGEBYSCORE -inf t LIMIT 0 limit.           *)
(***************************************************************************)
EXTENDS Naturals, FiniteSets

\* Mutant: a second early.
DueEarly(zset, t) == {e \in zset : e.score <= t + 1}

\* Members whose score has passed.
Due(zset, t) == {e \in zset : e.score <= t}

\* How many members one call takes; a limit of 0 stands for -1, all of them.
Taken(zset, t, limit) ==
  IF limit = 0 \/ Cardinality(Due(zset, t)) < limit THEN Cardinality(Due(zset, t)) ELSE limit

\* The answers ZRANGEBYSCORE may give: lowest scores first, ties in any order (a
\* member starts with a random token or is an encoded body).
ZRangeByScore(zset, t, limit) ==
  LET n == Taken(zset, t, limit)
  IN {s \in [1..n -> Due(zset, t)] :
        /\ \A i, j \in 1..n : i < j => s[i] # s[j] /\ s[i].score <= s[j].score
        /\ \A e \in Due(zset, t), i \in 1..n :
             s[i].score <= e.score \/ \E j \in 1..n : s[j] = e}
=============================================================================
