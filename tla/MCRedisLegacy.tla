--------------------------- MODULE MCRedisLegacy ---------------------------
(* Instances of RedisLegacy for TLC. *)
EXTENDS RedisLegacy

CONSTANTS c1, c2, m1

\* c2's clock is a second ahead of c1's.
SkewAhead == [c \in Consumer |-> IF c = c2 THEN 1 ELSE 0]

\* An older version left one reserved copy of m1 behind.
OneOldItem == [r \in Raw |-> IF r = [msg |-> m1, attempts |-> 0] THEN 1 ELSE 0]
=============================================================================
