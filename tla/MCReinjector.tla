---------------------------- MODULE MCReinjector ----------------------------
(* An instance of Reinjector for TLC. *)
EXTENDS Reinjector

TwoTiers == <<1, 3>>

\* A producer clock that is right, or one unit behind or ahead.
AllLeads == {-1, 0, 1}

\* One partition in the first tier, two in the second.
ThreeLanes == <<{"a"}, {"a", "b"}>>
=============================================================================
