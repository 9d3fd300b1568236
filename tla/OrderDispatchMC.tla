-------------------------- MODULE OrderDispatchMC --------------------------
(* Instances of OrderDispatch for TLC. *)
EXTENDS OrderDispatch

CONSTANT s1

Leg(s, q) == [sym |-> s, qty |-> q]
Req(op, legs, size) == [op |-> op, legs |-> legs, size |-> size]

\* One request of each kind.
Every ==
  {Req("status", <<>>, 0), Req("closeall", <<>>, 0),
   Req("place", <<Leg(s1, 1)>>, 0),
   Req("basket", <<Leg(s1, -1)>>, 0),
   Req("split", <<Leg(s1, 1)>>, 2),
   Req("smart", <<Leg(s1, 1)>>, 0), Req("smart", <<Leg(s1, 1)>>, 1)}

\* One paper order after another in the same direction.
SamePlace == {Req("place", <<Leg(s1, 1)>>, 0)}

\* Position-aware orders of two symbols of one account.
SmartTwo == {Req("smart", <<Leg(s, 1)>>, 1) : s \in Symbols}
=============================================================================
