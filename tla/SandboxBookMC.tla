---------------------------- MODULE SandboxBookMC ----------------------------
(* Small instances of SandboxBook for TLC. *)
EXTENDS SandboxBook, TLC

OneKey == {"acme"}
Intraday == [k \in OneKey |-> "MIS"]
Delivery == [k \in OneKey |-> "CNC"]
UnitLot == [k \in OneKey |-> 1]
\* Buying is cash, selling has leverage 2: the two sides need different margin.
SideLeverage == [k \in OneKey |-> [a \in Actions |-> IF a = "BUY" THEN 1 ELSE 2]]
NoHolding == [k \in OneKey |-> 0]

Req(action, qty, ptype, price, trig) ==
  [key |-> "acme", action |-> action, qty |-> qty, ptype |-> ptype,
   price |-> price, trig |-> trig]

\* Both sides, sizes that reduce, close and reverse, resting and immediate.
MixedRequests ==
  {Req("BUY", 2, "MARKET", 0, 0), Req("BUY", 1, "LIMIT", 2, 0),
   Req("SELL", 3, "SL", 2, 3), Req("SELL", 1, "SL-M", 0, 2)}
MixedChanges ==
  {[qty |-> 3, ptype |-> "LIMIT", price |-> 3, trig |-> 0]}

SmartTargets == {-2}

\* Three orders that meet on one position: an entry, an exit and a reversal.
RacingRequests ==
  {Req("BUY", 1, "MARKET", 0, 0), Req("BUY", 2, "LIMIT", 2, 0),
   Req("SELL", 1, "LIMIT", 2, 0)}
RacingChanges == {[qty |-> 2, ptype |-> "LIMIT", price |-> 1, trig |-> 0]}

\* Resting orders that a modify turns into MARKET orders.
RestingRequests == {Req("BUY", 1, "LIMIT", 1, 0)}
ToMarket == {[qty |-> 0, ptype |-> "MARKET", price |-> 0, trig |-> 0]}

Symmetry == Permutations(Orders) \cup Permutations(Engines)
=============================================================================
