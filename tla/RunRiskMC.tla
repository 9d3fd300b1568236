------------------------------ MODULE RunRiskMC ------------------------------
(* Small instances of RunRisk for TLC. *)
EXTENDS RunRisk

TwoLegs == {1, 2}
SameSymbol == [l \in TwoLegs |-> "call"]
OwnSymbol == [l \in TwoLegs |-> IF l = 1 THEN "call" ELSE "put"]

LegOf(position, sl, target, x, y) ==
  [position |-> position, qty |-> 1, sl |-> sl, target |-> target, x |-> x, y |-> y]
RunOf(te, mode, armAt, floor, step, sl, target) ==
  [toEntry |-> te, mode |-> mode, armAt |-> armAt, floor |-> floor, step |-> step,
   sl |-> sl, target |-> target]

\* A long leg with a stepped trail and a short one with a fixed-distance trail, under
\* each lock-profit mode; a plain stop and target with the overall limits.
MixedStrategies ==
  {[legs |-> <<LegOf("B", 2, 0, 2, 1), LegOf("S", 1, 0, 2, 0)>>,
    run |-> RunOf(TRUE, mode, 2, 1, 1, 2, NONE)] : mode \in {"none", "lock_and_trail"}}
  \cup
  {[legs |-> <<LegOf("B", 1, 2, 0, 0), LegOf("S", 0, 0, 1, 1)>>,
    run |-> RunOf(FALSE, "lock", 2, 0, 1, NONE, 3)]}

\* A short leg with a stop beside a long leg whose trail has passed its entry.
ToEntryStrategies ==
  {[legs |-> <<LegOf("S", 1, 0, 0, 0), LegOf("B", 1, 0, 2, 1)>>,
    run |-> RunOf(TRUE, "none", 1, 0, 1, 2, NONE)]}

\* The same step as trigger: the trail arms at the price it is armed by.
EqualSteps ==
  {[legs |-> <<LegOf("B", 2, 0, 1, 1), LegOf("S", 2, 0, 2, 2)>>,
    run |-> RunOf(FALSE, "none", 1, 0, 1, NONE, NONE)]}

\* Overall limits of zero.
ZeroStrategies ==
  {[legs |-> <<LegOf("B", 0, 0, 0, 0), LegOf("S", 0, 0, 0, 0)>>,
    run |-> RunOf(FALSE, "none", 1, 0, 1, NONE, 0)]}
=============================================================================
