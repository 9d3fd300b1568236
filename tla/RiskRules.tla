----------------------------- MODULE RiskRules ------------------------------
(***************************************************************************)
(* The risk rules of the strategy module as functions: one leg against one *)
(* quote (strategy/risk_evaluator.py), and the rules of the whole run      *)
(* (strategy/strategy_risk.py).  Prices, points and P&L are integers.      *)
(***************************************************************************)
EXTENDS Integers

CONSTANT NONE       \* Python's None

ASSUME NoneAssumption == NONE \notin Int

Larger(a, b) == IF a >= b THEN a ELSE b
Smaller(a, b) == IF a <= b THEN a ELSE b

\* The price pts points from price, in the direction the position earns in.
Toward(position, price, pts) == IF position = "B" THEN price + pts ELSE price - pts

\* Price a is strictly further in that direction than price b.
Ahead(position, a, b) == IF position = "B" THEN a > b ELSE a < b

-----------------------------------------------------------------------------
(* One leg *)

\* rule: the configuration of a leg; 0 switches a rule off (trail_y = 0 with
\* trail_x > 0 is the fixed-distance trail).
LegRule == [position : {"B", "S"}, qty : Nat \ {0}, sl : Nat, target : Nat,
            x : Nat, y : Nat]

\* What a tick leaves on an open leg with an entry price, and what it triggers.
LegState == [entry : Int \cup {NONE}, ltp : Int \cup {NONE}, mtm : Int, peak : Nat,
             armed : BOOLEAN, sl : Int \cup {NONE}, target : Int \cup {NONE},
             status : {"open", "closed", "rejected"}, realized : Int]

\* The effective levels start at their distance from the entry.
BaseSl(rule, leg) ==
  IF leg.sl = NONE /\ rule.sl > 0
  THEN Toward(rule.position, leg.entry, -rule.sl) ELSE leg.sl
BaseTarget(rule, leg) ==
  IF leg.target = NONE /\ rule.target > 0
  THEN Toward(rule.position, leg.entry, rule.target) ELSE leg.target

\* _is_favorable_move, and the running maximum of it
FavorablePeak(rule, leg, ltp) ==
  Larger(leg.peak, Toward(rule.position, 0, ltp - leg.entry))

Arms(rule, peak) == rule.x > 0 /\ (rule.y > 0 => peak >= rule.x)

\* Mutant: one step more than the peak has covered.
TrailPointsAhead(rule, peak) ==
  IF rule.y > 0 THEN rule.y + ((peak - rule.x) \div rule.y + 1) * rule.y ELSE peak - rule.x

\* Where the trail puts the stop: in steps of y past x, or x behind the peak.
TrailPoints(rule, peak) ==
  IF rule.y > 0 THEN rule.y + ((peak - rule.x) \div rule.y) * rule.y ELSE peak - rule.x

\* Mutant: the trail overwrites the stop even when that loosens it.
EffectiveSlOverwritten(rule, leg, peak) ==
  IF Arms(rule, peak) THEN Toward(rule.position, leg.entry, TrailPoints(rule, peak))
  ELSE BaseSl(rule, leg)

\* The stop after the trail bookkeeping: the trail only moves it forward.
EffectiveSl(rule, leg, peak) ==
  LET base == BaseSl(rule, leg)
      trailed == Toward(rule.position, leg.entry, TrailPoints(rule, peak))
  IN  IF Arms(rule, peak) /\ (base = NONE \/ Ahead(rule.position, trailed, base))
      THEN trailed ELSE base

\* Mutant: the quote is compared with the stop of the previous tick.
SlHitStale(rule, leg, ltp) ==
  leg.sl # NONE /\ ~Ahead(rule.position, ltp, leg.sl)

SlHit(rule, leg, ltp) ==
  LET sl == EffectiveSl(rule, leg, FavorablePeak(rule, leg, ltp))
  IN  sl # NONE /\ ~Ahead(rule.position, ltp, sl)

TargetHit(rule, leg, ltp) ==
  LET target == BaseTarget(rule, leg)
  IN  target # NONE /\ ~Ahead(rule.position, target, ltp)

\* evaluate_leg, the values the tick processor writes back
EvaluateLeg(rule, leg, ltp) ==
  LET peak == FavorablePeak(rule, leg, ltp)
  IN  [leg EXCEPT !.ltp = ltp,
                  !.mtm = Toward(rule.position, 0, ltp - leg.entry) * rule.qty,
                  !.peak = peak,
                  !.armed = @ \/ Arms(rule, peak),
                  !.sl = EffectiveSl(rule, leg, peak),
                  !.target = BaseTarget(rule, leg)]

-----------------------------------------------------------------------------
(* The run *)

\* config: the strategy's own rules.  mode "none" is no lock-profit; a limit is
\* NONE when it is not configured.
RunRule == [toEntry : BOOLEAN, mode : {"none", "lock", "lock_and_trail"},
            armAt : Nat \ {0}, floor : Nat, step : Nat \ {0},
            sl : Nat \cup {NONE}, target : Nat \cup {NONE}]

\* apply_trail_to_entry: is this leg's stop moved to its entry?
MovesToEntry(rule, leg) ==
  /\ leg.status = "open" /\ leg.entry # NONE
  /\ leg.sl = NONE \/ Ahead(rule.position, leg.entry, leg.sl)

\* Mutant: the floor follows the current P&L instead of its peak.
LockFloorAtTotal(config, armed, floor, total, peak) ==
  LET level == IF config.mode = "lock_and_trail"
               THEN Larger(config.floor, total - config.step) ELSE config.floor
  IN  IF config.mode # "none" /\ (armed \/ total >= config.armAt) THEN level ELSE floor

\* evaluate_strategy: the lock-profit floor after this tick
LockFloor(config, armed, floor, total, peak) ==
  LET arms == config.mode # "none" /\ ~armed /\ total >= config.armAt
      trails == config.mode = "lock_and_trail"
      level == IF trails THEN Larger(config.floor, peak - config.step) ELSE config.floor
  IN  IF arms \/ (armed /\ trails /\ (floor = NONE \/ level > floor)) THEN level ELSE floor

\* evaluate_strategy: why the run has to stop, or "none"
StopReason(config, armed, floor, total, bypassed) ==
  IF config.mode # "none" /\ armed /\ floor # NONE /\ total <= floor THEN "lock_profit"
  ELSE IF bypassed THEN "none"
  ELSE IF config.target # NONE /\ total >= config.target THEN "overall_target"
  ELSE IF config.sl # NONE /\ total <= -config.sl THEN "overall_sl"
  ELSE "none"
=============================================================================
