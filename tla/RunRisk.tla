------------------------------ MODULE RunRisk -------------------------------
(***************************************************************************)
(* The risk engine of one running batch strategy: the run state the tick   *)
(* processor keeps (strategy/state.py), the locked section of its tick     *)
(* handler (strategy/tick_processor.py) with the rules of RiskRules, and   *)
(* the exits that follow, which race the exits a user or a scheduled stop  *)
(* asks for (strategy/engine.py).                                          *)
(*                                                                         *)
(* Every section the code runs under state_module.get_state_lock is one    *)
(* step; the steps of the two exit workers interleave.  The "tick" worker  *)
(* takes the next quote only when it has dispatched the exits of the last. *)
(* Two exits of the same leg in flight at once are not in this module: an  *)
(* exit is one step from the "already closed" check to the state update.   *)
(***************************************************************************)
EXTENDS RiskRules, FiniteSetsExt

CONSTANTS
  Legs,       \* leg ids of the strategy
  Symbol,     \* the symbol each leg was entered on
  Prices,     \* the quotes
  Entries,    \* the prices entries can have filled at
  Fills,      \* the prices exits can fill at
  Strategies  \* the strategies that can be running: [legs, run]

ASSUME LegsAssumption == Legs \subseteq Nat /\ IsFiniteSet(Legs)
ASSUME PricesAssumption == Prices \cup Entries \cup Fills \subseteq Nat
ASSUME StrategiesAssumption ==
  Strategies \subseteq [legs : [Legs -> LegRule], run : RunRule]

VARIABLES
  strategy,  \* the strategy row: update_strategy refuses to change it while it runs
  legs,      \* state["legs"]
  pnl,       \* state["pnl_realized"], ["pnl_unrealized"], ["pnl_peak"], ["pnl_trough"]
  lock,      \* state["lock_armed"], state["lock_floor"]
  toEntry,   \* state["trail_to_entry_active"]
  running,   \* the run state exists and the run is not finalized
  job,       \* per worker: the legs it still has to exit, and the stop after them
  failed     \* legs whose last exit was refused or rejected (history)

vars == <<strategy, legs, pnl, lock, toEntry, running, job, failed>>

Workers == {"tick", "user"}
StopReasons == {"lock_profit", "overall_target", "overall_sl"}
\* stop: "none", "manual" or one of the rules; stopping: stop_run is exiting legs
Idle == [exits |-> {}, stop |-> "none", stopping |-> FALSE]

rules == strategy.legs
Open(l) == legs[l].status = "open"
Total == pnl.realized + pnl.unrealized
SumOver(S, Op(_)) == MapThenSumSet(Op, S)

-----------------------------------------------------------------------------
(* start_run has built the state and applied the fills it could reconcile:  *)
(* a leg is open at its entry price, open at a price still unknown, or its  *)
(* entry was rejected.                                                      *)

NewLeg(status, entry) ==
  [entry |-> entry, ltp |-> NONE, mtm |-> 0, peak |-> 0, armed |-> FALSE, sl |-> NONE,
   target |-> NONE, status |-> status, realized |-> 0]

Init ==
  /\ strategy \in Strategies
  /\ legs \in [Legs -> {NewLeg("open", p) : p \in Entries \cup {NONE}}
                       \cup {NewLeg("rejected", NONE)}]
  /\ \E l \in Legs : Open(l)
  /\ pnl = [realized |-> 0, unrealized |-> 0, peak |-> 0, trough |-> 0]
  /\ lock = [armed |-> FALSE, floor |-> NONE]
  /\ toEntry = FALSE
  /\ running = TRUE
  /\ job = [w \in Workers |-> Idle]
  /\ failed = {}

-----------------------------------------------------------------------------
(* A tick: _process_tick_for_run under the state lock *)

\* New totals, and the extremes they have reached.
WithExtremes(realized, unrealized) ==
  [realized |-> realized, unrealized |-> unrealized,
   peak |-> Larger(pnl.peak, realized + unrealized),
   trough |-> Smaller(pnl.trough, realized + unrealized)]

Unrealized(ls) == SumOver({l \in Legs : ls[l].status = "open"}, LAMBDA l : ls[l].mtm)

\* compute_strategy_mtm: the realized P&L of closed legs only
Aggregate(ls) ==
  WithExtremes(SumOver({l \in Legs : ls[l].status = "closed"}, LAMBDA l : ls[l].realized),
               Unrealized(ls))

\* The legs whose stop a leg that hit its own stop moves to their entry.
MovedToEntry(evaluated, slLegs) ==
  IF strategy.run.toEntry /\ ~toEntry
  THEN {l \in Legs : /\ \E k \in slLegs : k # l
                     /\ MovesToEntry(rules[l], evaluated[l])}
  ELSE {}

Tick(symbol, ltp) ==
  LET matched == {l \in Legs : Open(l) /\ Symbol[l] = symbol}
      priced == {l \in matched : legs[l].entry # NONE}
      slLegs == {l \in priced : SlHit(rules[l], legs[l], ltp)}
      targetLegs == {l \in priced : TargetHit(rules[l], legs[l], ltp)}
      evaluated == [l \in Legs |->
                     IF l \in priced THEN EvaluateLeg(rules[l], legs[l], ltp)
                     ELSE IF l \in matched THEN [legs[l] EXCEPT !.ltp = ltp]
                     ELSE legs[l]]
      moved == MovedToEntry(evaluated, slLegs)
      bypassed == toEntry \/ moved # {}
      run == strategy.run
  IN  /\ running /\ job["tick"] = Idle
      /\ matched # {}
      /\ legs' = [l \in Legs |-> IF l \in moved
                                 THEN [evaluated[l] EXCEPT !.sl = evaluated[l].entry]
                                 ELSE evaluated[l]]
      /\ toEntry' = bypassed
      /\ pnl' = Aggregate(evaluated)
      /\ LET total == pnl'.realized + pnl'.unrealized
             armed == lock.armed \/ (run.mode # "none" /\ total >= run.armAt)
             floor == LockFloor(run, lock.armed, lock.floor, total, pnl'.peak)
         IN  /\ lock' = [armed |-> armed, floor |-> floor]
             /\ job' = [job EXCEPT !["tick"] =
                          [exits |-> slLegs \cup targetLegs,
                           stop |-> StopReason(run, armed, floor, total, bypassed),
                           stopping |-> FALSE]]
      /\ UNCHANGED <<strategy, running, failed>>

-----------------------------------------------------------------------------
(* Exits: _trigger_exit, close_leg and stop_run all go through _exit_legs *)

\* _apply_fill_to_state: the leg is closed and its P&L booked, if it has an entry.
Booked(l, price) ==
  LET gain == IF legs[l].entry = NONE THEN 0
              ELSE Toward(rules[l].position, 0, price - legs[l].entry) * rules[l].qty
  IN  [legs EXCEPT ![l].realized = @ + gain, ![l].status = "closed", ![l].mtm = 0]

\* The totals are recomputed too, here over the realized P&L of every leg.
FillExit(l, price) ==
  /\ legs' = Booked(l, price)
  /\ pnl' = WithExtremes(SumOver(Legs, LAMBDA k : legs'[k].realized), Unrealized(legs'))
  /\ failed' = failed \ {l}

\* The order was accepted and its fill not seen in time: the leg is closed, its
\* P&L unknown, the totals as they were.
PlaceExit(l) ==
  /\ legs' = [legs EXCEPT ![l].status = "closed"]
  /\ failed' = failed \ {l}
  /\ UNCHANGED pnl

\* The order was rejected, or there is no broker session to place it in: the leg
\* stays open.
FailExit(l) ==
  /\ failed' = failed \cup {l}
  /\ UNCHANGED <<legs, pnl>>

\* A leg with an exit, a leg whose entry was rejected, and every leg of a run
\* that is finalized are skipped.
ExitOutcome(l) ==
  IF running /\ Open(l)
  THEN FailExit(l) \/ PlaceExit(l) \/ \E p \in Fills : FillExit(l, p)
  ELSE UNCHANGED <<legs, pnl, failed>>

\* One leg exited on its own; _finalize_run_if_all_flat follows.
ExitLeg(w) ==
  /\ job[w].exits # {} /\ ~job[w].stopping
  /\ LET l == Min(job[w].exits)
     IN  /\ ExitOutcome(l)
         /\ job' = [job EXCEPT ![w].exits = @ \ {l}]
  /\ running' = (running /\ \E k \in Legs : legs'[k].status = "open")
  /\ UNCHANGED <<strategy, lock, toEntry>>

\* _trigger_run_stop after the leg exits: refused without a broker session, nothing
\* left to do when the run is finalized already.
BeginStop(w) ==
  /\ job[w].exits = {} /\ job[w].stop # "none" /\ ~job[w].stopping
  /\ \/ running /\ job' = [job EXCEPT ![w].exits = Legs, ![w].stopping = TRUE]
     \/ job' = [job EXCEPT ![w] = Idle]
  /\ UNCHANGED <<strategy, legs, pnl, lock, toEntry, running, failed>>

\* stop_run exits every leg in turn
StopExit(w) ==
  /\ job[w].exits # {} /\ job[w].stopping
  /\ LET l == Min(job[w].exits)
     IN  /\ ExitOutcome(l)
         /\ job' = [job EXCEPT ![w].exits = @ \ {l}]
  /\ UNCHANGED <<strategy, lock, toEntry, running>>

\* ... and finalizes the run, whatever became of the exits.
EndStop(w) ==
  /\ job[w].exits = {} /\ job[w].stopping
  /\ running' = FALSE
  /\ job' = [job EXCEPT ![w] = Idle]
  /\ UNCHANGED <<strategy, legs, pnl, lock, toEntry, failed>>

\* The user, or the scheduler, closes a leg or stops the run.
CloseLeg(l) ==
  /\ running /\ job["user"] = Idle
  /\ job' = [job EXCEPT !["user"].exits = {l}]
  /\ UNCHANGED <<strategy, legs, pnl, lock, toEntry, running, failed>>

StopRun ==
  /\ running /\ job["user"] = Idle
  /\ job' = [job EXCEPT !["user"] = [exits |-> Legs, stop |-> "manual", stopping |-> TRUE]]
  /\ UNCHANGED <<strategy, legs, pnl, lock, toEntry, running, failed>>

Next ==
  \/ \E l \in Legs, p \in Prices : Tick(Symbol[l], p)
  \/ \E w \in Workers : ExitLeg(w) \/ BeginStop(w) \/ StopExit(w) \/ EndStop(w)
  \/ \E l \in Legs : CloseLeg(l)
  \/ StopRun

Spec == Init /\ [][Next]_vars

-----------------------------------------------------------------------------
(* Properties *)

\* Types: prices and P&L are integers, levels are NONE until they are set, and the
\* favorable peak of a leg never goes below zero (evaluate_leg, evaluate_strategy).
TypeOK ==
  /\ strategy \in Strategies
  /\ legs \in [Legs -> LegState]
  /\ pnl \in [realized : Int, unrealized : Int, peak : Nat, trough : Int]
  /\ lock \in [armed : BOOLEAN, floor : Nat \cup {NONE}]
  /\ toEntry \in BOOLEAN /\ running \in BOOLEAN
  /\ job \in [Workers -> [exits : SUBSET Legs, stop : {"none", "manual"} \cup StopReasons,
                          stopping : BOOLEAN]]
  /\ failed \subseteq Legs

\* Once a leg has a stop, no tick, trail, trail-to-entry or exit of another leg moves
\* it against the position: "Trail never moves SL against the position"
\* (risk_evaluator.py) and "never widen a tightened SL" (apply_trail_to_entry).
StopNeverLoosens ==
  [][\A l \in Legs : legs[l].sl # NONE =>
        \/ legs'[l].sl = legs[l].sl
        \/ Ahead(rules[l].position, legs'[l].sl, legs[l].sl)]_vars

\* With a trail step smaller than the trail trigger (y < x), the stop of a leg stays
\* strictly behind the best price the leg has seen, so that arming or advancing the
\* trail cannot by itself exit the leg (evaluate_leg); only trail-to-entry can put
\* it at the price of a leg that never gained.
StopBehindPeak ==
  \A l \in Legs : legs[l].sl # NONE /\ rules[l].y < Larger(rules[l].x, 1) =>
     \/ Ahead(rules[l].position,
              Toward(rules[l].position, legs[l].entry, legs[l].peak), legs[l].sl)
     \/ toEntry /\ legs[l].sl = legs[l].entry

\* The lock-profit floor, once armed, never falls and never disarms, though the
\* P&L it locks does (evaluate_strategy: "ratchets the floor upward").
FloorNeverFalls ==
  [][lock.armed /\ lock.floor # NONE =>
       lock'.armed /\ (lock'.floor = lock.floor \/ lock'.floor > lock.floor)]_vars

\* The stop that evaluate_leg found hit is acted on: an open leg whose last quote is
\* at or past its stop is being exited, or its exit failed, or the stop was only now
\* moved there by another leg's (trail-to-entry does not look at the price).
BreachedLegIsExiting ==
  running =>
    \A l \in Legs :
      /\ Open(l) /\ legs[l].entry # NONE /\ legs[l].sl # NONE /\ legs[l].ltp # NONE
      /\ ~Ahead(rules[l].position, legs[l].ltp, legs[l].sl)
      => \/ l \in job["tick"].exits \cup failed
         \/ toEntry /\ legs[l].sl = legs[l].entry

\* The stepped trail as the plan states it: at a peak at or past x the stop is at
\* most peak - x points past the entry (docs/plan/strategy-module.md 9.1).
TrailAsPlanned ==
  \A l \in Legs : legs[l].sl # NONE /\ rules[l].y > 0 /\ legs[l].armed /\ ~toEntry =>
     ~Ahead(rules[l].position, legs[l].sl,
            Toward(rules[l].position, legs[l].entry, legs[l].peak - rules[l].x))

\* "When strategy.trail_sl_to_entry=true AND any one open leg's SL fires ...
\* trail_to_entry_active = true for the run; Overall SL is bypassed for the
\* remainder of this run" (docs/plan/strategy-module.md 9.2): on a tick on which a
\* leg hits its stop, the overall loss does not close a leg that has not.
BypassAsPlanned ==
  strategy.run.toEntry /\ job["tick"].stop = "overall_sl" =>
    \A l \in job["tick"].exits, k \in Legs :
      (legs[l].sl # NONE /\ ~Ahead(rules[l].position, legs[l].ltp, legs[l].sl))
        => ~(Open(k) /\ legs[k].entry # NONE /\ k \notin job["tick"].exits)

\* "if overall_target_mtm and mtm_total >= overall_target_mtm", the same for the loss
\* (docs/plan/strategy-module.md 9.4): a limit of zero is no limit.
ZeroLimitIsOff ==
  /\ strategy.run.target = 0 => job["tick"].stop # "overall_target"
  /\ strategy.run.sl = 0 => job["tick"].stop # "overall_sl"
=============================================================================
