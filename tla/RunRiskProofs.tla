---------------------------- MODULE RunRiskProofs ----------------------------
(***************************************************************************)
(* Proofs about RunRisk for every strategy, number of legs and price set.  *)
(*                                                                         *)
(* The stop of a leg is written by EvaluateLeg and by trail-to-entry only, *)
(* so the theorems about it rest on lemmas about those two and on the fact *)
(* that exits leave the stop, the entry and the peak of every leg alone.   *)
(* That a stop which is hit is acted on needs the lists of the workers     *)
(* too: an exit that takes a leg off its list has settled that leg.        *)
(***************************************************************************)
EXTENDS RunRisk, SumProofs

\* The types of what the proofs read.
LegsOK == /\ strategy \in [legs : [Legs -> LegRule], run : RunRule]
          /\ legs \in [Legs -> LegState]

\* What a leg's stop is measured from: only a leg with an entry has a stop.
StopHasEntry == \A l \in Legs : legs[l].sl # NONE => legs[l].entry # NONE

\* The stop of a leg is at its entry, and the leg has not gained since.
AtEntry(rule, leg) ==
  /\ leg.sl = leg.entry
  /\ ~Ahead(rule.position, Toward(rule.position, leg.entry, leg.peak), leg.sl)

-----------------------------------------------------------------------------
(* One leg *)

\* The steps of the trail never cover more than the peak has gained past x.
LEMMA StepsFit == \A a \in Nat, b \in Nat \ {0} : (a \div b) \in Nat /\ (a \div b) * b <= a
  OBVIOUS

\* Evaluating a quote keeps the types and leaves the entry alone.
LEMMA EvaluateType ==
  ASSUME NEW rule \in LegRule, NEW leg \in LegState, leg.entry # NONE, NEW ltp \in Int
  PROVE  /\ EvaluateLeg(rule, leg, ltp) \in LegState
         /\ EvaluateLeg(rule, leg, ltp).entry = leg.entry
         /\ leg.sl # NONE => EvaluateLeg(rule, leg, ltp).sl # NONE
<1> DEFINE peak == FavorablePeak(rule, leg, ltp)
<1>1. peak \in Nat
  BY NoneAssumption DEF FavorablePeak, Larger, Toward, LegRule, LegState
<1>2. TrailPoints(rule, peak) \in Int \/ ~Arms(rule, peak)
  BY <1>1, StepsFit DEF TrailPoints, Arms, LegRule
<1>3. /\ EffectiveSl(rule, leg, peak) \in Int \cup {NONE}
      /\ leg.sl # NONE => EffectiveSl(rule, leg, peak) # NONE
  BY <1>1, <1>2, NoneAssumption DEF EffectiveSl, BaseSl, Toward, LegRule, LegState
<1>4. BaseTarget(rule, leg) \in Int \cup {NONE}
  BY NoneAssumption DEF BaseTarget, Toward, LegRule, LegState
<1>5. Toward(rule.position, 0, ltp - leg.entry) * rule.qty \in Int
  BY NoneAssumption DEF Toward, LegRule, LegState
<1> HIDE DEF peak
<1>6. Arms(rule, peak) \in BOOLEAN
  BY DEF Arms
<1>7. QED
  BY <1>1, <1>3, <1>4, <1>5, <1>6 DEF EvaluateLeg, LegState, peak

\* A leg's stop is kept or moved forward.
LEMMA EvaluateAdvances ==
  ASSUME NEW rule, NEW leg \in LegState, NEW ltp, leg.sl # NONE
  PROVE  LET new == EvaluateLeg(rule, leg, ltp).sl
         IN  new = leg.sl \/ Ahead(rule.position, new, leg.sl)
  BY DEF EffectiveSl, BaseSl, EvaluateLeg, LegState

\* A stop behind the peak, or at the entry, is so after a quote.
LEMMA EvaluateBehind ==
  ASSUME NEW rule \in LegRule, NEW leg \in LegState, leg.entry # NONE, NEW ltp \in Int,
         rule.y < Larger(rule.x, 1),
         \/ leg.sl = NONE
         \/ leg.sl = leg.entry
         \/ Ahead(rule.position, Toward(rule.position, leg.entry, leg.peak), leg.sl)
  PROVE  LET new == EvaluateLeg(rule, leg, ltp)
         IN  \/ new.sl = NONE
             \/ new.sl = leg.sl /\ AtEntry(rule, leg)
             \/ Ahead(rule.position, Toward(rule.position, leg.entry, new.peak), new.sl)
<1> DEFINE peak == FavorablePeak(rule, leg, ltp)
           new == EvaluateLeg(rule, leg, ltp)
           base == BaseSl(rule, leg)
<1>1. peak \in Nat /\ peak >= leg.peak
  BY NoneAssumption DEF FavorablePeak, Larger, Toward, LegRule, LegState
<1>2. new.sl = EffectiveSl(rule, leg, peak) /\ new.peak = peak
  BY DEF EvaluateLeg, LegState
<1>3. \/ base = NONE
      \/ base = leg.sl /\ AtEntry(rule, leg)
      \/ Ahead(rule.position, Toward(rule.position, leg.entry, peak), base)
  BY <1>1, NoneAssumption DEF BaseSl, AtEntry, Ahead, Toward, LegRule, LegState
<1>4. ASSUME Arms(rule, peak)
      PROVE  TrailPoints(rule, peak) \in Int /\ TrailPoints(rule, peak) < peak
  <2>1. CASE rule.y > 0
    <3>1. rule.x \in Nat /\ rule.y \in Nat \ {0} /\ rule.y < rule.x /\ peak - rule.x \in Nat
      BY <1>1, <1>4, <2>1 DEF Arms, Larger, LegRule
    <3>2. /\ ((peak - rule.x) \div rule.y) * rule.y \in Nat
          /\ ((peak - rule.x) \div rule.y) * rule.y <= peak - rule.x
      BY <3>1, StepsFit
    <3>3. QED
      BY <1>1, <2>1, <3>1, <3>2 DEF TrailPoints
  <2>2. CASE ~(rule.y > 0)
    BY <1>1, <1>4, <2>2 DEF TrailPoints, Arms, LegRule
  <2>3. QED
    BY <2>1, <2>2
<1>5. Arms(rule, peak) =>
        Ahead(rule.position, Toward(rule.position, leg.entry, peak),
              Toward(rule.position, leg.entry, TrailPoints(rule, peak)))
  BY <1>1, <1>4, NoneAssumption DEF Ahead, Toward, LegRule, LegState
<1> HIDE DEF peak, new, base
<1>6. \/ new.sl = NONE
      \/ new.sl = leg.sl /\ AtEntry(rule, leg)
      \/ Ahead(rule.position, Toward(rule.position, leg.entry, new.peak), new.sl)
  BY <1>2, <1>3, <1>5 DEF EffectiveSl, base
<1>7. QED
  BY <1>6 DEF new

-----------------------------------------------------------------------------
(* The steps *)

\* What an exit may change of a leg: nothing its stop depends on.
SameStops ==
  /\ legs' \in [Legs -> LegState]
  /\ \A l \in Legs : /\ legs'[l].sl = legs[l].sl /\ legs'[l].entry = legs[l].entry
                     /\ legs'[l].peak = legs[l].peak

\* Closing a leg keeps its type, its stop, its entry and its peak.
LEMMA ClosedType ==
  ASSUME NEW leg \in LegState, NEW sum \in Int
  PROVE  LET closed == [leg EXCEPT !.realized = sum, !.status = "closed", !.mtm = 0]
         IN  /\ closed \in LegState /\ closed.sl = leg.sl
             /\ closed.entry = leg.entry /\ closed.peak = leg.peak
<1> DEFINE a == [leg EXCEPT !.realized = sum]
           b == [a EXCEPT !.status = "closed"]
           c == [b EXCEPT !.mtm = 0]
<1>1. /\ a \in LegState /\ a.sl = leg.sl /\ a.entry = leg.entry /\ a.peak = leg.peak
  BY DEF LegState
<1> HIDE DEF a
<1>2. /\ b \in LegState /\ b.sl = leg.sl /\ b.entry = leg.entry /\ b.peak = leg.peak
  BY <1>1 DEF LegState
<1> HIDE DEF b
<1>3. /\ c \in LegState /\ c.sl = leg.sl /\ c.entry = leg.entry /\ c.peak = leg.peak
  BY <1>2 DEF LegState
<1>4. QED
  BY <1>3 DEF a, b, c

\* No outcome of an exit touches a stop, an entry or a peak.
LEMMA ExitKeepsStops ==
  ASSUME LegsOK, NEW l, ExitOutcome(l)
  PROVE  SameStops
<1>1. CASE UNCHANGED legs
  BY <1>1 DEF SameStops, LegsOK
<1>2. CASE PlaceExit(l)
  <2>1. legs' = [legs EXCEPT ![l].status = "closed"]
    BY <1>2 DEF PlaceExit
  <2>2. CASE l \in Legs
    BY <2>1, <2>2 DEF SameStops, LegsOK, LegState
  <2>3. CASE l \notin Legs
    <3>1. legs' = legs
      BY <2>1, <2>3 DEF LegsOK
    <3>2. QED
      BY <1>1, <3>1
  <2>4. QED
    BY <2>2, <2>3
<1>3. ASSUME NEW p \in Fills, FillExit(l, p)
      PROVE  SameStops
  <2> DEFINE gain == IF legs[l].entry = NONE THEN 0
              ELSE Toward(rules[l].position, 0, p - legs[l].entry) * rules[l].qty
  <2>1. legs' = [legs EXCEPT ![l].realized = @ + gain, ![l].status = "closed", ![l].mtm = 0]
    BY <1>3 DEF FillExit, Booked
  <2>2. CASE l \in Legs
    <3>1. p \in Int
      BY <1>3, PricesAssumption
    <3>2. legs[l].entry \in Int \cup {NONE} /\ rules[l].qty \in Int
      BY <2>2 DEF LegsOK, LegState, LegRule, rules
    <3>3. gain \in Int
      BY <3>1, <3>2 DEF Toward
    <3> HIDE DEF gain
    <3> DEFINE sum == legs[l].realized + gain
               closed == [legs[l] EXCEPT !.realized = sum, !.status = "closed", !.mtm = 0]
    <3>4. sum \in Int
      BY <2>2, <3>3 DEF LegsOK, LegState
    <3>5. legs' = [legs EXCEPT ![l] = closed]
      BY <2>1, <2>2 DEF LegsOK
    <3> HIDE DEF sum
    <3>6. /\ closed \in LegState /\ closed.sl = legs[l].sl
          /\ closed.entry = legs[l].entry /\ closed.peak = legs[l].peak
      <4>1. legs[l] \in LegState
        BY <2>2 DEF LegsOK
      <4>2. QED
        BY <3>4, <4>1, ClosedType
    <3> HIDE DEF closed
    <3>7. QED
      BY <2>2, <3>5, <3>6 DEF SameStops, LegsOK
  <2>3. CASE l \notin Legs
    <3>1. legs' = legs
      BY <2>1, <2>3 DEF LegsOK
    <3>2. QED
      BY <1>1, <3>1
  <2>4. QED
    BY <2>2, <2>3
<1>4. QED
  BY <1>1, <1>2, <1>3 DEF ExitOutcome, FailExit

\* What a tick does to one leg: nothing but its quote, an evaluation, or an
\* evaluation after which the stop is moved to the entry it was behind.
TickedLeg(l, ltp) ==
  LET rule == rules[l]
      new == EvaluateLeg(rule, legs[l], ltp)
  IN  \/ legs'[l] = legs[l]
      \/ legs'[l] = [legs[l] EXCEPT !.ltp = ltp]
      \/ legs[l].entry # NONE /\ legs'[l] = new
      \/ /\ toEntry' /\ MovesToEntry(rule, legs[l])
         /\ legs'[l] = [legs[l] EXCEPT !.sl = legs[l].entry]
      \/ /\ toEntry' /\ MovesToEntry(rule, new) /\ legs[l].entry # NONE
         /\ legs'[l] = [new EXCEPT !.sl = new.entry]

\* A tick is that, leg by leg, and never takes back trail-to-entry.
LEMMA TickLegs ==
  ASSUME LegsOK, NEW symbol, NEW ltp \in Prices, Tick(symbol, ltp)
  PROVE  /\ legs' = [l \in Legs |-> legs'[l]]
         /\ \A l \in Legs : TickedLeg(l, ltp)
         /\ toEntry => toEntry'
<1> DEFINE matched == {l \in Legs : Open(l) /\ Symbol[l] = symbol}
           priced == {l \in matched : legs[l].entry # NONE}
           slLegs == {l \in priced : SlHit(rules[l], legs[l], ltp)}
           evaluated == [l \in Legs |->
                     IF l \in priced THEN EvaluateLeg(rules[l], legs[l], ltp)
                     ELSE IF l \in matched THEN [legs[l] EXCEPT !.ltp = ltp]
                     ELSE legs[l]]
           moved == MovedToEntry(evaluated, slLegs)
<1>1. /\ legs' = [l \in Legs |-> IF l \in moved
                                 THEN [evaluated[l] EXCEPT !.sl = evaluated[l].entry]
                                 ELSE evaluated[l]]
      /\ toEntry' = (toEntry \/ moved # {})
  BY DEF Tick
<1>2. ASSUME NEW l \in Legs
      PROVE  TickedLeg(l, ltp)
  <2>1. evaluated[l] = IF l \in priced THEN EvaluateLeg(rules[l], legs[l], ltp)
                       ELSE IF l \in matched THEN [legs[l] EXCEPT !.ltp = ltp]
                       ELSE legs[l]
    OBVIOUS
  <2>2. l \in priced => legs[l].entry # NONE
    OBVIOUS
  <2>3. l \in moved => toEntry' /\ MovesToEntry(rules[l], evaluated[l])
    BY <1>1 DEF MovedToEntry
  <2>4. l \in matched /\ l \notin priced => legs[l].entry = NONE
    OBVIOUS
  <2> HIDE DEF matched, priced, slLegs, evaluated, moved
  <2>5. legs'[l] = IF l \in moved THEN [evaluated[l] EXCEPT !.sl = evaluated[l].entry]
                   ELSE evaluated[l]
    BY <1>1
  <2>6. CASE l \in priced
    BY <2>1, <2>2, <2>3, <2>5, <2>6 DEF TickedLeg
  <2>7. CASE l \in matched /\ l \notin priced
    <3>1. evaluated[l].entry = NONE
      BY <2>1, <2>4, <2>7 DEF LegsOK, LegState
    <3>2. QED
      BY <2>1, <2>3, <2>5, <2>7, <3>1 DEF TickedLeg, MovesToEntry
  <2>8. CASE l \notin matched /\ l \notin priced
    BY <2>1, <2>3, <2>5, <2>8 DEF TickedLeg
  <2>9. QED
    BY <2>6, <2>7, <2>8
<1>3. toEntry => toEntry'
  BY <1>1
<1> HIDE DEF matched, priced, slLegs, evaluated, moved
<1>4. legs' = [l \in Legs |-> legs'[l]]
  BY <1>1
<1>5. QED
  BY <1>2, <1>3, <1>4

\* What holds of every leg after a tick: its type, its entry, a stop no looser, and
\* a stop behind the peak if it was.
LEMMA TickedStops ==
  ASSUME LegsOK, NEW l \in Legs, NEW ltp \in Prices, TickedLeg(l, ltp),
         legs[l].sl # NONE => legs[l].entry # NONE
  PROVE  /\ legs'[l] \in LegState
         /\ legs'[l].sl # NONE => legs'[l].entry # NONE
         /\ legs[l].sl # NONE => \/ legs'[l].sl = legs[l].sl
                                \/ Ahead(rules[l].position, legs'[l].sl, legs[l].sl)
         /\ /\ rules[l].y < Larger(rules[l].x, 1)
            /\ \/ legs[l].sl = NONE
               \/ toEntry /\ toEntry' /\ legs[l].sl = legs[l].entry
               \/ Ahead(rules[l].position,
                        Toward(rules[l].position, legs[l].entry, legs[l].peak), legs[l].sl)
            => \/ legs'[l].sl = NONE
               \/ toEntry' /\ legs'[l].sl = legs'[l].entry
               \/ Ahead(rules[l].position,
                        Toward(rules[l].position, legs'[l].entry, legs'[l].peak),
                        legs'[l].sl)
<1> DEFINE rule == rules[l]
           leg == legs[l]
           leg2 == legs'[l]
           new == EvaluateLeg(rule, leg, ltp)
<1>1. rule \in LegRule /\ leg \in LegState /\ ltp \in Int
  BY PricesAssumption DEF LegsOK, rules
<1> HIDE DEF rule, leg
<1>2. leg.entry # NONE => /\ new \in LegState /\ new.entry = leg.entry
                          /\ leg.sl # NONE => new.sl # NONE
  BY <1>1, EvaluateType
<1>3. leg.sl # NONE => new.sl = leg.sl \/ Ahead(rule.position, new.sl, leg.sl)
  BY <1>1, EvaluateAdvances
<1>4. leg.entry # NONE /\ rule.y < Larger(rule.x, 1)
      /\ \/ leg.sl = NONE
         \/ leg.sl = leg.entry
         \/ Ahead(rule.position, Toward(rule.position, leg.entry, leg.peak), leg.sl)
      => \/ new.sl = NONE
         \/ new.sl = leg.sl /\ AtEntry(rule, leg)
         \/ Ahead(rule.position, Toward(rule.position, leg.entry, new.peak), new.sl)
  BY <1>1, EvaluateBehind
<1>5. leg.sl # NONE => leg.entry # NONE
  BY DEF leg
<1> HIDE DEF new
<1>6. /\ leg2 \in LegState
      /\ leg2.sl # NONE => leg2.entry # NONE
      /\ leg.sl # NONE => leg2.sl = leg.sl \/ Ahead(rule.position, leg2.sl, leg.sl)
      /\ /\ rule.y < Larger(rule.x, 1)
         /\ \/ leg.sl = NONE
            \/ toEntry /\ toEntry' /\ leg.sl = leg.entry
            \/ Ahead(rule.position, Toward(rule.position, leg.entry, leg.peak), leg.sl)
         => \/ leg2.sl = NONE
            \/ toEntry' /\ leg2.sl = leg2.entry
            \/ Ahead(rule.position, Toward(rule.position, leg2.entry, leg2.peak), leg2.sl)
  <2>1. CASE leg2 = leg
    BY <1>1, <1>5, <2>1
  <2>2. CASE leg2 = [leg EXCEPT !.ltp = ltp]
    <3>1. /\ leg2 \in LegState /\ leg2.sl = leg.sl /\ leg2.entry = leg.entry
          /\ leg2.peak = leg.peak
      BY <1>1, <2>2 DEF LegState
    <3>2. QED
      BY <1>5, <3>1
  <2>3. CASE leg.entry # NONE /\ leg2 = new
    BY <1>2, <1>3, <1>4, <2>3 DEF AtEntry
  <2>4. CASE /\ toEntry' /\ MovesToEntry(rule, leg)
             /\ leg2 = [leg EXCEPT !.sl = leg.entry]
    <3>1. leg2 \in LegState /\ leg2.sl = leg.entry /\ leg2.entry = leg.entry
      BY <1>1, <2>4 DEF LegState
    <3>2. QED
      BY <2>4, <3>1 DEF MovesToEntry
  <2>5. CASE /\ toEntry' /\ MovesToEntry(rule, new) /\ leg.entry # NONE
             /\ leg2 = [new EXCEPT !.sl = new.entry]
    <3>1. leg2 \in LegState /\ leg2.sl = new.entry /\ leg2.entry = new.entry
      BY <1>2, <2>5 DEF LegState
    <3>2. leg.sl # NONE => Ahead(rule.position, leg2.sl, leg.sl)
      BY <1>1, <1>2, <1>3, <2>5, <3>1, NoneAssumption
      DEF MovesToEntry, Ahead, LegState, LegRule
    <3>3. QED
      BY <2>5, <3>1, <3>2 DEF MovesToEntry
  <2>6. QED
    BY <2>1, <2>2, <2>3, <2>4, <2>5 DEF TickedLeg, rule, leg, new
<1>7. QED
  BY <1>6 DEF rule, leg

-----------------------------------------------------------------------------
(* The specification *)

\* A step is a tick, or leaves the stops, the floor and the strategy alone.
Quiet == SameStops /\ UNCHANGED <<strategy, toEntry, lock>>

LEMMA TickOrQuiet ==
  ASSUME LegsOK, [Next]_vars
  PROVE  Quiet \/ \E l \in Legs, p \in Prices : Tick(Symbol[l], p)
<1>1. ASSUME UNCHANGED <<strategy, legs, toEntry, lock>>
      PROVE  Quiet
  BY <1>1 DEF Quiet, SameStops, LegsOK
<1>2. ASSUME NEW w \in Workers, ExitLeg(w) \/ StopExit(w)
      PROVE  Quiet
  <2>1. /\ ExitOutcome(Min(job[w].exits))
        /\ UNCHANGED <<strategy, toEntry, lock>>
    BY <1>2 DEF ExitLeg, StopExit
  <2>2. QED
    BY <2>1, ExitKeepsStops DEF Quiet
<1>3. ASSUME NEW w \in Workers, BeginStop(w) \/ EndStop(w)
      PROVE  Quiet
  BY <1>1, <1>3 DEF BeginStop, EndStop
<1>4. ASSUME StopRun \/ \E l \in Legs : CloseLeg(l)
      PROVE  Quiet
  BY <1>1, <1>4 DEF StopRun, CloseLeg
<1>5. CASE UNCHANGED vars
  BY <1>1, <1>5 DEF vars
<1>6. QED
  BY <1>2, <1>3, <1>4, <1>5 DEF Next

\* The inductive invariant of the stops.
StopInv == LegsOK /\ StopHasEntry /\ StopBehindPeak

\* Before the first quote no leg has a stop.
LEMMA StopInit == Init => StopInv
<1> SUFFICES ASSUME Init PROVE StopInv
  OBVIOUS
<1>1. strategy \in [legs : [Legs -> LegRule], run : RunRule]
  BY StrategiesAssumption DEF Init
<1>2. \A e \in Int \cup {NONE}, s \in {"open", "rejected"} :
        NewLeg(s, e) \in LegState /\ NewLeg(s, e).sl = NONE
  BY DEF NewLeg, LegState
<1>3. ASSUME NEW l \in Legs
      PROVE  legs[l] \in LegState /\ legs[l].sl = NONE
  <2>1. \/ \E p \in Entries \cup {NONE} : legs[l] = NewLeg("open", p)
        \/ legs[l] = NewLeg("rejected", NONE)
    BY <1>3 DEF Init
  <2>2. Entries \subseteq Int
    BY PricesAssumption
  <2>3. QED
    BY <1>2, <2>1, <2>2
<1>4. legs = [l \in Legs |-> legs[l]]
  BY DEF Init
<1>5. LegsOK
  BY <1>1, <1>3, <1>4 DEF LegsOK
<1>6. QED
  BY <1>3, <1>5 DEF StopInv, StopHasEntry, StopBehindPeak

\* A step keeps the invariant and loosens no stop.
LEMMA StopStep ==
  ASSUME StopInv, [Next]_vars
  PROVE  /\ StopInv'
         /\ \A l \in Legs : legs[l].sl # NONE =>
               \/ legs'[l].sl = legs[l].sl
               \/ Ahead(rules[l].position, legs'[l].sl, legs[l].sl)
<1>1. LegsOK
  BY DEF StopInv
<1>2. CASE Quiet
  BY <1>2 DEF Quiet, SameStops, StopInv, LegsOK, StopHasEntry, StopBehindPeak, rules
<1>3. ASSUME NEW k \in Legs, NEW p \in Prices, Tick(Symbol[k], p)
      PROVE  /\ StopInv'
             /\ \A l \in Legs : legs[l].sl # NONE =>
                   \/ legs'[l].sl = legs[l].sl
                   \/ Ahead(rules[l].position, legs'[l].sl, legs[l].sl)
  <2>1. /\ legs' = [l \in Legs |-> legs'[l]]
        /\ \A l \in Legs : TickedLeg(l, p)
        /\ toEntry => toEntry'
    BY <1>1, <1>3, TickLegs
  <2>2. strategy' = strategy /\ rules' = rules
    BY <1>3 DEF Tick, rules
  <2>3. ASSUME NEW l \in Legs
        PROVE  /\ legs'[l] \in LegState
               /\ legs'[l].sl # NONE => legs'[l].entry # NONE
               /\ legs[l].sl # NONE => \/ legs'[l].sl = legs[l].sl
                                      \/ Ahead(rules[l].position, legs'[l].sl, legs[l].sl)
               /\ rules[l].y < Larger(rules[l].x, 1) =>
                     \/ legs'[l].sl = NONE
                     \/ toEntry' /\ legs'[l].sl = legs'[l].entry
                     \/ Ahead(rules[l].position,
                              Toward(rules[l].position, legs'[l].entry, legs'[l].peak),
                              legs'[l].sl)
    <3>1. TickedLeg(l, p) /\ (legs[l].sl # NONE => legs[l].entry # NONE)
      BY <2>1 DEF StopInv, StopHasEntry
    <3>2. rules[l].y < Larger(rules[l].x, 1) =>
            \/ legs[l].sl = NONE
            \/ toEntry /\ toEntry' /\ legs[l].sl = legs[l].entry
            \/ Ahead(rules[l].position,
                     Toward(rules[l].position, legs[l].entry, legs[l].peak), legs[l].sl)
      BY <2>1 DEF StopInv, StopBehindPeak
    <3>3. QED
      BY <1>1, <3>1, <3>2, TickedStops
  <2>4. LegsOK'
    BY <1>1, <2>1, <2>2, <2>3 DEF LegsOK
  <2>5. StopHasEntry' /\ StopBehindPeak'
    BY <2>2, <2>3 DEF StopHasEntry, StopBehindPeak
  <2>6. QED
    BY <2>3, <2>4, <2>5 DEF StopInv
<1>4. QED
  BY <1>1, <1>2, <1>3, TickOrQuiet

\* In every run of every strategy a stop with y < x stays behind the best price of
\* its leg (evaluate_leg, apply_trail_to_entry).
THEOREM StopsStayBehind == Spec => []StopBehindPeak
<1>1. StopInv /\ [Next]_vars => StopInv'
  BY StopStep
<1>2. StopInv => StopBehindPeak
  BY DEF StopInv
<1>3. QED
  BY <1>1, <1>2, StopInit, PTL DEF Spec

\* In every run of every strategy no step moves a stop against its position.
THEOREM StopsNeverLoosen == Spec => StopNeverLoosens
<1>1. StopInv /\ [Next]_vars => StopInv'
  BY StopStep
<1>2. StopInv /\ [Next]_vars =>
        [\A l \in Legs : legs[l].sl # NONE =>
           \/ legs'[l].sl = legs[l].sl
           \/ Ahead(rules[l].position, legs'[l].sl, legs[l].sl)]_vars
  BY StopStep
<1>3. QED
  BY <1>1, <1>2, StopInit, PTL DEF Spec, StopNeverLoosens

\* In every run of every strategy the armed lock-profit floor only rises
\* (evaluate_strategy).
THEOREM FloorsNeverFall == Spec => FloorNeverFalls
<1>1. ASSUME LegsOK, [Next]_vars, lock.armed, lock.floor # NONE
      PROVE  lock'.armed /\ (lock'.floor = lock.floor \/ lock'.floor > lock.floor)
  <2>1. CASE Quiet
    BY <1>1, <2>1 DEF Quiet
  <2>2. ASSUME NEW l \in Legs, NEW p \in Prices, Tick(Symbol[l], p)
        PROVE  lock'.armed /\ (lock'.floor = lock.floor \/ lock'.floor > lock.floor)
    <3>1. PICK total, peak :
            /\ lock'.armed = (lock.armed \/ (strategy.run.mode # "none"
                                            /\ total >= strategy.run.armAt))
            /\ lock'.floor = LockFloor(strategy.run, lock.armed, lock.floor, total, peak)
      BY <2>2 DEF Tick
    <3>2. QED
      BY <1>1, <3>1 DEF LockFloor
  <2>3. QED
    BY <1>1, <2>1, <2>2, TickOrQuiet
<1>2. StopInv /\ [Next]_vars => StopInv'
  BY StopStep
<1>3. StopInv => LegsOK
  BY DEF StopInv
<1>4. QED
  BY <1>1, <1>2, <1>3, StopInit, PTL DEF Spec, FloorNeverFalls

-----------------------------------------------------------------------------
(* Stops that are hit *)

JobOK == job \in [Workers -> [exits : SUBSET Legs, stop : {"none", "manual"} \cup StopReasons,
                              stopping : BOOLEAN]]

\* The last quote of an open leg is at or past its stop.
Breached(l) ==
  /\ Open(l) /\ legs[l].entry # NONE /\ legs[l].sl # NONE /\ legs[l].ltp # NONE
  /\ ~Ahead(rules[l].position, legs[l].ltp, legs[l].sl)

Moved(l) == toEntry /\ legs[l].sl = legs[l].entry

BreachInv == StopInv /\ JobOK /\ BreachedLegIsExiting

\* An exit closes its leg, or leaves it among the failed ones, or finds nothing open.
LEMMA ExitSettles ==
  ASSUME LegsOK, NEW l \in Legs, ExitOutcome(l)
  PROVE  /\ \A k \in Legs : k # l => legs'[k] = legs[k] /\ (k \in failed' <=> k \in failed)
         /\ running => legs'[l].status # "open" \/ (legs'[l] = legs[l] /\ l \in failed')
<1>1. CASE ~(running /\ Open(l))
  BY <1>1 DEF ExitOutcome, Open
<1>2. CASE FailExit(l)
  BY <1>2 DEF FailExit
<1>3. ASSUME legs' = [legs EXCEPT ![l] = legs'[l]], legs'[l].status = "closed", failed' = failed \ {l}
      PROVE  /\ \A k \in Legs : k # l => legs'[k] = legs[k] /\ (k \in failed' <=> k \in failed)
             /\ legs'[l].status # "open"
  BY <1>3 DEF LegsOK
<1>4. CASE PlaceExit(l)
  <2>1. legs' = [legs EXCEPT ![l] = [legs[l] EXCEPT !.status = "closed"]]
    BY <1>4 DEF PlaceExit
  <2>2. legs'[l].status = "closed" /\ legs' = [legs EXCEPT ![l] = legs'[l]]
    BY <2>1 DEF LegsOK, LegState
  <2>3. QED
    BY <1>3, <1>4, <2>2 DEF PlaceExit
<1>5. ASSUME NEW p \in Fills, FillExit(l, p)
      PROVE  /\ \A k \in Legs : k # l => legs'[k] = legs[k] /\ (k \in failed' <=> k \in failed)
             /\ legs'[l].status # "open"
  <2>1. PICK sum : legs' = [legs EXCEPT ![l].realized = sum, ![l].status = "closed", ![l].mtm = 0]
    BY <1>5 DEF FillExit, Booked, LegsOK
  <2>2. PICK leg : leg = [legs[l] EXCEPT !.realized = sum, !.status = "closed", !.mtm = 0]
    OBVIOUS
  <2>3. legs' = [legs EXCEPT ![l] = leg]
    BY <2>1, <2>2 DEF LegsOK
  <2>4. leg.status = "closed"
    BY <2>2 DEF LegsOK, LegState
  <2>5. legs'[l] = leg
    BY <2>3 DEF LegsOK
  <2>6. QED
    BY <1>3, <1>5, <2>3, <2>4, <2>5 DEF FillExit
<1>6. QED
  BY <1>1, <1>2, <1>4, <1>5 DEF ExitOutcome

\* The leg a worker exits next is one of those it has to exit.
LEMMA MinIn ==
  ASSUME NEW S \in SUBSET Legs, S # {}
  PROVE  Min(S) \in S
<1>1. S \in SUBSET Nat
  BY LegsAssumption
<1>2. \E n \in S : \A m \in S : n <= m
  BY <1>1, LeastNat
<1>3. QED
  BY <1>2 DEF Min

\* A worker's exit takes one leg off its list, settled.
LEMMA ExitBreach ==
  ASSUME BreachInv, NEW w \in Workers, ExitLeg(w) \/ StopExit(w)
  PROVE  JobOK' /\ BreachedLegIsExiting'
<1>1. PICK l : l = Min(job[w].exits)
  OBVIOUS
<1>2. /\ ExitOutcome(l) /\ job' = [job EXCEPT ![w].exits = @ \ {l}]
      /\ UNCHANGED <<strategy, toEntry>>
  BY <1>1 DEF ExitLeg, StopExit
<1>3. running' => running
  BY DEF ExitLeg, StopExit
<1>4. job[w].exits \in SUBSET Legs /\ job[w].exits # {}
  BY DEF BreachInv, JobOK, ExitLeg, StopExit
<1>5. l \in Legs
  BY <1>1, <1>4, MinIn
<1>6. /\ \A k \in Legs : k # l => legs'[k] = legs[k] /\ (k \in failed' <=> k \in failed)
      /\ running => legs'[l].status # "open" \/ (legs'[l] = legs[l] /\ l \in failed')
  BY <1>2, <1>5, ExitSettles DEF BreachInv, StopInv
<1>7. JobOK' /\ \A k \in Legs : k # l => (k \in job'["tick"].exits <=> k \in job["tick"].exits)
  BY <1>2 DEF BreachInv, JobOK, Workers
<1>8. SUFFICES ASSUME running', NEW k \in Legs, Breached(k)'
               PROVE  k \in job'["tick"].exits \cup failed' \/ Moved(k)'
  BY <1>7 DEF BreachedLegIsExiting, Breached, Moved
<1>9. CASE k = l
  BY <1>3, <1>6, <1>8, <1>9 DEF Breached, Open
<1>10. CASE k # l
  <2>1. legs'[k] = legs[k] /\ rules' = rules
    BY <1>2, <1>6, <1>10 DEF rules
  <2>2. Breached(k)
    BY <1>8, <2>1 DEF Breached, Open
  <2>3. k \in job["tick"].exits \cup failed \/ Moved(k)
    BY <1>3, <1>8, <2>2 DEF BreachInv, BreachedLegIsExiting, Breached, Moved
  <2>4. QED
    BY <1>2, <1>6, <1>7, <1>10, <2>1, <2>3 DEF Moved
<1>11. QED
  BY <1>9, <1>10

\* A tick hands every leg it finds at its stop to the worker that exits it.
LEMMA TickBreach ==
  ASSUME BreachInv, NEW symbol, NEW ltp \in Prices, Tick(symbol, ltp)
  PROVE  JobOK' /\ BreachedLegIsExiting'
<1> DEFINE matched == {l \in Legs : Open(l) /\ Symbol[l] = symbol}
           priced == {l \in matched : legs[l].entry # NONE}
           slLegs == {l \in priced : SlHit(rules[l], legs[l], ltp)}
           targetLegs == {l \in priced : TargetHit(rules[l], legs[l], ltp)}
           evaluated == [l \in Legs |->
                     IF l \in priced THEN EvaluateLeg(rules[l], legs[l], ltp)
                     ELSE IF l \in matched THEN [legs[l] EXCEPT !.ltp = ltp]
                     ELSE legs[l]]
           moved == MovedToEntry(evaluated, slLegs)
<1>1. /\ legs' = [l \in Legs |-> IF l \in moved
                                 THEN [evaluated[l] EXCEPT !.sl = evaluated[l].entry]
                                 ELSE evaluated[l]]
      /\ toEntry' = (toEntry \/ moved # {})
      /\ running /\ job["tick"] = Idle /\ UNCHANGED <<strategy, running, failed>>
  BY DEF Tick
<1>2. PICK reason \in {"none"} \cup StopReasons :
        job' = [job EXCEPT !["tick"] = [exits |-> slLegs \cup targetLegs, stop |-> reason,
                                        stopping |-> FALSE]]
  <2>1. \A c, a, f, tot, b : StopReason(c, a, f, tot, b) \in {"none"} \cup StopReasons
    BY DEF StopReason, StopReasons
  <2>2. QED
    BY <2>1 DEF Tick
<1>3. slLegs \cup targetLegs \in SUBSET Legs
  OBVIOUS
<1>4. JobOK' /\ job'["tick"].exits = slLegs \cup targetLegs
  BY <1>2, <1>3 DEF BreachInv, JobOK, Workers
<1>5. SUFFICES ASSUME NEW k \in Legs, Breached(k)', ~Moved(k)'
               PROVE  k \in slLegs \cup failed
  BY <1>1, <1>4 DEF BreachedLegIsExiting, Breached, Moved
<1>6. rules' = rules
  BY <1>1 DEF rules
<1>7. k \notin moved
  <2>1. SUFFICES ASSUME k \in moved PROVE FALSE
    OBVIOUS
  <2>2. legs'[k] = [evaluated[k] EXCEPT !.sl = evaluated[k].entry] /\ toEntry'
    BY <1>1, <2>1
  <2>3. evaluated[k] \in LegState
    <3>1. legs[k] \in LegState /\ rules[k] \in LegRule /\ ltp \in Int
      BY PricesAssumption DEF BreachInv, StopInv, LegsOK, rules
    <3>2. k \in priced => EvaluateLeg(rules[k], legs[k], ltp) \in LegState
      BY <3>1, EvaluateType
    <3>3. [legs[k] EXCEPT !.ltp = ltp] \in LegState
      BY <3>1 DEF LegState
    <3>4. evaluated[k] = IF k \in priced THEN EvaluateLeg(rules[k], legs[k], ltp)
                         ELSE IF k \in matched THEN [legs[k] EXCEPT !.ltp = ltp] ELSE legs[k]
      OBVIOUS
    <3> HIDE DEF matched, priced, evaluated
    <3>5. QED
      BY <3>1, <3>2, <3>3, <3>4
  <2> HIDE DEF evaluated, moved
  <2>4. legs'[k].sl = legs'[k].entry
    BY <2>2, <2>3 DEF LegState
  <2>5. QED
    BY <1>5, <2>2, <2>4 DEF Moved
<1>8. legs'[k] = evaluated[k]
  BY <1>1, <1>7
<1>9. CASE k \in priced
  <2>1. legs'[k] = EvaluateLeg(rules[k], legs[k], ltp)
    BY <1>8, <1>9
  <2>2. legs[k] \in LegState
    BY DEF BreachInv, StopInv, LegsOK
  <2>3. /\ legs'[k].ltp = ltp
        /\ legs'[k].sl = EffectiveSl(rules[k], legs[k], FavorablePeak(rules[k], legs[k], ltp))
    BY <2>1, <2>2 DEF EvaluateLeg, LegState
  <2>4. SlHit(rules[k], legs[k], ltp)
    BY <1>5, <1>6, <2>3 DEF Breached, SlHit
  <2>5. QED
    BY <1>9, <2>4
<1>10. CASE k \in matched /\ k \notin priced
  <2>1. legs'[k] = [legs[k] EXCEPT !.ltp = ltp] /\ legs[k].entry = NONE
    BY <1>8, <1>10
  <2>2. legs[k] \in LegState
    BY DEF BreachInv, StopInv, LegsOK
  <2>3. legs'[k].entry = NONE
    BY <2>1, <2>2 DEF LegState
  <2>4. QED
    BY <1>5, <2>3 DEF Breached
<1>11. CASE k \notin matched
  <2>1. legs'[k] = legs[k]
    BY <1>8, <1>11
  <2>2. Breached(k) /\ ~Moved(k)
    BY <1>1, <1>5, <1>6, <2>1 DEF Breached, Open, Moved
  <2>3. k \in job["tick"].exits \cup failed
    BY <1>1, <2>2 DEF BreachInv, BreachedLegIsExiting, Breached, Moved
  <2>4. QED
    BY <1>1, <2>3 DEF Idle
<1>12. QED
  BY <1>9, <1>10, <1>11

LEMMA BreachNext ==
  ASSUME BreachInv, [Next]_vars
  PROVE  JobOK' /\ BreachedLegIsExiting'
<1>1. ASSUME NEW w \in Workers, BeginStop(w)
      PROVE  JobOK' /\ job["tick"].exits \subseteq job'["tick"].exits
  <2>1. job[w].exits = {} /\ UNCHANGED <<strategy, legs, toEntry, running, failed>>
    BY <1>1 DEF BeginStop
  <2>2. CASE job' = [job EXCEPT ![w].exits = Legs, ![w].stopping = TRUE]
    BY <2>1, <2>2 DEF BreachInv, JobOK, Workers
  <2>3. CASE job' = [job EXCEPT ![w] = Idle]
    BY <2>1, <2>3 DEF BreachInv, JobOK, Workers, Idle
  <2>4. QED
    BY <1>1, <2>2, <2>3 DEF BeginStop
<1>2. ASSUME StopRun \/ \E l \in Legs : CloseLeg(l)
      PROVE  JobOK' /\ job["tick"].exits \subseteq job'["tick"].exits
  <2>1. CASE StopRun
    BY <2>1 DEF StopRun, BreachInv, JobOK, Workers
  <2>2. ASSUME NEW l \in Legs, CloseLeg(l)
        PROVE  JobOK' /\ job["tick"].exits \subseteq job'["tick"].exits
    BY <2>2 DEF CloseLeg, BreachInv, JobOK, Workers
  <2>3. QED
    BY <1>2, <2>1, <2>2
<1>3. ASSUME UNCHANGED <<strategy, legs, toEntry, running, failed>>,
             JobOK' /\ job["tick"].exits \subseteq job'["tick"].exits
      PROVE  JobOK' /\ BreachedLegIsExiting'
  BY <1>3 DEF BreachInv, BreachedLegIsExiting, Open, rules
<1>4. CASE UNCHANGED vars
  BY <1>3, <1>4 DEF vars, BreachInv, JobOK
<1>5. ASSUME NEW w \in Workers, EndStop(w) PROVE JobOK' /\ BreachedLegIsExiting'
  BY <1>5 DEF EndStop, BreachInv, JobOK, Workers, Idle, BreachedLegIsExiting
<1>6. ASSUME NEW l \in Legs, NEW p \in Prices, Tick(Symbol[l], p)
      PROVE  JobOK' /\ BreachedLegIsExiting'
  BY <1>6, TickBreach
<1>7. ASSUME NEW w \in Workers, BeginStop(w) PROVE JobOK' /\ BreachedLegIsExiting'
  BY <1>1, <1>3, <1>7 DEF BeginStop
<1>8. ASSUME StopRun \/ \E l \in Legs : CloseLeg(l) PROVE JobOK' /\ BreachedLegIsExiting'
  BY <1>2, <1>3, <1>8 DEF StopRun, CloseLeg
<1>9. ASSUME NEW w \in Workers, ExitLeg(w) \/ StopExit(w) PROVE JobOK' /\ BreachedLegIsExiting'
  BY <1>9, ExitBreach
<1>10. QED
  BY <1>4, <1>5, <1>6, <1>7, <1>8, <1>9 DEF Next

\* In every run of every strategy, a leg whose quote has reached its stop is being
\* exited, or its exit failed, or trail-to-entry only now put the stop there: exits
\* of the user, of a stop of the run and of other legs lose none of the legs that
\* _process_tick_for_run found hit.
THEOREM BreachedLegsExit == Spec => []BreachedLegIsExiting
<1>1. Init => JobOK /\ BreachedLegIsExiting
  <2>1. SUFFICES ASSUME Init PROVE JobOK /\ BreachedLegIsExiting
    OBVIOUS
  <2>2. JobOK
    BY <2>1 DEF Init, JobOK, Idle
  <2>3. \A l \in Legs : legs[l].sl = NONE
    BY <2>1 DEF Init, NewLeg
  <2>4. QED
    BY <2>2, <2>3 DEF BreachedLegIsExiting
<1>2. StopInv /\ JobOK /\ BreachedLegIsExiting /\ [Next]_vars => JobOK' /\ BreachedLegIsExiting'
  BY BreachNext DEF BreachInv
<1>3. StopInv /\ [Next]_vars => StopInv'
  BY StopStep
<1>4. QED
  BY <1>1, <1>2, <1>3, StopInit, PTL DEF Spec
=============================================================================
