---------------------------- MODULE MarginLedger ----------------------------
(***************************************************************************)
(* What the sandbox funds row promises, whatever calls the book makes and  *)
(* in whatever order they arrive (sandbox/fund_manager.py):                *)
(*                                                                         *)
(*   - margin is only taken out of cash that is there, rupee for rupee;    *)
(*   - a release gives back at least what leaves used_margin, and the cash *)
(*     row and the PnL row move by the same PnL in the same transaction.   *)
(*                                                                         *)
(* The second clause is an inequality because release_margin clamps        *)
(* used_margin at zero: it may give out more than it takes back.           *)
(***************************************************************************)
EXTENDS Integers

CONSTANT Capital

VARIABLES available, used, realized

lvars == <<available, used, realized>>

Init == available = Capital /\ used = 0 /\ realized = 0

Block ==
  LET taken == used' - used
  IN  /\ taken > 0
      /\ taken <= available
      /\ available' = available - taken
      /\ realized' = realized

Release ==
  LET pnl == realized' - realized
  IN  /\ 0 <= used' /\ used' <= used
      /\ available' + used' >= available + used + pnl

Next == Block \/ Release

Spec == Init /\ [][Next]_lvars
=============================================================================
