---------------------------- MODULE DeliveryBook ----------------------------
(***************************************************************************)
(* What the delivery side of the sandbox promises to the owner of a share, *)
(* whatever jobs run, crash and run again: a share that was bought is in   *)
(* the position book until it is settled, then in the holdings book, and   *)
(* never in both or in neither (sandbox/t1_settle.py, models/sandbox.py).  *)
(***************************************************************************)
EXTENDS Integers

CONSTANT Shares       \* symbols traded for delivery

VARIABLES position,   \* net quantity in the position book
          holding     \* settled quantity

dvars == <<position, holding>>

Init == /\ position = [k \in Shares |-> 0]
        /\ holding = [k \in Shares |-> 0]

\* The user buys or sells: one position moves, nothing is settled.
Trade ==
  /\ holding' = holding
  /\ position' \in [Shares -> Int]
  /\ \E k \in Shares : \A j \in Shares \ {k} : position'[j] = position[j]

\* Long positions move into holdings, each of them whole.
Settle ==
  \E S \in SUBSET Shares :
    /\ \A k \in S : position[k] > 0
    /\ position' = [k \in Shares |-> IF k \in S THEN 0 ELSE position[k]]
    /\ holding' = [k \in Shares |-> IF k \in S THEN holding[k] + position[k]
                                    ELSE holding[k]]

\* The account is wiped: weekly reset or the user's own.
Wipe ==
  /\ position' = [k \in Shares |-> 0]
  /\ holding' = [k \in Shares |-> 0]

Next == Trade \/ Settle \/ Wipe

Spec == Init /\ [][Next]_dvars
=============================================================================
