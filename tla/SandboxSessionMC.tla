--------------------------- MODULE SandboxSessionMC ---------------------------
(* Small instances of SandboxSession for TLC. *)
EXTENDS SandboxSession, TLC

ThreeKeys == {"acme", "day", "fut"}
TwoKeys == {"acme", "day"}
DeliveryAndFuture == {"acme", "fut"}
Products == [k \in {"acme", "day", "fut"} |->
               CASE k = "acme" -> "CNC" [] k = "day" -> "MIS" [] k = "fut" -> "FNO"]
EveryProduct == [k \in ThreeKeys |-> Products[k]]
CashProducts == [k \in TwoKeys |-> Products[k]]
DeliveryAndFutureProducts == [k \in DeliveryAndFuture |-> Products[k]]
LongOnly == {1}
BothSides == {1, -1}
Gain == {1}
=============================================================================
