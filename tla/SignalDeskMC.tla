---------------------------- MODULE SignalDeskMC ----------------------------
(* One strategy, one or two legs that take either side, operator and webhook *)
(* requests in one or two tasks, the scheduler in a task of its own.         *)
EXTENDS SignalDesk

CONSTANTS cron, desk1, desk2

EitherSide == [l \in Legs |-> "both"]
Mixed == [l \in Legs |-> IF l = 1 THEN "both" ELSE "long"]
LongOnly == [l \in Legs |-> "long"]
=============================================================================
