---------------------------- MODULE MarketFeedMC ----------------------------
(* One or two clients of the proxy, one or two instruments. *)
EXTENDS MarketFeed

CONSTANTS c1, c2
=============================================================================
