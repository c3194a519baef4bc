---------------------------- MODULE MCMarketFeed ----------------------------
(* A small instance of MarketFeed for TLC: two tickers, the second of      *)
(* which changes less; quantities that lost deltas can drive below zero.   *)
EXTENDS MarketFeed, TLC

CONSTANTS t1, t2, l1, l2
MCTickers == {t1, t2}
MCLevels  == {l1, l2}
MCDeltas  == {-1, 1}
MCMaxChanges == (t1 :> 2) @@ (t2 :> 1)
=============================================================================
