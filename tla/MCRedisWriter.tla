--------------------------- MODULE MCRedisWriter ---------------------------
(* A small instance of Broadcaster and RedisWriter for TLC.                *)
EXTENDS RedisWriter, TLC

CONSTANTS m1, m2, poly, kalshi, p1, p2, client
MCKeys     == {m1, m2}
MCSources  == {poly, kalshi}
MCSourceOf == (m1 :> poly) @@ (m2 :> kalshi)
MCPrices   == {p1, p2}
MCPricesOf == (m1 :> {p1, p2}) @@ (m2 :> {p1})
MCFiltered == {client}
MCFilterOf == [s \in MCFiltered |-> m2]
MCUnified  == {feed}
MCMaxUpdates == (m1 :> 2) @@ (m2 :> 1)
=============================================================================
