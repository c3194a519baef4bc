--------------------------- MODULE MCUnifiedBook ---------------------------
(* A small instance of UnifiedBook for TLC: one pair, and books that cross *)
(* in either direction, in none, have an empty side, or an ask of 0.       *)
EXTENDS UnifiedBook, TLC

CONSTANTS pair, pm, km
MCPairs == {pair}
MCKeys  == {pm, km}
MCMarketOf == (<<pair, "poly">> :> pm) @@ (<<pair, "kalshi">> :> km)
MCBooks ==
  {[bids |-> {4, 5}, asks |-> {7, 8}], [bids |-> {1}, asks |-> {2, 3}], [bids |-> {3}, asks |-> {}],
   [bids |-> {1}, asks |-> {0, 2}]}
MCMaxUpdates == (pm :> 2) @@ (km :> 1)
=============================================================================
