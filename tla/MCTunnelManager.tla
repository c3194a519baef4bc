-------------------------- MODULE MCTunnelManager --------------------------
(* A small instance of TunnelManager for TLC.                              *)
EXTENDS TunnelManager

CONSTANTS alice, bob, kalshi, t1, t2, t3, c1, c2
MCUsers     == {alice, bob}
MCExchanges == {kalshi}
MCTunnels   == {t1, t2, t3}
MCCallers   == {c1, c2}
=============================================================================
