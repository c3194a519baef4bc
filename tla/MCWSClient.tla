---------------------------- MODULE MCWSClient ----------------------------
(* A small instance of WSClient for TLC.                                   *)
EXTENDS WSClient

CONSTANTS w1, w2, w3, s1, s2
MCConnIds == {w1, w2, w3}
MCSubs    == {s1, s2}
=============================================================================
