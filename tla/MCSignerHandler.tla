------------------------- MODULE MCSignerHandler --------------------------
(* A small instance of SignerHandler for TLC.  maker_amount is parsed as a *)
(* signed number, so one of the order values is negative.                  *)
EXTENDS SignerHandler

CONSTANTS k1, k2, r1, r2
MCKeys     == {k1, k2}
MCLimits   == {2}
MCValues   == {-1, 2}
MCRequests == {r1, r2}
=============================================================================
