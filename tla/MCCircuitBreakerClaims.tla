------------------------- MODULE MCCircuitBreakerClaims -------------------------
(* A small instance of CircuitBreakerClaims for TLC.                       *)
EXTENDS CircuitBreakerClaims

CONSTANTS m1, c1, poly
MCMarkets   == {m1}
MCExchanges == {poly}
MCVenue     == [m \in MCMarkets |-> poly]
MCCallers   == {c1}
=============================================================================
