---------------------------- MODULE MCValidator ----------------------------
(* A small instance of Validator for TLC: an order that only the gate can  *)
(* reject, one at the bound of the price and one below the lot size.       *)
EXTENDS Validator

CONSTANTS m1, c1, poly
MCMarkets   == {m1}
MCExchanges == {poly}
MCVenue     == [m \in MCMarkets |-> poly]
MCCallers   == {c1}

Good == [side |-> "buy", type |-> "limit", venue |-> poly, market |-> m1, price |-> 99, quantity |-> 1]
MCOrders ==
  {Good,
   [Good EXCEPT !.type = "stop", !.price = 100],
   [Good EXCEPT !.type = "market", !.price = 0, !.quantity = 0]}
=============================================================================
