----------------------------- MODULE Validator -----------------------------
(***************************************************************************)
(* internal/engine/validator.go with the circuit breaker as its gate.      *)
(* Each caller validates one order at a time: the checks of the order's    *)
(* own fields read nothing that changes, so they are one step; the last    *)
(* check is a call of CanTrade, with all of its steps.  Validate never     *)
(* looks at the status an order comes with, so it may be run again.        *)
(* Prices are cents, for (0.0, 1.0) is (0, 100).                           *)
(***************************************************************************)
EXTENDS CircuitBreaker

CONSTANTS Orders,        \* the orders that may be validated
          MinPrice, MaxPrice, MinLotSize     \* DefaultConstraints, of either exchange


ASSUME OrdersAssumption ==
  /\ Orders \subseteq [side : {"buy", "sell", "none"}, type : {"limit", "market", "stop", "none"},
                       venue : Exchanges \cup {"none"}, market : Markets, price : Int, quantity : Int]
  /\ "none" \notin Exchanges
  /\ \A o \in Orders : o.venue \in Exchanges => Venue[o.market] = o.venue
ASSUME ConstraintsAssumption == MinPrice \in Int /\ MaxPrice \in Int /\ MinLotSize \in Int

NoOrder == [side |-> "none", type |-> "none", venue |-> "none", market |-> AnyMarket,
            price |-> 0, quantity |-> 0]

VARIABLES
  order, status,         \* the order of each caller, and its Status
  shut                   \* history, per caller: which reasons to refuse have held without
                         \* a break since its call of CanTrade began
validation == <<order, status>>
vvars == <<vars, validation, shut>>

VInit ==
  /\ Init
  /\ order = [c \in Callers |-> NoOrder] /\ status = [c \in Callers |-> "new"]
  /\ shut = [c \in Callers |-> {}]

AnyReason == {"halted", "outage", "unknown"}

(* What should keep an order of a market from going through.               *)
Reasons(m) ==
     {r \in {"halted"}  : halted}
\cup {r \in {"outage"}  : Venue[m] \in watched /\ circuit[Venue[m]] = "open"}
\cup {r \in {"unknown"} : m \notin known}

Observe ==
  shut' = [c \in Callers |->
             IF status'[c] # "checking" THEN {}
             ELSE Reasons(mkt[c])' \cap (IF status[c] = "checking" THEN shut[c] ELSE AnyReason)]

-----------------------------------------------------------------------------
(* validate, 1. to 4.                                                      *)
MutPriceInRange(o) == o.type # "market" => MinPrice <= o.price /\ o.price <= MaxPrice
PriceInRange(o) == o.type # "market" => MinPrice < o.price /\ o.price < MaxPrice

WellFormed(o) ==
  /\ o.side # "none" /\ o.type # "none"
  /\ o.venue \in Exchanges
  /\ PriceInRange(o)
  /\ o.quantity >= MinLotSize

Idle(c) == pc[c] \in {"idle", "granted", "refused"} /\ status[c] # "checking"

RejectFields(c, o) ==
  /\ Idle(c) /\ ~WellFormed(o)
  /\ order' = [order EXCEPT ![c] = o] /\ status' = [status EXCEPT ![c] = "rejected"]
  /\ UNCHANGED vars

(* 5.: the gate is asked for the order's own exchange and market.          *)
AskGate(c, o) ==
  /\ Idle(c) /\ WellFormed(o)
  /\ Begin(c, o.market)
  /\ order' = [order EXCEPT ![c] = o] /\ status' = [status EXCEPT ![c] = "checking"]

MutDecide(c) ==
  /\ status[c] = "checking" /\ pc[c] = "granted"
  /\ status' = [status EXCEPT ![c] = "validated"]
  /\ UNCHANGED <<vars, order>>
Decide(c) ==
  /\ status[c] = "checking" /\ pc[c] \in {"granted", "refused"}
  /\ status' = [status EXCEPT ![c] = IF pc[c] = "granted" THEN "validated" ELSE "rejected"]
  /\ UNCHANGED <<vars, order>>

Validate(c) ==
  \/ \E o \in Orders : RejectFields(c, o) \/ AskGate(c, o)
  \/ Decide(c)

VNext ==
  /\ \/ Surroundings /\ UNCHANGED validation
     \/ \E c \in Callers : Validate(c) \/ (CanTrade(c) /\ UNCHANGED validation)
  /\ Observe

VSpec == VInit /\ [][VNext]_vvars

(* The fairness of the circuit breaker: whoever holds or waits for cb.mu   *)
(* is scheduled; and a goroutine whose gate has answered goes on.          *)
FairVSpec ==
  /\ VSpec
  /\ WF_vvars(RecordUpdate /\ UNCHANGED validation /\ Observe)
  /\ \A c \in Callers : /\ SF_vvars(CanTrade(c) /\ UNCHANGED validation /\ Observe)
                        /\ WF_vvars(Decide(c) /\ Observe)

-----------------------------------------------------------------------------
(* Type invariant of the orders and of the breaker below them.             *)
VTypeOK ==
  /\ TypeOK
  /\ order \in [Callers -> Orders \cup {NoOrder}]
  /\ status \in [Callers -> {"new", "checking", "validated", "rejected"}]
  /\ shut \in [Callers -> SUBSET AnyReason]

(* An order is rejected whenever, from the first step of its call of       *)
(* CanTrade to the last, trading was halted, or the watched connection of  *)
(* its exchange was down, or no update of its market had been recorded:    *)
(* whoever interleaves with the checks, none of them is skipped.           *)
ShutMeansRejected ==
  \A c \in Callers : status[c] = "checking" /\ pc[c] = "granted" => shut[c] = {}

(* A validated order is well formed, and the answer behind it was given    *)
(* for its own market, on an update recorded no longer than StaleThreshold *)
(* before that answer's clock reading.                                     *)
ValidatedIsSound ==
  \A c \in Callers : status[c] = "validated" =>
    LET o == order[c] IN
    /\ o.venue = Venue[o.market] /\ o.quantity >= MinLotSize
    /\ o.type \in {"limit", "stop"} => o.price \in MinPrice + 1 .. MaxPrice - 1
    /\ o.market \in known /\ Fresh(at[c], lastUpdate[o.market])

(* The inductive form: what the passed checks of a call have established.  *)
GateInv ==
  \A c \in Callers :
    /\ status[c] \in {"checking", "validated"} => WellFormed(order[c]) /\ mkt[c] = order[c].market
    /\ status[c] = "validated" => pc[c] = "granted"
    /\ pc[c] \notin {"idle", "granted", "refused"} => status[c] = "checking"
    /\ pc[c] \notin {"halt", "refused"} => "halted" \notin shut[c]
    /\ pc[c] \notin {"halt", "circuit", "refused"} => "outage" \notin shut[c]
    /\ pc[c] \in {"last", "recovered", "granted"} => "unknown" \notin shut[c]
VIInv == IInv /\ VTypeOK /\ GateInv

(* Every order gets its answer: no caller is left waiting for the gate.    *)
EveryOrderDecided ==
  \A c \in Callers : status[c] = "checking" ~> status[c] \in {"validated", "rejected"}
=============================================================================
