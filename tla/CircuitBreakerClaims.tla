----------------------- MODULE CircuitBreakerClaims -----------------------
(***************************************************************************)
(* What the comments of circuit_breaker.go promise about a call of         *)
(* CanTrade that returns true, and the code does not keep.  The history    *)
(* variables watch the steps of CircuitBreaker and never restrict them.    *)
(***************************************************************************)
EXTENDS CircuitBreaker

VARIABLES
  reconnectedAt,       \* when the circuit of a watched connection was last closed again
  reconAtBegin,        \* per call: reconnectedAt when it began
  consistent           \* per call: did conditions 3 and 4 hold together at one
                       \* moment since, had recordUpdate been atomic?
history == <<reconnectedAt, reconAtBegin, consistent>>

CInit ==
  /\ Init
  /\ reconnectedAt = [e \in Exchanges |-> NoTime]
  /\ reconAtBegin = [c \in Callers |-> NoTime]
  /\ consistent = [c \in Callers |-> FALSE]

Begins(c)   == pc[c] # "halt" /\ pc'[c] = "halt"
LooksUp(c)  == pc[c] = "lookup" /\ pc'[c] = "last"
Records     == runPc = "stamped" /\ runPc' = "locked"
InMarket(c) == pc[c] \in {"last", "recovered"}

(* The market as recordUpdate, were it atomic, would leave it.             *)
Settled(m)  == IF runPc = "locked" /\ update = m /\ ~wasHealthy THEN runNow ELSE recoveredAt[m]
Tradable(c) == mkt[c] \in known /\ Fresh(at[c], lastUpdate[mkt[c]]) /\ Cooled(at[c], Settled(mkt[c]))

Observe ==
  /\ reconnectedAt' = [e \in Exchanges |->
       IF e \in watched /\ circuit[e] = "open" /\ circuit'[e] = "closed" THEN now ELSE reconnectedAt[e]]
  /\ reconAtBegin' = [c \in Callers |->
       IF Begins(c) THEN reconnectedAt[Venue[mkt'[c]]] ELSE reconAtBegin[c]]
  /\ consistent' = [c \in Callers |->
       CASE LooksUp(c)              -> Tradable(c)
         [] InMarket(c) /\ Records  -> consistent[c] \/ Tradable(c)'
         [] OTHER                   -> consistent[c]]

CNext == Next /\ Observe
CSpec == CInit /\ [][CNext]_<<vars, history>>

(* "CanTrade returns true only if ALL of the following hold": freshness    *)
(* and cool-off held together at some moment of the call.                  *)
GrantedWasTradable == \A c \in Callers : pc[c] = "granted" => consistent[c]

(* CoolOff is "the duration of continuous healthy data required after a    *)
(* reconnection before trading is re-enabled".                             *)
CoolOffAfterReconnection ==
  \A c \in Callers : pc[c] = "granted" => Cooled(at[c], reconAtBegin[c])
=============================================================================
