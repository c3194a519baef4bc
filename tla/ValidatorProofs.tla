-------------------------- MODULE ValidatorProofs --------------------------
(***************************************************************************)
(* The circuit breaker and the validator on it.  First, what a call of     *)
(* CanTrade that returns true may rely on, for every number of markets,    *)
(* exchanges and callers and every threshold, although it reads the        *)
(* market's state without the lock.  Then the gate of the validator, for   *)
(* any orders: what the breaker guarantees carries over, and an order is   *)
(* validated only when it is well formed and was not shut out throughout   *)
(* its call.                                                               *)
(***************************************************************************)
EXTENDS Validator, SequenceTheorems, TLAPS

LEMMA InitIInv == Init => IInv
<1> SUFFICES ASSUME Init PROVE IInv
  OBVIOUS
<1>1. AnyMarket \in Markets
  BY VenueAssumption DEF AnyMarket
<1>2. feed \in Seq(Markets)
  BY EmptySeq DEF Init
<1>3. TypeOK
  BY <1>1, <1>2 DEF Init, TypeOK, Time, NoTime
<1> QED
  BY <1>3 DEF Init, IInv, TimesOrdered, RunInv, CallInv, GrantedIsFresh, GrantedIsCooled, NoTime

(* The types, action by action.                                            *)
LEMMA NextTypeOK == TypeOK /\ RunInv /\ [Next]_vars => TypeOK'
<1> SUFFICES ASSUME TypeOK, RunInv, [Next]_vars PROVE TypeOK'
  OBVIOUS
<1> USE VenueAssumption, TimesAssumption
<1> USE DEF TypeOK, Time, time, env, market, run, call, Shared
<1>1. CASE Receive
  BY <1>1, HeadTailProperties DEF Receive
<1>2. CASE Stamp
  BY <1>2 DEF Stamp
<1>3. CASE WriteLastUpdate
  BY <1>3 DEF WriteLastUpdate, RunInv
<1>4. CASE WriteRecovered
  <2>1. Recovery \in Nat \cup {NoTime}
    BY <1>4 DEF WriteRecovered, Recovery, RunInv
  <2> QED
    BY <1>4, <2>1 DEF WriteRecovered
<1>5. CASE RunStop
  BY <1>5 DEF RunStop
<1>6. ASSUME NEW m \in Markets, Publish(m) \/ MarkStale(m) PROVE TypeOK'
  <2>1. CASE Publish(m)
    BY <2>1, AppendProperties DEF Publish
  <2>2. CASE MarkStale(m)
    BY <2>2 DEF MarkStale
  <2> QED
    BY <1>6, <2>1, <2>2
<1>7. ASSUME NEW e \in Exchanges, WatchConnection(e) \/ ConnectionLost(e) \/ Reconnected(e)
      PROVE  TypeOK'
  BY <1>7 DEF WatchConnection, ConnectionLost, Reconnected
<1>8. CASE ManualHalt \/ Resume \/ Tick
  <2>1. CASE ManualHalt
    BY <2>1 DEF ManualHalt
  <2>2. CASE Resume
    BY <2>2 DEF Resume
  <2>3. CASE Tick
    BY <2>3 DEF Tick
  <2> QED
    BY <1>8, <2>1, <2>2, <2>3
<1>9. ASSUME NEW c \in Callers, CanTrade(c) PROVE TypeOK'
  <2>1. CASE CheckHalt(c) \/ CheckCircuit(c)
    BY <2>1 DEF CheckHalt, CheckCircuit, Goto
  <2>2. CASE ReadNow(c)
    BY <2>2 DEF ReadNow, Goto
  <2>3. CASE Lookup(c)
    BY <2>3 DEF Lookup, Goto
  <2>4. CASE ReadLast(c) \/ ReadRecovered(c)
    BY <2>4 DEF ReadLast, ReadRecovered, Goto
  <2> QED
    BY <1>9, <2>1, <2>2, <2>3, <2>4 DEF CanTrade
<1>10. ASSUME NEW c \in Callers, NEW m \in Markets, Begin(c, m) PROVE TypeOK'
  BY <1>10 DEF Begin, Goto
<1>11. CASE UNCHANGED vars
  BY <1>11 DEF vars
<1> QED
  BY <1>1, <1>2, <1>3, <1>4, <1>5, <1>6, <1>7, <1>8, <1>9, <1>10, <1>11 DEF Next, Surroundings, RecordUpdate

(* recordUpdate keeps the stored times in order: it stamps before it       *)
(* locks, but Run is the only goroutine that stores.                       *)
LEMMA NextTimes == IInv /\ [Next]_vars => TimesOrdered' /\ RunInv'
<1> SUFFICES ASSUME IInv, [Next]_vars PROVE TimesOrdered' /\ RunInv'
  OBVIOUS
<1> USE VenueAssumption, TimesAssumption
<1> USE DEF IInv, TypeOK, Time, NoTime, TimesOrdered, RunInv, time, env, market, run, call, Shared
<1>1. CASE Receive
  BY <1>1, HeadTailProperties DEF Receive
<1>2. CASE Stamp
  BY <1>2 DEF Stamp
<1>3. CASE WriteLastUpdate
  BY <1>3 DEF WriteLastUpdate
<1>4. CASE WriteRecovered
  BY <1>4 DEF WriteRecovered, Recovery
<1>5. CASE UNCHANGED <<market, run>> /\ now' \in Nat /\ now <= now'
  BY <1>5
<1>6. ASSUME NEW m \in Markets, Publish(m) \/ MarkStale(m) PROVE TimesOrdered' /\ RunInv'
  BY <1>6 DEF Publish, MarkStale
<1>7. ASSUME NEW e \in Exchanges, WatchConnection(e) \/ ConnectionLost(e) \/ Reconnected(e)
      PROVE  UNCHANGED <<market, run, now>>
  BY <1>7 DEF WatchConnection, ConnectionLost, Reconnected
<1>8. ASSUME NEW c \in Callers, CanTrade(c) \/ \E m \in Markets : Begin(c, m)
      PROVE  UNCHANGED <<market, run, now>>
  BY <1>8 DEF CanTrade, CheckHalt, CheckCircuit, ReadNow, Lookup, ReadLast, ReadRecovered, Begin
<1>9. CASE ManualHalt \/ Resume \/ Tick \/ UNCHANGED vars
  BY <1>5, <1>9 DEF ManualHalt, Resume, Tick, vars
<1>10. CASE RunStop
  BY <1>10 DEF RunStop
<1> QED
  BY <1>1, <1>2, <1>3, <1>4, <1>5, <1>6, <1>7, <1>8, <1>9, <1>10 DEF Next, Surroundings, RecordUpdate

(* What a call has established survives the recording of updates: the      *)
(* times it compared with only grow.                                       *)
LEMMA NextCalls == IInv /\ [Next]_vars => CallInv' /\ GrantedIsFresh' /\ GrantedIsCooled'
<1> SUFFICES ASSUME IInv, [Next]_vars, NEW c \in Callers
             PROVE  /\ pc'[c] \in {"last", "recovered"} =>
                         mkt'[c] \in known' /\ recAtLookup'[c] <= recoveredAt'[mkt'[c]]
                    /\ pc'[c] \in {"recovered", "granted"} => Fresh(at'[c], lastUpdate'[mkt'[c]])
                    /\ pc'[c] = "granted" => mkt'[c] \in known' /\ Cooled(at'[c], recAtLookup'[c])
  BY DEF CallInv, GrantedIsFresh, GrantedIsCooled, Fresh, Cooled
<1> USE VenueAssumption, TimesAssumption
<1> DEFINE Held ==
      /\ pc[c] \in {"last", "recovered"} =>
           mkt[c] \in known /\ recAtLookup[c] <= recoveredAt[mkt[c]]
      /\ pc[c] \in {"recovered", "granted"} => Fresh(at[c], lastUpdate[mkt[c]])
      /\ pc[c] = "granted" => mkt[c] \in known /\ Cooled(at[c], recAtLookup[c])
<1>0. Held /\ TypeOK
  BY DEF IInv, CallInv, GrantedIsFresh, GrantedIsCooled
<1>1. ASSUME UNCHANGED <<pc, mkt, at, recAtLookup>>, known \subseteq known',
             \A m \in Markets : lastUpdate'[m] \in Time /\ recoveredAt'[m] \in Time
                               /\ lastUpdate[m] <= lastUpdate'[m] /\ recoveredAt[m] <= recoveredAt'[m]
      PROVE  Held'
  <2>1. /\ mkt[c] \in Markets
        /\ {at[c], recAtLookup[c], lastUpdate[mkt[c]], recoveredAt[mkt[c]]} \subseteq Int
    BY <1>0 DEF TypeOK, Time, NoTime
  <2>2. /\ lastUpdate'[mkt[c]] \in Int /\ recoveredAt'[mkt[c]] \in Int
        /\ lastUpdate[mkt[c]] <= lastUpdate'[mkt[c]] /\ recoveredAt[mkt[c]] <= recoveredAt'[mkt[c]]
    BY <1>1, <2>1 DEF Time, NoTime
  <2>3. /\ pc[c] \in {"last", "recovered"} =>
             mkt[c] \in known' /\ recAtLookup[c] <= recoveredAt'[mkt[c]]
        /\ pc[c] \in {"recovered", "granted"} => Fresh(at[c], lastUpdate'[mkt[c]])
        /\ pc[c] = "granted" => mkt[c] \in known' /\ Cooled(at[c], recAtLookup[c])
    BY <1>0, <1>1, <2>1, <2>2 DEF Fresh
  <2> QED
    BY <1>1, <2>3 DEF Fresh, Cooled
<1>2. CASE WriteLastUpdate
  <2>1. \A m \in Markets : lastUpdate'[m] \in Time /\ recoveredAt'[m] \in Time
                           /\ lastUpdate[m] <= lastUpdate'[m] /\ recoveredAt[m] <= recoveredAt'[m]
    BY <1>0, <1>2 DEF WriteLastUpdate, TypeOK, Time, NoTime, IInv, RunInv
  <2> QED
    BY <1>1, <1>2, <2>1 DEF WriteLastUpdate, call
<1>3. CASE WriteRecovered
  <2>1. \A m \in Markets : lastUpdate'[m] \in Time /\ recoveredAt'[m] \in Time
                           /\ lastUpdate[m] <= lastUpdate'[m] /\ recoveredAt[m] <= recoveredAt'[m]
    BY <1>0, <1>3 DEF WriteRecovered, Recovery, TypeOK, Time, NoTime, IInv, RunInv, TimesOrdered
  <2> QED
    BY <1>1, <1>3, <2>1 DEF WriteRecovered, call
<1>4. CASE UNCHANGED <<known, lastUpdate, recoveredAt, call>>
  BY <1>0, <1>4 DEF call, Fresh, Cooled
<1>5. ASSUME NEW d \in Callers, d # c, CanTrade(d) \/ \E m \in Markets : Begin(d, m)
      PROVE  Held'
  <2>1. /\ pc'[c] = pc[c] /\ mkt'[c] = mkt[c] /\ at'[c] = at[c] /\ recAtLookup'[c] = recAtLookup[c]
        /\ UNCHANGED market
    BY <1>0, <1>5 DEF CanTrade, CheckHalt, CheckCircuit, ReadNow, Lookup, ReadLast, ReadRecovered,
                      Begin, Goto, Shared, TypeOK
  <2> QED
    BY <1>0, <2>1 DEF market
<1>6. CASE CanTrade(c)
  <2> USE <1>0 DEF Shared, market, Goto, TypeOK, Time, NoTime
  <2>1. CASE CheckHalt(c) \/ CheckCircuit(c) \/ ReadNow(c)
    BY <2>1 DEF CheckHalt, CheckCircuit, ReadNow
  <2>2. CASE Lookup(c)
    BY <2>2 DEF Lookup
  <2>3. CASE ReadLast(c)
    BY <2>3 DEF ReadLast
  <2>4. CASE ReadRecovered(c)
    BY <2>4 DEF ReadRecovered, Cooled
  <2> QED
    BY <1>6, <2>1, <2>2, <2>3, <2>4 DEF CanTrade
<1>7. ASSUME NEW m \in Markets, Begin(c, m) PROVE Held'
  BY <1>0, <1>7 DEF Begin, Goto, TypeOK
<1>8. Held'
  BY <1>2, <1>3, <1>4, <1>5, <1>6, <1>7
     DEF Next, Surroundings, RecordUpdate, Receive, Stamp, RunStop, Publish, MarkStale, WatchConnection,
         ConnectionLost, Reconnected, ManualHalt, Resume, Tick, vars, market
<1> QED
  BY <1>8 DEF Fresh, Cooled

LEMMA NextIInv == IInv /\ [Next]_vars => IInv'
  BY NextTypeOK, NextTimes, NextCalls DEF IInv

-----------------------------------------------------------------------------
(* The breaker's state keeps its types.                                    *)
THEOREM TypeCorrect == Spec => []TypeOK
<1>1. IInv => TypeOK
  BY DEF IInv
<1> QED
  BY InitIInv, NextIInv, <1>1, PTL DEF Spec

(* Stored times never run ahead of the clock, nor RecoveredAt of           *)
(* LastUpdate, so the ages CanTrade computes are the ages of the data.     *)
THEOREM TimesHold == Spec => []TimesOrdered
<1>1. IInv => TimesOrdered
  BY DEF IInv
<1> QED
  BY InitIInv, NextIInv, <1>1, PTL DEF Spec

(* CanTrade never lets through a market whose last update is older than    *)
(* StaleThreshold, reads without the lock notwithstanding.                 *)
THEOREM GrantsAreFresh == Spec => []GrantedIsFresh
<1>1. IInv => GrantedIsFresh
  BY DEF IInv
<1> QED
  BY InitIInv, NextIInv, <1>1, PTL DEF Spec

(* CanTrade never lets through a market in the cool-off of a recovery      *)
(* that was recorded when the call looked the market up.                   *)
THEOREM GrantsAreCooled == Spec => []GrantedIsCooled
<1>1. IInv => GrantedIsCooled
  BY DEF IInv
<1> QED
  BY InitIInv, NextIInv, <1>1, PTL DEF Spec

-----------------------------------------------------------------------------
(* The validator.                                                          *)

(* The validator uses the breaker only through its steps.                  *)
LEMMA StepsOfBreaker == [VNext]_vvars => [Next]_vars
<1>1. ASSUME NEW o \in Orders PROVE o.market \in Markets
  BY <1>1, OrdersAssumption
<1> QED
  BY <1>1 DEF VNext, Validate, AskGate, RejectFields, Decide, Next, vvars

LEMMA InitVIInv == VInit => VIInv
<1> SUFFICES ASSUME VInit PROVE VIInv
  OBVIOUS
<1>1. IInv
  BY InitIInv DEF VInit
<1>2. VTypeOK
  BY <1>1 DEF VInit, VTypeOK, IInv
<1>3. GateInv
  BY <1>1 DEF VInit, Init, GateInv
<1> QED
  BY <1>1, <1>2, <1>3 DEF VIInv

(* Orders only change when a caller takes one up.                          *)
LEMMA NextVTypeOK == VIInv /\ [VNext]_vvars => VTypeOK'
<1> SUFFICES ASSUME VIInv, [VNext]_vvars PROVE VTypeOK'
  OBVIOUS
<1>1. TypeOK'
  BY StepsOfBreaker, NextIInv DEF VIInv, IInv, vvars
<1>2. /\ order' \in [Callers -> Orders \cup {NoOrder}]
      /\ status' \in [Callers -> {"new", "checking", "validated", "rejected"}]
  BY DEF VIInv, VTypeOK, VNext, vvars, Validate, RejectFields, AskGate, Decide, validation
<1>3. shut' \in [Callers -> SUBSET AnyReason]
  <2>1. CASE Observe
    <3>1. \A m : Reasons(m)' \subseteq AnyReason
      BY DEF Reasons, AnyReason
    <3> QED
      BY <2>1, <3>1 DEF Observe
  <2>2. CASE UNCHANGED vvars
    BY <2>2 DEF vvars, VIInv, VTypeOK
  <2> QED
    BY <2>1, <2>2 DEF VNext
<1> QED
  BY <1>1, <1>2, <1>3 DEF VTypeOK

(* Each check that passes takes its reason away for the rest of the call.  *)
LEMMA NextGate == VIInv /\ [VNext]_vvars => GateInv'
<1> SUFFICES ASSUME VIInv, [VNext]_vvars, NEW c \in Callers
             PROVE  (/\ status[c] \in {"checking", "validated"} =>
                          WellFormed(order[c]) /\ mkt[c] = order[c].market
                     /\ status[c] = "validated" => pc[c] = "granted"
                     /\ pc[c] \notin {"idle", "granted", "refused"} => status[c] = "checking"
                     /\ pc[c] \notin {"halt", "refused"} => "halted" \notin shut[c]
                     /\ pc[c] \notin {"halt", "circuit", "refused"} => "outage" \notin shut[c]
                     /\ pc[c] \in {"last", "recovered", "granted"} => "unknown" \notin shut[c])'
  BY DEF GateInv
<1>0. TypeOK /\ VTypeOK /\ GateInv /\ VTypeOK'
  BY NextVTypeOK DEF VIInv, VTypeOK
<1>1. CASE UNCHANGED vvars
  BY <1>0, <1>1 DEF vvars, vars, validation, call, GateInv, WellFormed, PriceInRange
<1>2. CASE VNext
  <2>1. Observe
    BY <1>2 DEF VNext
  <2>2. CASE UNCHANGED <<call, validation>>
    BY <1>0, <2>1, <2>2 DEF call, validation, Observe, GateInv, WellFormed, PriceInRange
  <2>3. ASSUME NEW d \in Callers, d # c, Validate(d) \/ (CanTrade(d) /\ UNCHANGED validation)
        PROVE  pc'[c] = pc[c] /\ mkt'[c] = mkt[c] /\ order'[c] = order[c] /\ status'[c] = status[c]
    BY <1>0, <2>3 DEF Validate, RejectFields, AskGate, Decide, Begin, CanTrade, CheckHalt, CheckCircuit,
         ReadNow, Lookup, ReadLast, ReadRecovered, Goto, vars, call, validation, TypeOK, VTypeOK
  <2>4. ASSUME NEW o \in Orders, RejectFields(c, o) PROVE status'[c] = "rejected" /\ pc'[c] = pc[c]
                                                          /\ pc[c] \in {"idle", "granted", "refused"} /\ shut'[c] = {}
    BY <1>0, <2>1, <2>4 DEF RejectFields, Idle, vars, call, VTypeOK, Observe
  <2>5. ASSUME NEW o \in Orders, AskGate(c, o)
        PROVE  /\ status'[c] = "checking" /\ order'[c] = o /\ WellFormed(o)
               /\ pc'[c] = "halt" /\ mkt'[c] = o.market
    BY <1>0, <2>5 DEF AskGate, Begin, Goto, TypeOK, VTypeOK
  <2>6. ASSUME Decide(c)
        PROVE  /\ pc'[c] = pc[c] /\ mkt'[c] = mkt[c] /\ order'[c] = order[c] /\ shut'[c] = {}
               /\ status[c] = "checking" /\ pc[c] \in {"granted", "refused"}
               /\ status'[c] = "rejected" \/ (status'[c] = "validated" /\ pc[c] = "granted")
    BY <1>0, <2>1, <2>6 DEF Decide, vars, call, VTypeOK, Observe
  <2>7. CASE CanTrade(c) /\ UNCHANGED validation
    <3>1. /\ status[c] = "checking" /\ status'[c] = "checking" /\ mkt'[c] = mkt[c] /\ order'[c] = order[c]
          /\ UNCHANGED <<halted, watched, circuit, known>>
      BY <1>0, <2>7 DEF CanTrade, CheckHalt, CheckCircuit, ReadNow, Lookup, ReadLast, ReadRecovered,
           Shared, env, market, validation, GateInv
    <3>2. shut'[c] = Reasons(mkt[c])' \cap shut[c]
      BY <2>1, <3>1 DEF Observe
    <3>3. Reasons(mkt[c])' = Reasons(mkt[c])
      BY <3>1, <1>0 DEF Reasons, CanTrade, CheckHalt, CheckCircuit, ReadNow, Lookup, ReadLast, ReadRecovered
    <3>4. CASE CheckHalt(c)
      BY <1>0, <3>1, <3>2, <3>3, <3>4 DEF CheckHalt, Goto, Reasons, GateInv, TypeOK
    <3>5. CASE CheckCircuit(c)
      BY <1>0, <3>1, <3>2, <3>3, <3>5 DEF CheckCircuit, Goto, Reasons, GateInv, TypeOK
    <3>6. CASE Lookup(c)
      BY <1>0, <3>1, <3>2, <3>3, <3>6 DEF Lookup, Goto, Reasons, GateInv, TypeOK
    <3>7. CASE ReadNow(c) \/ ReadLast(c) \/ ReadRecovered(c)
      BY <1>0, <3>1, <3>2, <3>7 DEF ReadNow, ReadLast, ReadRecovered, Goto, GateInv, TypeOK
    <3> QED
      BY <2>7, <3>4, <3>5, <3>6, <3>7 DEF CanTrade
  <2>8. Surroundings => UNCHANGED call
    BY DEF Surroundings, RecordUpdate, Receive, Stamp, RunStop, WriteLastUpdate, WriteRecovered, Publish,
         MarkStale, WatchConnection, ConnectionLost, Reconnected, ManualHalt, Resume, Tick
  <2>9. ASSUME NEW d \in Callers, d # c, Validate(d) \/ (CanTrade(d) /\ UNCHANGED validation)
        PROVE  shut'[c] \subseteq shut[c]
    BY <1>0, <2>1, <2>3, <2>9 DEF Observe
  <2> QED
    BY <1>0, <1>2, <2>2, <2>3, <2>4, <2>5, <2>6, <2>7, <2>8, <2>9
       DEF VNext, Validate, GateInv
<1> QED
  BY <1>1, <1>2

LEMMA NextVIInv == VIInv /\ [VNext]_vvars => VIInv'
<1> SUFFICES ASSUME VIInv, [VNext]_vvars PROVE VIInv'
  OBVIOUS
<1>1. IInv'
  BY StepsOfBreaker, NextIInv DEF VIInv, vvars
<1> QED
  BY <1>1, NextVTypeOK, NextGate DEF VIInv

-----------------------------------------------------------------------------
(* Orders, statuses and the breaker below them keep their types.           *)
THEOREM ValidatorTypeCorrect == VSpec => []VTypeOK
<1>1. VIInv => VTypeOK
  BY DEF VIInv
<1> QED
  BY InitVIInv, NextVIInv, <1>1, PTL DEF VSpec

(* No order passes the gate when a halt, an outage of its exchange or the  *)
(* ignorance of its market lasted for the whole of its call.               *)
THEOREM ShutOut == VSpec => []ShutMeansRejected
<1>1. VIInv => ShutMeansRejected
  BY DEF VIInv, GateInv, VTypeOK, AnyReason, ShutMeansRejected
<1> QED
  BY InitVIInv, NextVIInv, <1>1, PTL DEF VSpec

(* A validated order is well formed and its own market was fresh.          *)
THEOREM ValidationSound == VSpec => []ValidatedIsSound
<1>1. VIInv => ValidatedIsSound
  <2> SUFFICES ASSUME VIInv, NEW c \in Callers, status[c] = "validated"
               PROVE  LET o == order[c] IN
                      /\ o.venue = Venue[o.market] /\ o.quantity >= MinLotSize
                      /\ o.type \in {"limit", "stop"} => o.price \in MinPrice + 1 .. MaxPrice - 1
                      /\ o.market \in known /\ Fresh(at[c], lastUpdate[o.market])
    BY DEF ValidatedIsSound
  <2>1. WellFormed(order[c]) /\ mkt[c] = order[c].market /\ pc[c] = "granted"
    BY DEF VIInv, GateInv
  <2>2. order[c] \in Orders
    BY <2>1 DEF VIInv, VTypeOK, WellFormed, NoOrder
  <2> QED
    BY <2>1, <2>2, OrdersAssumption, ConstraintsAssumption
       DEF VIInv, IInv, GrantedIsFresh, WellFormed, PriceInRange
<1> QED
  BY InitVIInv, NextVIInv, <1>1, PTL DEF VSpec

(* What the breaker grants a validator is as fresh and as cooled as what   *)
(* it grants anybody.                                                      *)
THEOREM GateIsBreaker == VSpec => []GrantedIsFresh /\ []GrantedIsCooled /\ []TimesOrdered
<1>1. VIInv => GrantedIsFresh /\ GrantedIsCooled /\ TimesOrdered
  BY DEF VIInv, IInv
<1> QED
  BY InitVIInv, NextVIInv, <1>1, PTL DEF VSpec
=============================================================================
