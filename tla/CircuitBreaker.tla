--------------------------- MODULE CircuitBreaker ---------------------------
(***************************************************************************)
(* internal/adapter/circuit_breaker.go.  Three parties: Run, the goroutine *)
(* that records updates; the callers of CanTrade; and the operator and the *)
(* heartbeat monitor, who halt, resume and mark markets stale.             *)
(*                                                                         *)
(* CanTrade is as many steps as it takes locks, and two more: it keeps the *)
(* *marketState it finds under cb.mu.RLock and reads LastUpdate and        *)
(* RecoveredAt after RUnlock, so they race with recordUpdate's writes.     *)
(* Either read may return the old or the new value; the fields' own words  *)
(* need no finer steps, since Sub and IsZero look at one changing word.    *)
(***************************************************************************)
EXTENDS Integers, Sequences

CONSTANTS Markets,           \* subKey: (exchange, market) pairs
          Exchanges,
          Venue,             \* the exchange of a market
          Callers,           \* goroutines that call CanTrade
          StaleThreshold, CoolOff,
          FeedCap,           \* capacity of the SubscribeAll channel
          MaxTime            \* bound: the clock stops here

ASSUME VenueAssumption == Markets # {} /\ Venue \in [Markets -> Exchanges]
ASSUME TimesAssumption == StaleThreshold \in Nat /\ CoolOff \in Nat
                          /\ FeedCap \in Nat /\ MaxTime \in Nat

NoTime == -1                 \* the zero time.Time
Time   == Nat \cup {NoTime}

VARIABLES
  now,                       \* nowFunc()
  halted, watched,           \* watched: the keys of cb.conns
  circuit,                   \* WSClient.Circuit() of each exchange
  known,                     \* the keys of cb.markets
  lastUpdate, recoveredAt, healthy,
  feed,                      \* cb.feed; of an update only its market is ever read
  runPc, update, runNow, wasHealthy,       \* Run and recordUpdate
  pc, mkt, at,               \* CanTrade: program counter, market, its `now'
  recAtLookup                \* history, per call: RecoveredAt when it was looked up

time    == <<now>>
env     == <<halted, watched, circuit>>
market  == <<known, lastUpdate, recoveredAt, healthy>>
run     == <<runPc, update, runNow, wasHealthy>>
call    == <<pc, mkt, at, recAtLookup>>
vars    == <<time, env, market, feed, run, call>>

AnyMarket == CHOOSE m \in Markets : TRUE

Init ==
  /\ now = 0
  /\ halted = FALSE /\ watched = {}
  /\ circuit = [e \in Exchanges |-> "closed"]          \* atomic.Int32 starts at 0
  /\ known = {}
  /\ lastUpdate = [m \in Markets |-> NoTime] /\ recoveredAt = [m \in Markets |-> NoTime]
  /\ healthy = [m \in Markets |-> FALSE]
  /\ feed = << >>
  /\ runPc = "select" /\ update = AnyMarket /\ runNow = NoTime /\ wasHealthy = FALSE
  /\ pc = [c \in Callers |-> "idle"] /\ mkt = [c \in Callers |-> AnyMarket]
  /\ at = [c \in Callers |-> NoTime]
  /\ recAtLookup = [c \in Callers |-> NoTime]

Tick == now < MaxTime /\ now' = now + 1 /\ UNCHANGED <<env, market, feed, run, call>>

-----------------------------------------------------------------------------
(* The operator, and the WSClient of an exchange as Circuit() shows it.    *)
ManualHalt == halted' = TRUE /\ UNCHANGED <<time, watched, circuit, market, feed, run, call>>
Resume == halted' = FALSE /\ UNCHANGED <<time, watched, circuit, market, feed, run, call>>

WatchConnection(e) ==
  /\ watched' = watched \cup {e}
  /\ UNCHANGED <<time, halted, circuit, market, feed, run, call>>

ConnectionLost(e) ==
  /\ circuit[e] = "closed" /\ circuit' = [circuit EXCEPT ![e] = "open"]
  /\ UNCHANGED <<time, halted, watched, market, feed, run, call>>

Reconnected(e) ==
  /\ circuit[e] = "open" /\ circuit' = [circuit EXCEPT ![e] = "closed"]
  /\ UNCHANGED <<time, halted, watched, market, feed, run, call>>

(* Broadcaster.distribute: a full channel loses the update.                *)
Publish(m) ==
  /\ Len(feed) < FeedCap
  /\ feed' = Append(feed, m)
  /\ UNCHANGED <<time, env, market, run, call>>

-----------------------------------------------------------------------------
(* Run and recordUpdate: receive, nowFunc(), then under cb.mu the writes   *)
(* of LastUpdate and Healthy, and of RecoveredAt.                          *)
Unlocked == runPc # "locked"

Receive ==
  /\ runPc = "select" /\ feed # << >>
  /\ runPc' = "received" /\ update' = Head(feed) /\ feed' = Tail(feed)
  /\ UNCHANGED <<time, env, market, runNow, wasHealthy, call>>

(* ctx.Done(), or the feed is closed.                                      *)
RunStop == runPc = "select" /\ runPc' = "stopped"
           /\ UNCHANGED <<time, env, market, feed, update, runNow, wasHealthy, call>>

Stamp ==
  /\ runPc = "received" /\ runPc' = "stamped" /\ runNow' = now
  /\ UNCHANGED <<time, env, market, feed, update, wasHealthy, call>>

WriteLastUpdate ==
  /\ runPc = "stamped" /\ runPc' = "locked"
  /\ known' = known \cup {update}
  /\ wasHealthy' = healthy[update]
  /\ lastUpdate' = [lastUpdate EXCEPT ![update] = runNow]
  /\ healthy' = [healthy EXCEPT ![update] = TRUE]
  /\ UNCHANGED <<time, env, recoveredAt, feed, update, runNow, call>>

(* Conditions 3 and 4 of CanTrade.                                         *)
Fresh(t, last) == t - last <= StaleThreshold
Cooled(t, rec) == rec = NoTime \/ t - rec >= CoolOff

(* A market that was not healthy starts its cool-off now.                  *)
MutRecoverySampledLate == IF wasHealthy THEN recoveredAt[update] ELSE now
MutRecoveryBackdated   == IF wasHealthy THEN recoveredAt[update] ELSE runNow - CoolOff
Recovery == IF wasHealthy THEN recoveredAt[update] ELSE runNow

WriteRecovered ==
  /\ runPc = "locked" /\ runPc' = "select"
  /\ recoveredAt' = [recoveredAt EXCEPT ![update] = Recovery]
  /\ UNCHANGED <<time, env, known, lastUpdate, healthy, feed, update, runNow, wasHealthy, call>>

(* Exported for a heartbeat monitor; an unknown market is left alone.      *)
MarkStale(m) ==
  /\ Unlocked
  /\ m \in known /\ healthy' = [healthy EXCEPT ![m] = FALSE]
  /\ UNCHANGED <<time, env, known, lastUpdate, recoveredAt, feed, run, call>>

-----------------------------------------------------------------------------
(* CanTrade, by the points where other goroutines can come in.             *)
Shared == <<time, env, market, feed, run>>

Goto(c, l) == pc' = [pc EXCEPT ![c] = l]

Begin(c, m) ==
  /\ pc[c] \in {"idle", "granted", "refused"}
  /\ Goto(c, "halt")
  /\ mkt' = [mkt EXCEPT ![c] = m]
  /\ UNCHANGED <<Shared, at, recAtLookup>>

CheckHalt(c) ==
  /\ pc[c] = "halt" /\ Goto(c, IF halted THEN "refused" ELSE "circuit")
  /\ UNCHANGED <<Shared, mkt, at, recAtLookup>>

MutCheckCircuit(c) ==
  /\ pc[c] = "circuit" /\ Goto(c, "now")
  /\ UNCHANGED <<Shared, mkt, at, recAtLookup>>
CheckCircuit(c) ==
  /\ pc[c] = "circuit"
  /\ LET e == Venue[mkt[c]]
     IN  Goto(c, IF e \in watched /\ circuit[e] = "open" THEN "refused" ELSE "now")
  /\ UNCHANGED <<Shared, mkt, at, recAtLookup>>

ReadNow(c) ==
  /\ pc[c] = "now" /\ Goto(c, "lookup")
  /\ at' = [at EXCEPT ![c] = now]
  /\ UNCHANGED <<Shared, mkt, recAtLookup>>

Lookup(c) ==
  /\ pc[c] = "lookup" /\ Unlocked
  /\ Goto(c, IF mkt[c] \in known THEN "last" ELSE "refused")
  /\ recAtLookup' = [recAtLookup EXCEPT ![c] = recoveredAt[mkt[c]]]
  /\ UNCHANGED <<Shared, mkt, at>>

MutReadLast(c) ==
  /\ pc[c] = "last" /\ Goto(c, IF at[c] - lastUpdate[mkt[c]] > CoolOff THEN "refused" ELSE "recovered")
  /\ UNCHANGED <<Shared, mkt, at, recAtLookup>>
ReadLast(c) ==
  /\ pc[c] = "last"
  /\ Goto(c, IF Fresh(at[c], lastUpdate[mkt[c]]) THEN "recovered" ELSE "refused")
  /\ UNCHANGED <<Shared, mkt, at, recAtLookup>>

MutReadRecovered(c) ==
  /\ pc[c] = "recovered"
  /\ Goto(c, IF at[c] - recoveredAt[mkt[c]] >= StaleThreshold THEN "granted" ELSE "refused")
  /\ UNCHANGED <<Shared, mkt, at, recAtLookup>>
ReadRecovered(c) ==
  /\ pc[c] = "recovered"
  /\ Goto(c, IF Cooled(at[c], recoveredAt[mkt[c]]) THEN "granted" ELSE "refused")
  /\ UNCHANGED <<Shared, mkt, at, recAtLookup>>

CanTrade(c) ==
  \/ CheckHalt(c) \/ CheckCircuit(c) \/ ReadNow(c)
  \/ Lookup(c) \/ ReadLast(c) \/ ReadRecovered(c)

RecordUpdate == Stamp \/ WriteLastUpdate \/ WriteRecovered

(* Everybody but the callers of CanTrade.                                  *)
Surroundings ==
  \/ Receive \/ RecordUpdate \/ RunStop
  \/ \E m \in Markets : Publish(m) \/ MarkStale(m)
  \/ \E e \in Exchanges : WatchConnection(e) \/ ConnectionLost(e) \/ Reconnected(e)
  \/ ManualHalt \/ Resume
  \/ Tick

Next ==
  \/ Surroundings
  \/ \E c \in Callers : CanTrade(c) \/ \E m \in Markets : Begin(c, m)

Spec == Init /\ [][Next]_vars

-----------------------------------------------------------------------------
(* Type invariant.                                                         *)
TypeOK ==
  /\ now \in Nat
  /\ halted \in BOOLEAN /\ watched \subseteq Exchanges
  /\ circuit \in [Exchanges -> {"open", "closed"}]
  /\ known \subseteq Markets /\ healthy \in [Markets -> BOOLEAN]
  /\ lastUpdate \in [Markets -> Time] /\ recoveredAt \in [Markets -> Time]
  /\ feed \in Seq(Markets)
  /\ runPc \in {"select", "received", "stamped", "locked", "stopped"}
  /\ update \in Markets
  /\ runNow \in Time /\ wasHealthy \in BOOLEAN
  /\ pc \in [Callers -> {"idle", "halt", "circuit", "now", "lookup", "last", "recovered", "granted", "refused"}]
  /\ mkt \in [Callers -> Markets]
  /\ at \in [Callers -> Time]
  /\ recAtLookup \in [Callers -> Time]

(* recordUpdate's clock reading, taken before the lock, is never behind a  *)
(* time already stored, and a recovery is never dated after the update     *)
(* that made it: ages are what CanTrade takes them for.                    *)
TimesOrdered ==
  \A m \in Markets :
    /\ recoveredAt[m] <= lastUpdate[m] /\ lastUpdate[m] <= now
    /\ m \in known => lastUpdate[m] \in Nat

(* A granted call is never on stale data: between its clock reading and    *)
(* the last recorded update of the market there are at most StaleThreshold *)
(* ticks, whatever was recorded while it ran.                              *)
GrantedIsFresh ==
  \A c \in Callers : pc[c] = "granted" =>
    mkt[c] \in known /\ Fresh(at[c], lastUpdate[mkt[c]])

(* A granted call has sat out the cool-off of every recovery recorded      *)
(* before it looked the market up.                                         *)
GrantedIsCooled ==
  \A c \in Callers : pc[c] = "granted" => Cooled(at[c], recAtLookup[c])

(* The inductive invariant: what recordUpdate holds between its steps, and *)
(* what a call has established so far.                                     *)
RunInv ==
  /\ runPc \in {"stamped", "locked"} => runNow \in Nat /\ runNow <= now
  /\ runPc = "stamped" => lastUpdate[update] <= runNow
  /\ runPc = "locked" => update \in known /\ lastUpdate[update] = runNow
CallInv ==
  \A c \in Callers :
    /\ pc[c] \in {"last", "recovered"} =>
         mkt[c] \in known /\ recAtLookup[c] <= recoveredAt[mkt[c]]
    /\ pc[c] = "recovered" => Fresh(at[c], lastUpdate[mkt[c]])
IInv == TypeOK /\ TimesOrdered /\ RunInv /\ CallInv /\ GrantedIsFresh /\ GrantedIsCooled
=============================================================================
