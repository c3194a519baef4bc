----------------------------- MODULE Broadcaster -----------------------------
(***************************************************************************)
(* internal/adapter/broadcaster.go: one goroutine per source distributes   *)
(* what it receives, first to the subscribers of the update's market under *)
(* b.mu, then to the unified subscribers under b.allMu, never waiting for  *)
(* any of them.  An update is its market, the best prices in it, and its   *)
(* number among the updates of its market.                                 *)
(***************************************************************************)
EXTENDS Integers, Sequences, FiniteSets

CONSTANTS
  Keys,                \* subKey: (exchange, market) pairs
  Sources, SourceOf,   \* the registered adapters, and the one that serves a market
  Prices, PricesOf,    \* best bid and ask; those the updates of a market carry
  Filtered, FilterOf,  \* subscriptions to one market, and which
  Unified,             \* SubscribeAll
  Early,               \* who subscribes before Run; the others may at any time
  SourceCap, SubCap, AllCap,   \* channel capacities: 256, 256 and 512 in the code
  NoUpdate,            \* a goroutine between two updates
  MaxUpdates           \* bound: updates of each market

ASSUME SourceAssumption == SourceOf \in [Keys -> Sources] /\ PricesOf \in [Keys -> SUBSET Prices]
ASSUME SubAssumption == FilterOf \in [Filtered -> Keys] /\ Filtered \cap Unified = {}
                       /\ Early \subseteq Filtered \cup Unified
ASSUME CapacityAssumption == SourceCap \in Nat /\ SubCap \in Nat /\ AllCap \in Nat
ASSUME BoundAssumption == MaxUpdates \in [Keys -> Nat]

Subs == Filtered \cup Unified
Cap(s) == IF s \in Filtered THEN SubCap ELSE AllCap
MarketsOf(s) == IF s \in Filtered THEN {FilterOf[s]} ELSE Keys

VARIABLES
  made, source,        \* updates made per market; the adapters' channels
  subscribed, queue,   \* who has subscribed; the subscribers' channels
  stage, update, left, \* each source's goroutine: its place in distribute, its update,
                       \* and whom it has yet to offer it to
  cancelled,
  offered              \* history, per subscriber and market: number of the last update
                       \* offered, or missed before subscribing

adapters == <<made, source>>
inbox    == <<subscribed, queue, offered>>
workers  == <<stage, update, left>>
bvars    == <<adapters, inbox, workers, cancelled>>

Numbers == UNION {0 .. MaxUpdates[k] : k \in Keys}
Update == [key : Keys, price : Prices, n : Numbers]
ASSUME NoUpdateAssumption == NoUpdate \notin Update

BInit ==
  /\ made = [k \in Keys |-> 0] /\ source = [a \in Sources |-> << >>]
  /\ subscribed = Early /\ queue = [s \in Subs |-> << >>]
  /\ stage = [a \in Sources |-> "select"] /\ update = [a \in Sources |-> NoUpdate]
  /\ left = [a \in Sources |-> {}]
  /\ cancelled = FALSE
  /\ offered = [s \in Subs |-> [k \in Keys |-> 0]]

(* An adapter emits an update; a full channel loses it.                    *)
Emit(k, p) ==
  LET a == SourceOf[k] IN
  /\ made[k] < MaxUpdates[k] /\ Len(source[a]) < SourceCap
  /\ made' = [made EXCEPT ![k] = @ + 1]
  /\ source' = [source EXCEPT ![a] = Append(@, [key |-> k, price |-> p, n |-> made[k] + 1])]
  /\ UNCHANGED <<inbox, workers, cancelled>>

(* Numbers of the updates of market k that wait in its source's channel,   *)
(* and of the last one that distribute has taken up.                       *)
NumbersOf(k, q) == {q[i].n : i \in {j \in DOMAIN q : q[j].key = k}}
Waiting(k) == NumbersOf(k, source[SourceOf[k]])
Taken(k) == made[k] - Cardinality(Waiting(k))

(* The write lock of the list: nobody is distributing over it.             *)
ListFree(s) == \A a \in Sources : stage[a] # IF s \in Filtered THEN "keyed" ELSE "all"

(* A subscriber of the unified list still gets the update in a goroutine   *)
(* that has not come to that list yet.                                     *)
Pending(s, k) == \E a \in Sources : s \in Unified /\ stage[a] = "keyed" /\ update[a].key = k

Subscribe(s) ==
  /\ s \notin subscribed /\ ListFree(s)
  /\ subscribed' = subscribed \cup {s}
  /\ offered' = [offered EXCEPT ![s] =
       [k \in Keys |-> IF Pending(s, k) THEN Taken(k) - 1 ELSE Taken(k)]]
  /\ UNCHANGED <<adapters, queue, workers, cancelled>>

-----------------------------------------------------------------------------
(* Run and distribute.                                                     *)
Goto(a, l, S) ==
  /\ stage' = [stage EXCEPT ![a] = l]
  /\ left' = [left EXCEPT ![a] = S]

MutMatching(k) == subscribed \cap Filtered
Matching(k) == {s \in subscribed \cap Filtered : FilterOf[s] = k}

Receive(a) ==
  /\ stage[a] = "select" /\ source[a] # << >>
  /\ update' = [update EXCEPT ![a] = Head(source[a])]
  /\ source' = [source EXCEPT ![a] = Tail(@)]
  /\ Goto(a, "keyed", Matching(Head(source[a]).key))
  /\ UNCHANGED <<made, inbox, cancelled>>

(* A subscriber whose channel is full loses this update.                   *)
MutOffer(a, s) ==
  LET u == update[a] IN
  /\ s \in left[a] /\ Len(queue[s]) < Cap(s)
  /\ left' = [left EXCEPT ![a] = @ \ {s}]
  /\ offered' = [offered EXCEPT ![s][u.key] = u.n]
  /\ queue' = [queue EXCEPT ![s] = Append(@, u)]
  /\ UNCHANGED <<adapters, subscribed, stage, update, cancelled>>
Offer(a, s) ==
  LET u == update[a]
      room == Len(queue[s]) < Cap(s)
  IN
  /\ s \in left[a]
  /\ left' = [left EXCEPT ![a] = @ \ {s}]
  /\ offered' = [offered EXCEPT ![s][u.key] = u.n]
  /\ queue' = IF room THEN [queue EXCEPT ![s] = Append(@, u)] ELSE queue
  /\ UNCHANGED <<adapters, subscribed, stage, update, cancelled>>

MutKeyedDone(a) ==
  /\ stage[a] = "keyed" /\ left[a] = {}
  /\ Goto(a, "all", IF Matching(update[a].key) = {} THEN subscribed \cap Unified ELSE {})
  /\ UNCHANGED <<adapters, inbox, update, cancelled>>
KeyedDone(a) ==
  /\ stage[a] = "keyed" /\ left[a] = {}
  /\ Goto(a, "all", subscribed \cap Unified)
  /\ UNCHANGED <<adapters, inbox, update, cancelled>>

AllDone(a) ==
  /\ stage[a] = "all" /\ left[a] = {}
  /\ Goto(a, "select", {}) /\ update' = [update EXCEPT ![a] = NoUpdate]
  /\ UNCHANGED <<adapters, inbox, cancelled>>

WorkerStops(a) ==
  /\ stage[a] = "select" /\ cancelled
  /\ Goto(a, "exit", {})
  /\ UNCHANGED <<adapters, inbox, update, cancelled>>

Distribute(a) == KeyedDone(a) \/ AllDone(a) \/ \E s \in Subs : Offer(a, s)

Cancel == ~cancelled /\ cancelled' = TRUE /\ UNCHANGED <<adapters, inbox, workers>>

Consume(s) ==
  /\ queue[s] # << >> /\ queue' = [queue EXCEPT ![s] = Tail(@)]
  /\ UNCHANGED <<adapters, subscribed, offered, workers, cancelled>>

BNext ==
  \/ \E k \in Keys : \E p \in PricesOf[k] : Emit(k, p)
  \/ \E s \in Subs : Subscribe(s)
  \/ \E a \in Sources : Receive(a) \/ Distribute(a) \/ WorkerStops(a)
  \/ Cancel

-----------------------------------------------------------------------------
(* Every subscriber sees a lossy stream: whatever the goroutines, the two  *)
(* lists and late subscriptions do, each update of its markets is offered  *)
(* to it once, in order, and lost only where its channel is full.          *)
Sent(q)     == [i \in DOMAIN q |-> [key |-> q[i].key, n |-> q[i].n]]
Channels    == [s \in Subs |-> Sent(queue[s])]
LastOffered == [s \in Subs |-> [k \in Keys |-> IF k \in MarketsOf(s) THEN offered[s][k] ELSE 0]]
Wanted      == [s \in Subs |-> MarketsOf(s)]
Capacities  == [s \in Subs |-> Cap(s)]
Stream == INSTANCE LossyStream WITH
  joined <- subscribed, Wants <- Wanted, next <- LastOffered, Capacity <- Capacities, channel <- Channels
ImplementsStream == Stream!Spec

(* Between two updates of a source, everybody who had subscribed in time   *)
(* has been offered the last one: loss happens only at a full channel.     *)
EverybodyOffered ==
  \A k \in Keys : \A s \in subscribed :
    stage[SourceOf[k]] \in {"select", "exit"} /\ k \in MarketsOf(s)
      => offered[s][k] = Taken(k)

(* The inductive form: the updates of a market wait in the order they were *)
(* made, without a gap; a goroutine holds the last one taken up, and owes  *)
(* it to those on its list and, before the second list, to all of that.    *)
Busy(a) == stage[a] \in {"keyed", "all"}
Owed(s, k) ==
  LET a == SourceOf[k] IN
  Busy(a) /\ update[a].key = k /\ (s \in left[a] \/ (s \in Unified /\ stage[a] = "keyed"))

BTypeOK ==
  /\ made \in [Keys -> Numbers] /\ \A k \in Keys : made[k] <= MaxUpdates[k]
  /\ source \in [Sources -> Seq(Update)] /\ \A a \in Sources : Len(source[a]) <= SourceCap
  /\ subscribed \subseteq Subs
  /\ queue \in [Subs -> Seq(Update)] /\ \A s \in Subs : Len(queue[s]) <= Cap(s)
  /\ stage \in [Sources -> {"select", "keyed", "all", "exit"}]
  /\ update \in [Sources -> Update \cup {NoUpdate}] /\ left \in [Sources -> SUBSET Subs]
  /\ cancelled \in BOOLEAN
  /\ offered \in [Subs -> [Keys -> Numbers]]

Increasing(q) ==
  \A i, j \in DOMAIN q : i < j /\ q[i].key = q[j].key => q[i].n < q[j].n
InOrder ==
  \A a \in Sources :
    /\ \A i \in DOMAIN source[a] : SourceOf[source[a][i].key] = a
    /\ Increasing(source[a])
NoGap ==
  \A k \in Keys : Taken(k) \in 0 .. made[k] /\ Waiting(k) = Taken(k) + 1 .. made[k]
InHand ==
  \A a \in Sources :
    /\ Busy(a) => /\ update[a] \in Update /\ SourceOf[update[a].key] = a
                  /\ update[a].n = Taken(update[a].key) /\ update[a].n > 0
    /\ left[a] \subseteq CASE stage[a] = "keyed" -> Matching(update[a].key)
                         [] stage[a] = "all"   -> subscribed \cap Unified
                         [] OTHER              -> {}
NoneMissed ==
  \A k \in Keys : \A s \in subscribed :
    k \in MarketsOf(s) => offered[s][k] = IF Owed(s, k) THEN Taken(k) - 1 ELSE Taken(k)
BInv == BTypeOK /\ InOrder /\ NoGap /\ InHand /\ NoneMissed

(* Each subscriber receives the updates of a market in the order they were *)
(* made and none twice, across both lists and late subscriptions: what     *)
(* waits in its channel goes up, and is not ahead of what it was offered.  *)
ReceivedInOrder ==
  \A s \in Subs :
    /\ Increasing(queue[s])
    /\ \A i \in DOMAIN queue[s] : queue[s][i].n <= offered[s][queue[s][i].key]

(* Its inductive form: nothing was sent to who has not subscribed.         *)
OrderInv == BInv /\ ReceivedInOrder /\ \A s \in Subs \ subscribed : queue[s] = << >>

(* Nobody is waited for: a goroutine that received an update is done with  *)
(* it in the end, though no subscriber drains its channel.                 *)
SlowConsumersDoNotBlock == \A a \in Sources : stage[a] = "keyed" ~> stage[a] = "select"
=============================================================================
