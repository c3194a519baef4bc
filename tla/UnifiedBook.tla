---------------------------- MODULE UnifiedBook ----------------------------
(***************************************************************************)
(* internal/adapter/unified_book.go on the lossy stream that a Broadcaster *)
(* is for its subscribers: Run subscribes to both sides of every pair, one *)
(* goroutine per side merges the updates into the state of the pair under  *)
(* ub.mu and then, outside the lock, looks for arbitrage in the copies it  *)
(* took.  A book is known by its number among those of its market.         *)
(***************************************************************************)
EXTENDS Integers, Sequences, FiniteSetsExt

CONSTANTS
  Pairs, Keys, MarketOf,    \* the pairs, the markets, and the market of each side
  Books,                    \* prices of the bids and asks of a book
  Threshold,
  SubCap, EventCap,         \* channel capacities: both 256 in the code
  MaxUpdates                \* bound: books of each market

Exchanges == {"poly", "kalshi"}
Sides == Pairs \X Exchanges

ASSUME MarketAssumption == MarketOf \in [Sides -> Keys]
ASSUME PriceAssumption ==
  \A b \in Books : b.bids \subseteq Nat /\ b.asks \subseteq Nat
ASSUME BestAssumption == \A b \in Books :
  /\ b.bids # {} => \E x \in b.bids : \A y \in b.bids : x >= y
  /\ b.asks # {} => \E x \in b.asks : \A y \in b.asks : x <= y
ASSUME ThresholdAssumption == Threshold \in Nat
ASSUME LimitAssumption == SubCap \in Nat /\ EventCap \in Nat /\ MaxUpdates \in [Keys -> Nat]

VARIABLES
  quotes,                      \* the books of every market, oldest first
  joined, next, channel,       \* the stream: who subscribed, what it offered, the channels
  run, pairs, todo,            \* Run: its place, its copy of the pairs, those it has yet
                               \* to subscribe
  state,                       \* ub.states: the number of the book merged last per side
  stage, hand, copy,           \* goroutines: their place, the update and the state they hold
  events, cancelled,
  views,                       \* history, per pair: every state it had
  reported, lost               \* signals that were emitted, and those a full channel lost

stream  == <<quotes, joined, next, channel>>
runner  == <<run, pairs, todo>>
merged  == <<state, views>>
workers == <<stage, hand, copy>>
signals == <<events, reported, lost>>
vars == <<stream, runner, merged, workers, signals, cancelled>>

Stream == INSTANCE LossyStream WITH
  made <- [k \in Keys |-> Len(quotes[k])], Subs <- Sides,
  Wants <- [s \in Sides |-> {MarketOf[s]}], Capacity <- [s \in Sides |-> SubCap]

Nothing == [x \in Exchanges |-> 0]
View == [Exchanges -> Nat]
Other(x) == IF x = "poly" THEN "kalshi" ELSE "poly"

Init ==
  /\ quotes = [k \in Keys |-> << >>]
  /\ joined = {} /\ next = [s \in Sides |-> [k \in Keys |-> 0]]
  /\ channel = [s \in Sides |-> << >>]
  /\ run = "off" /\ pairs = {} /\ todo = {}
  /\ state = [p \in Pairs |-> Nothing] /\ views = [p \in Pairs |-> {Nothing}]
  /\ stage = [s \in Sides |-> "off"] /\ hand = [s \in Sides |-> 0]
  /\ copy = [s \in Sides |-> Nothing]
  /\ events = << >> /\ reported = {} /\ lost = {}
  /\ cancelled = FALSE

-----------------------------------------------------------------------------
(* The stream.                                                             *)
Publish(k, b) ==
  /\ Len(quotes[k]) < MaxUpdates[k]
  /\ quotes' = [quotes EXCEPT ![k] = Append(@, b)]
  /\ Stream!Make(k)
  /\ UNCHANGED <<runner, merged, workers, signals, cancelled>>

Deliver(s) ==
  /\ UNCHANGED quotes /\ Stream!Offer(s, MarketOf[s])
  /\ UNCHANGED <<runner, merged, workers, signals, cancelled>>

Cancel ==
  /\ ~cancelled /\ cancelled' = TRUE
  /\ UNCHANGED <<stream, runner, merged, workers, signals>>

-----------------------------------------------------------------------------
(* AddPair only stores the pair: nothing is subscribed before Run.         *)
AddPair(p) ==
  /\ run = "off" /\ p \notin pairs /\ pairs' = pairs \cup {p}
  /\ UNCHANGED <<stream, run, todo, merged, workers, signals, cancelled>>

Run ==
  /\ run = "off" /\ run' = "subscribing" /\ todo' = pairs \X Exchanges
  /\ UNCHANGED <<stream, pairs, merged, workers, signals, cancelled>>

(* One pair after the other, Polymarket first; the goroutines of a pair    *)
(* start when both its channels are there.                                 *)
Subscribe(s) ==
  /\ run = "subscribing" /\ s \in todo
  /\ \A r \in todo : r # s => <<r[1], Other(r[2])>> \in todo
  /\ s[2] = "kalshi" <=> <<s[1], "poly">> \notin todo
  /\ todo' = todo \ {s}
  /\ UNCHANGED quotes /\ Stream!Join(s)
  /\ stage' = IF s[2] = "poly" THEN stage
              ELSE [r \in Sides |-> IF r[1] = s[1] THEN "select" ELSE stage[r]]
  /\ UNCHANGED <<run, pairs, merged, hand, copy, signals, cancelled>>

Subscribed ==
  /\ run = "subscribing" /\ todo = {} /\ run' = "waiting"
  /\ UNCHANGED <<stream, pairs, todo, merged, workers, signals, cancelled>>

RunReturns ==
  /\ run = "waiting" /\ \A s \in pairs \X Exchanges : stage[s] = "exit"
  /\ run' = "returned"
  /\ UNCHANGED <<stream, pairs, todo, merged, workers, signals, cancelled>>

-----------------------------------------------------------------------------
(* consumeSide, applyUpdate and checkArbitrage of one side.                *)
Goto(s, l) == stage' = [stage EXCEPT ![s] = l]

Receive(s) ==
  /\ stage[s] = "select" /\ UNCHANGED quotes /\ Stream!Take(s)
  /\ hand' = [hand EXCEPT ![s] = Head(channel[s]).n]
  /\ Goto(s, "apply")
  /\ UNCHANGED <<runner, merged, copy, signals, cancelled>>

(* Under ub.mu: the own side is replaced, both are copied.                 *)
MutApply(s) ==
  LET p == s[1]  new == [state[p] EXCEPT ![s[2]] = hand[s]] IN
  /\ stage[s] = "apply" /\ Goto(s, "check poly bid")
  /\ state' = [state EXCEPT ![p] = new]
  /\ views' = [views EXCEPT ![p] = @ \cup {new}]
  /\ copy' = [copy EXCEPT ![s] = state[p]]
  /\ hand' = [hand EXCEPT ![s] = 0]
  /\ UNCHANGED <<stream, runner, signals, cancelled>>
Apply(s) ==
  LET p == s[1]  new == [state[p] EXCEPT ![s[2]] = hand[s]] IN
  /\ stage[s] = "apply" /\ Goto(s, "check poly bid")
  /\ state' = [state EXCEPT ![p] = new]
  /\ views' = [views EXCEPT ![p] = @ \cup {new}]
  /\ copy' = [copy EXCEPT ![s] = new]
  /\ hand' = [hand EXCEPT ![s] = 0]
  /\ UNCHANGED <<stream, runner, signals, cancelled>>

BestHigh(P) == IF P = {} THEN 0 ELSE Max(P)
BestLow(P)  == IF P = {} THEN 0 ELSE Min(P)

(* The book of one side in a view of a pair; it is empty before the first. *)
BookOf(p, x, v) ==
  IF v[x] = 0 THEN [bids |-> {}, asks |-> {}] ELSE quotes[MarketOf[<<p, x>>]][v[x]]

(* emit, of a signal that exchange x bids more than the other one asks.    *)
MutEmit(p, x, v, e) ==
  LET room == Len(events) <= EventCap IN
  /\ events' = IF room THEN Append(events, e) ELSE events
  /\ reported' = IF room THEN reported \cup {<<p, x, v>>} ELSE reported
  /\ lost' = IF room THEN lost ELSE lost \cup {<<p, x, v>>}
MutEmitWaits(p, x, v, e) ==
  /\ Len(events) < EventCap
  /\ events' = Append(events, e) /\ reported' = reported \cup {<<p, x, v>>}
  /\ UNCHANGED lost
Emit(p, x, v, e) ==
  LET room == Len(events) < EventCap IN
  /\ events' = IF room THEN Append(events, e) ELSE events
  /\ reported' = IF room THEN reported \cup {<<p, x, v>>} ELSE reported
  /\ lost' = IF room THEN lost ELSE lost \cup {<<p, x, v>>}

MutCheck(p, x, v) ==
  LET bid == BestHigh(BookOf(p, x, v).bids)
      ask == BestLow(BookOf(p, Other(x), v).asks)
  IN IF bid - ask > Threshold
     THEN Emit(p, x, v, [pair |-> p, bidder |-> x, bid |-> bid, ask |-> ask])
     ELSE UNCHANGED signals
Check(p, x, v) ==
  LET bid == BestHigh(BookOf(p, x, v).bids)
      ask == BestLow(BookOf(p, Other(x), v).asks)
  IN IF ask > 0 /\ bid - ask > Threshold
     THEN Emit(p, x, v, [pair |-> p, bidder |-> x, bid |-> bid, ask |-> ask])
     ELSE UNCHANGED signals

CheckPolyBid(s) ==
  /\ stage[s] = "check poly bid" /\ Goto(s, "check kalshi bid")
  /\ Check(s[1], "poly", copy[s])
  /\ UNCHANGED <<stream, runner, merged, hand, copy, cancelled>>

CheckKalshiBid(s) ==
  /\ stage[s] = "check kalshi bid" /\ Goto(s, "select")
  /\ Check(s[1], "kalshi", copy[s])
  /\ copy' = [copy EXCEPT ![s] = Nothing]
  /\ UNCHANGED <<stream, runner, merged, hand, cancelled>>

Stop(s) ==
  /\ stage[s] = "select" /\ cancelled /\ Goto(s, "exit")
  /\ UNCHANGED <<stream, runner, merged, hand, copy, signals, cancelled>>

Work(s) == Receive(s) \/ Apply(s) \/ CheckPolyBid(s) \/ CheckKalshiBid(s)

(* The reader of Events.                                                   *)
TakeEvent ==
  /\ events # << >> /\ events' = Tail(events)
  /\ UNCHANGED <<stream, runner, merged, workers, reported, lost, cancelled>>

Next ==
  \/ \E k \in Keys, b \in Books : Publish(k, b)
  \/ \E p \in Pairs : AddPair(p)
  \/ Run \/ Subscribed \/ RunReturns
  \/ \E s \in Sides : Deliver(s) \/ Subscribe(s) \/ Work(s) \/ Stop(s)
  \/ TakeEvent \/ Cancel

Spec == Init /\ [][Next]_vars

(* Run and the goroutines it starts keep running, each for itself.  The    *)
(* select of consumeSide picks at random, so with updates and the end of   *)
(* the context both ready it takes the end sooner or later; the reader of  *)
(* Events need not run.                                                    *)
FairSpec ==
  /\ Spec
  /\ WF_vars(Subscribed \/ RunReturns \/ \E s \in Sides : Subscribe(s))
  /\ \A s \in Sides : WF_vars(Work(s)) /\ SF_vars(Stop(s))

-----------------------------------------------------------------------------
(* Type invariant, with the numbers of books that each place can hold.     *)
Known(p) == {v \in View : \A x \in Exchanges : v[x] \in 0 .. Len(quotes[MarketOf[<<p, x>>]])}
Signal == Pairs \X Exchanges \X View
UBTypeOK ==
  /\ quotes \in [Keys -> Seq(Books)] /\ \A k \in Keys : Len(quotes[k]) <= MaxUpdates[k]
  /\ joined \subseteq Sides /\ next \in [Sides -> [Keys -> Nat]]
  /\ channel \in [Sides -> Seq([key : Keys, n : Nat])]
  /\ \A s \in Sides : Len(channel[s]) <= SubCap
       /\ \A i \in DOMAIN channel[s] : channel[s][i].n \in 1 .. Len(quotes[MarketOf[s]])
  /\ run \in {"off", "subscribing", "waiting", "returned"}
  /\ pairs \subseteq Pairs /\ todo \subseteq pairs \X Exchanges
  /\ stage \in [Sides -> {"off", "select", "apply", "check poly bid", "check kalshi bid", "exit"}]
  /\ hand \in [Sides -> Nat] /\ copy \in [Sides -> View]
  /\ \A s \in Sides : copy[s] \in Known(s[1])
       /\ hand[s] <= Len(quotes[MarketOf[s]]) /\ (stage[s] = "apply" <=> hand[s] # 0)
  /\ state \in [Pairs -> View] /\ views \in [Pairs -> SUBSET View]
  /\ \A p \in Pairs : state[p] \in Known(p) /\ views[p] \subseteq Known(p)
  /\ events \in Seq([pair : Pairs, bidder : Exchanges, bid : Nat, ask : Nat])
  /\ Len(events) <= EventCap
  /\ reported \subseteq Signal /\ lost \subseteq Signal /\ cancelled \in BOOLEAN

(* A signal quotes a bid and an ask that really stood in the two markets,  *)
(* the best there were, and that the merged book showed at one and the     *)
(* same moment, whatever the other goroutine did after the copy.           *)
SignalsWereReal ==
  \A i \in DOMAIN events :
    LET e == events[i] IN
    \E v \in views[e.pair] :
      LET bids == BookOf(e.pair, e.bidder, v).bids
          asks == BookOf(e.pair, Other(e.bidder), v).asks
      IN /\ e.bid \in bids /\ \A y \in bids : e.bid >= y
         /\ e.ask \in asks /\ \A y \in asks : e.ask <= y
         /\ e.bid - e.ask > Threshold

(* Somebody still has direction x of view v to check.                      *)
Unchecked(p, x, v) ==
  \E s \in Sides : s[1] = p /\ copy[s] = v
    /\ (stage[s] = "check poly bid" \/ (stage[s] = "check kalshi bid" /\ x = "kalshi"))

(* Exchange x bids more than the other one asks.  A best ask of 0 counts   *)
(* for an empty side, as it does in checkArbitrage.                        *)
Crosses(p, x, v) ==
  LET asks == BookOf(p, Other(x), v).asks
  IN 0 \notin asks /\ \E b \in BookOf(p, x, v).bids, a \in asks : b - a > Threshold

(* No crossing that the merged book ever showed goes unreported, however   *)
(* short: it was emitted, lost to a full channel, or is about to be looked *)
(* at.                                                                     *)
CrossingReported ==
  \A p \in Pairs : \A v \in views[p] : \A x \in Exchanges :
    Crosses(p, x, v) => <<p, x, v>> \in reported \cup lost \/ Unchecked(p, x, v)

(* The inductive form: what is checked was shown, and a goroutine starts   *)
(* once.                                                                   *)
WorkInv ==
  /\ \A s \in Sides : stage[s] \in {"check poly bid", "check kalshi bid"} => copy[s] \in views[s[1]]
  /\ run = "off" => \A s \in Sides : stage[s] = "off"
  /\ \A p \in Pairs : <<p, "kalshi">> \in todo => \A x \in Exchanges : stage[<<p, x>>] = "off"
UBInv == UBTypeOK /\ SignalsWereReal /\ CrossingReported /\ WorkInv

(* Every update a channel accepted comes to the merged book, one as new at *)
(* least, and a cancelled Run returns, though nobody reads Events.         *)
BookFollows ==
  /\ \A s \in Sides : \A n \in 1 .. MaxUpdates[MarketOf[s]] :
       stage[s] # "off" /\ (\E i \in DOMAIN channel[s] : channel[s][i].n = n)
         ~> cancelled \/ state[s[1]][s[2]] >= n
  /\ cancelled /\ run # "off" ~> run = "returned"
=============================================================================
