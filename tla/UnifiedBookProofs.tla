------------------------- MODULE UnifiedBookProofs -------------------------
(* Proofs about UnifiedBook.                                               *)
EXTENDS UnifiedBook, TLAPS

(* The book of a side in a view, the views there can be, what makes a      *)
(* signal real, and which views cross, given the history q of the markets. *)
BookIn(q, p, x, v) ==
  IF v[x] = 0 THEN [bids |-> {}, asks |-> {}] ELSE q[MarketOf[<<p, x>>]][v[x]]
KnownIn(q, p) == {v \in View : \A x \in Exchanges : v[x] \in 0 .. Len(q[MarketOf[<<p, x>>]])}
Real(q, e, v) ==
  LET bids == BookIn(q, e.pair, e.bidder, v).bids
      asks == BookIn(q, e.pair, Other(e.bidder), v).asks
  IN /\ e.bid \in bids /\ \A y \in bids : e.bid >= y
     /\ e.ask \in asks /\ \A y \in asks : e.ask <= y
     /\ e.bid - e.ask > Threshold
Crossed(q, p, x, v) ==
  /\ 0 \notin BookIn(q, p, Other(x), v).asks
  /\ \E b \in BookIn(q, p, x, v).bids, a \in BookIn(q, p, Other(x), v).asks : b - a > Threshold
Pending(st, cp, p, x, v) ==
  \E s \in Sides : s[1] = p /\ cp[s] = v
    /\ (st[s] = "check poly bid" \/ (st[s] = "check kalshi bid" /\ x = "kalshi"))

History == [Keys -> Seq(Books)]

LEMMA Forms ==
  /\ SignalsWereReal <=>
       \A i \in DOMAIN events : \E v \in views[events[i].pair] : Real(quotes, events[i], v)
  /\ CrossingReported <=>
       \A p \in Pairs : \A v \in views[p] : \A x \in Exchanges :
         Crossed(quotes, p, x, v) => <<p, x, v>> \in reported \cup lost \/ Pending(stage, copy, p, x, v)
<1>1. \A p, x, v : BookOf(p, x, v) = BookIn(quotes, p, x, v)
  BY DEF BookOf, BookIn
<1>2. SignalsWereReal <=>
        \A i \in DOMAIN events : \E v \in views[events[i].pair] : Real(quotes, events[i], v)
  BY DEF SignalsWereReal, Real, BookOf, BookIn
<1>3. \A p, x, v : Unchecked(p, x, v) <=> Pending(stage, copy, p, x, v)
  BY DEF Unchecked, Pending
<1>4. \A p, x, v : Crosses(p, x, v) <=> Crossed(quotes, p, x, v)
  BY <1>1 DEF Crosses, Crossed
<1> QED
  BY <1>2, <1>3, <1>4 DEF CrossingReported

LEMMA FormsNext ==
  /\ SignalsWereReal' <=>
       \A i \in DOMAIN events' : \E v \in views'[events'[i].pair] : Real(quotes', events'[i], v)
  /\ CrossingReported' <=>
       \A p \in Pairs : \A v \in views'[p] : \A x \in Exchanges :
         Crossed(quotes', p, x, v) =>
           <<p, x, v>> \in reported' \cup lost' \/ Pending(stage', copy', p, x, v)
<1>1. \A p, x, v : BookOf(p, x, v)' = BookIn(quotes', p, x, v)
  BY DEF BookOf, BookIn
<1>2. SignalsWereReal' <=>
        \A i \in DOMAIN events' : \E v \in views'[events'[i].pair] : Real(quotes', events'[i], v)
  BY DEF SignalsWereReal, Real, BookOf, BookIn
<1>3. \A p, x, v : Unchecked(p, x, v)' <=> Pending(stage', copy', p, x, v)
  BY DEF Unchecked, Pending
<1>4. \A p, x, v : Crosses(p, x, v)' <=> Crossed(quotes', p, x, v)
  BY <1>1 DEF Crosses, Crossed
<1> QED
  BY <1>2, <1>3, <1>4 DEF CrossingReported

LEMMA ElementOf ==
  ASSUME NEW E, NEW f \in Seq(E), NEW i \in DOMAIN f
  PROVE  f[i] \in E
OBVIOUS

LEMMA TailOf ==
  ASSUME NEW E, NEW f \in Seq(E), f # << >>
  PROVE  /\ Head(f) = f[1] /\ 1 \in DOMAIN f
         /\ Tail(f) \in Seq(E) /\ Len(f) \in Nat /\ Len(Tail(f)) = Len(f) - 1
         /\ \A i \in DOMAIN Tail(f) : i + 1 \in DOMAIN f /\ Tail(f)[i] = f[i + 1]
OBVIOUS

LEMMA Market ==
  ASSUME NEW p \in Pairs, NEW x \in Exchanges
  PROVE  <<p, x>> \in Sides /\ MarketOf[<<p, x>>] \in Keys /\ Other(x) \in Exchanges
BY MarketAssumption DEF Sides, Exchanges, Other

(* A book that is there stays what it is when another one is published.    *)
Extends(q, r) ==
  \A j \in Keys : /\ Len(q[j]) \in Nat /\ Len(r[j]) \in Nat /\ Len(q[j]) <= Len(r[j])
                  /\ \A n \in 1 .. Len(q[j]) : r[j][n] = q[j][n]

LEMMA BooksStay ==
  ASSUME NEW q, NEW r, Extends(q, r), NEW p \in Pairs, NEW v \in KnownIn(q, p)
  PROVE  /\ v \in KnownIn(r, p)
         /\ \A x \in Exchanges : BookIn(r, p, x, v) = BookIn(q, p, x, v)
<1>1. \A x \in Exchanges :
        /\ MarketOf[<<p, x>>] \in Keys
        /\ v[x] \in 0 .. Len(q[MarketOf[<<p, x>>]])
  BY Market DEF KnownIn
<1>2. ASSUME NEW x \in Exchanges
      PROVE  v[x] \in 0 .. Len(r[MarketOf[<<p, x>>]]) /\ BookIn(r, p, x, v) = BookIn(q, p, x, v)
  <2> DEFINE j == MarketOf[<<p, x>>]
  <2>1. j \in Keys /\ v[x] \in 0 .. Len(q[j]) /\ Len(q[j]) \in Nat /\ Len(r[j]) \in Nat
    BY <1>1 DEF Extends
  <2>2. v[x] \in 0 .. Len(r[j])
    BY <2>1 DEF Extends
  <2>3. v[x] # 0 => r[j][v[x]] = q[j][v[x]]
    BY <2>1 DEF Extends
  <2> QED
    BY <2>2, <2>3 DEF BookIn
<1> QED
  BY <1>2 DEF KnownIn

LEMMA AppendExtends ==
  ASSUME NEW q \in History, NEW k \in Keys, NEW b \in Books
  PROVE  Extends(q, [q EXCEPT ![k] = Append(@, b)])
<1> DEFINE r == [q EXCEPT ![k] = Append(@, b)]
<1> SUFFICES ASSUME NEW j \in Keys
             PROVE  /\ Len(q[j]) \in Nat /\ Len(r[j]) \in Nat /\ Len(q[j]) <= Len(r[j])
                    /\ \A n \in 1 .. Len(q[j]) : r[j][n] = q[j][n]
  BY DEF Extends
<1>1. q[j] \in Seq(Books)
  BY DEF History
<1>2. r[j] = q[j] \/ r[j] = Append(q[j], b)
  BY DEF History
<1> QED
  BY <1>1, <1>2

(* The books of a known view are books of the market, or empty.            *)
LEMMA BookTypes ==
  ASSUME NEW q \in History, NEW p \in Pairs, NEW v \in KnownIn(q, p), NEW x \in Exchanges
  PROVE  LET b == BookIn(q, p, x, v) IN b \in Books \/ (b.bids = {} /\ b.asks = {})
<1>1. MarketOf[<<p, x>>] \in Keys /\ v[x] \in 0 .. Len(q[MarketOf[<<p, x>>]])
  BY Market DEF KnownIn
<1>2. q[MarketOf[<<p, x>>]] \in Seq(Books)
  BY <1>1 DEF History
<1>3. v[x] # 0 => v[x] \in 1 .. Len(q[MarketOf[<<p, x>>]])
  BY <1>1, <1>2
<1> QED
  BY <1>2, <1>3 DEF BookIn

LEMMA BestBid ==
  ASSUME NEW P, P \subseteq Nat, P # {} => \E x \in P : \A y \in P : x >= y
  PROVE  /\ P # {} => BestHigh(P) \in P /\ \A y \in P : BestHigh(P) >= y
         /\ P = {} => BestHigh(P) = 0
         /\ BestHigh(P) \in Nat
<1>1. CASE P # {}
  <2>1. BestHigh(P) \in P /\ \A y \in P : BestHigh(P) >= y
    BY <1>1 DEF BestHigh, Max
  <2> QED
    BY <1>1, <2>1
<1>2. CASE P = {}
  BY <1>2 DEF BestHigh
<1> QED
  BY <1>1, <1>2

LEMMA BestAsk ==
  ASSUME NEW P, P \subseteq Nat, P # {} => \E x \in P : \A y \in P : x <= y
  PROVE  /\ P # {} => BestLow(P) \in P /\ \A y \in P : BestLow(P) <= y
         /\ P = {} => BestLow(P) = 0
         /\ BestLow(P) \in Nat
<1>1. CASE P # {}
  <2>1. BestLow(P) \in P /\ \A y \in P : BestLow(P) <= y
    BY <1>1 DEF BestLow, Min
  <2> QED
    BY <1>1, <2>1
<1>2. CASE P = {}
  BY <1>2 DEF BestLow
<1> QED
  BY <1>1, <1>2

(* The comparison of the best prices finds every crossing with a side that *)
(* asks nothing at 0, and what it reports of it is real.                   *)
LEMMA CheckIsRight ==
  ASSUME NEW q \in History, NEW p \in Pairs, NEW v \in KnownIn(q, p), NEW x \in Exchanges,
         NEW bid, bid = BestHigh(BookIn(q, p, x, v).bids),
         NEW ask, ask = BestLow(BookIn(q, p, Other(x), v).asks)
  PROVE  /\ bid \in Nat /\ ask \in Nat
         /\ Crossed(q, p, x, v) => ask > 0 /\ bid - ask > Threshold
         /\ ask > 0 /\ bid - ask > Threshold =>
              Real(q, [pair |-> p, bidder |-> x, bid |-> bid, ask |-> ask], v)
<1> DEFINE B == BookIn(q, p, x, v).bids
           A == BookIn(q, p, Other(x), v).asks
<1>1. Other(x) \in Exchanges
  BY Market
<1>2. /\ B \subseteq Nat /\ (B # {} => \E z \in B : \A y \in B : z >= y)
      /\ A \subseteq Nat /\ (A # {} => \E z \in A : \A y \in A : z <= y)
  BY <1>1, BookTypes, PriceAssumption, BestAssumption
<1> HIDE DEF A, B
<1>3. /\ B # {} => bid \in B /\ \A y \in B : bid >= y
      /\ B = {} => bid = 0
      /\ bid \in Nat
  BY <1>2, BestBid DEF B
<1>4. /\ A # {} => ask \in A /\ \A y \in A : ask <= y
      /\ A = {} => ask = 0
      /\ ask \in Nat
  BY <1>2, BestAsk DEF A
<1>5. ASSUME 0 \notin A, NEW b \in B, NEW a \in A, b - a > Threshold PROVE ask > 0 /\ bid - ask > Threshold
  <2>1. b \in Nat /\ a \in Nat /\ bid >= b /\ ask <= a /\ ask \in A
    BY <1>2, <1>3, <1>4
  <2> QED
    BY <1>2, <1>3, <1>4, <1>5, <2>1, ThresholdAssumption
<1>6. Crossed(q, p, x, v) => ask > 0 /\ bid - ask > Threshold
  BY <1>5 DEF Crossed, A, B
<1>7. ASSUME ask > 0, bid - ask > Threshold
      PROVE  Real(q, [pair |-> p, bidder |-> x, bid |-> bid, ask |-> ask], v)
  <2>1. A # {} /\ B # {}
    BY <1>3, <1>4, <1>7, ThresholdAssumption
  <2> QED
    BY <1>3, <1>4, <1>7, <2>1 DEF Real, A, B
<1> QED
  BY <1>3, <1>4, <1>6, <1>7

-----------------------------------------------------------------------------
(* Whoever is checking a view goes on doing so: nothing changes for the    *)
(* signals.                                                                *)
LEMMA QuietStep ==
  ASSUME UBInv, UNCHANGED <<quotes, views, copy, events, reported, lost>>,
         \A s \in Sides : stage[s] \in {"check poly bid", "check kalshi bid"} => stage'[s] = stage[s]
  PROVE  SignalsWereReal' /\ CrossingReported'
<1>1. SignalsWereReal'
  BY Forms, FormsNext DEF UBInv
<1>2. ASSUME NEW p, NEW v, NEW x, Pending(stage, copy, p, x, v) PROVE Pending(stage', copy', p, x, v)
  BY <1>2 DEF Pending
<1>3. CrossingReported'
  BY <1>2, Forms, FormsNext DEF UBInv
<1> QED
  BY <1>1, <1>3

Places == {"off", "select", "apply", "check poly bid", "check kalshi bid", "exit"}
USE DEF Places

(* A goroutine that runs goes from one place to another.                   *)
LEMMA WorkStep ==
  ASSUME WorkInv, stage \in [Sides -> Places], NEW s \in Sides, stage[s] # "off",
         NEW l \in Places \ {"off"}, stage' = [stage EXCEPT ![s] = l], UNCHANGED <<run, todo>>,
         \A p \in Pairs : views[p] \subseteq views'[p],
         \A r \in Sides \ {s} : copy'[r] = copy[r],
         l \in {"check poly bid", "check kalshi bid"} => copy'[s] \in views'[s[1]]
  PROVE  WorkInv'
<1>1. stage'[s] = l /\ \A r \in Sides \ {s} : stage'[r] = stage[r]
  OBVIOUS
<1>2. ASSUME NEW r \in Sides, stage'[r] \in {"check poly bid", "check kalshi bid"}
      PROVE  copy'[r] \in views'[r[1]]
  <2>1. CASE r = s
    BY <1>1, <1>2, <2>1
  <2>2. CASE r # s
    <3>1. stage'[r] = stage[r] /\ copy'[r] = copy[r] /\ r[1] \in Pairs
      BY <1>1, <2>2 DEF Sides
    <3>2. copy[r] \in views[r[1]]
      BY <1>2, <3>1 DEF WorkInv
    <3> QED
      BY <3>1, <3>2
  <2> QED
    BY <2>1, <2>2
<1>3. run' # "off"
  BY DEF WorkInv
<1>4. ASSUME NEW p \in Pairs, <<p, "kalshi">> \in todo', NEW x \in Exchanges
      PROVE  stage'[<<p, x>>] = "off"
  <2>1. stage[<<p, x>>] = "off" /\ <<p, x>> \in Sides
    BY <1>4 DEF WorkInv, Sides
  <2> QED
    BY <1>1, <2>1
<1> QED
  BY <1>2, <1>3, <1>4 DEF WorkInv

LEMMA PublishStep ==
  ASSUME UBInv, NEW k \in Keys, NEW b \in Books, Publish(k, b)
  PROVE  UBInv'
<1>1. UBTypeOK /\ SignalsWereReal /\ CrossingReported /\ WorkInv
  BY DEF UBInv
<1>2. /\ quotes' = [quotes EXCEPT ![k] = Append(@, b)] /\ Len(quotes[k]) < MaxUpdates[k]
      /\ UNCHANGED <<joined, next, channel, run, pairs, todo, state, views, stage, hand, copy,
                     events, reported, lost, cancelled>>
  BY DEF Publish, Stream!Make, runner, merged, workers, signals
<1>3. quotes \in History /\ quotes' \in History
  <2>1. quotes \in [Keys -> Seq(Books)]
    BY <1>1 DEF UBTypeOK
  <2>2. Append(quotes[k], b) \in Seq(Books)
    BY <2>1
  <2> QED
    BY <1>2, <2>1, <2>2 DEF History
<1>4. \A j \in Keys : /\ Len(quotes[j]) \in Nat /\ Len(quotes'[j]) \in Nat
                      /\ Len(quotes[j]) <= Len(quotes'[j]) /\ Len(quotes'[j]) <= MaxUpdates[j]
  <2> SUFFICES ASSUME NEW j \in Keys
               PROVE  /\ Len(quotes[j]) \in Nat /\ Len(quotes'[j]) \in Nat
                      /\ Len(quotes[j]) <= Len(quotes'[j]) /\ Len(quotes'[j]) <= MaxUpdates[j]
    OBVIOUS
  <2>1. quotes[j] \in Seq(Books) /\ Len(quotes[j]) <= MaxUpdates[j]
    BY <1>1 DEF UBTypeOK
  <2>2. CASE j = k
    <3>1. quotes'[j] = Append(quotes[j], b) /\ MaxUpdates[j] \in Nat /\ Len(quotes[j]) < MaxUpdates[j]
      BY <2>2, <1>2, <1>3, LimitAssumption DEF History
    <3> QED
      BY <2>1, <3>1
  <2>3. CASE j # k
    BY <2>1, <2>3, <1>2, <1>3 DEF History
  <2> QED
    BY <2>2, <2>3
<1>5. \A p \in Pairs : \A v \in KnownIn(quotes, p) :
        /\ v \in KnownIn(quotes', p)
        /\ \A x \in Exchanges : BookIn(quotes', p, x, v) = BookIn(quotes, p, x, v)
  <2>1. Extends(quotes, quotes')
    BY <1>2, <1>3, AppendExtends
  <2> QED
    BY <2>1, BooksStay
<1>6. \A s \in Sides : MarketOf[s] \in Keys /\ s[1] \in Pairs
  BY MarketAssumption DEF Sides
<1>7. \A p \in Pairs : Known(p) = KnownIn(quotes, p) /\ views[p] \subseteq Known(p) /\ state[p] \in Known(p)
  BY <1>1 DEF UBTypeOK, Known, KnownIn
<1>8. UBTypeOK'
  <2>1. \A s \in Sides :
          /\ \A i \in DOMAIN channel[s] : channel[s][i].n \in 1 .. Len(quotes'[MarketOf[s]])
          /\ hand[s] <= Len(quotes'[MarketOf[s]])
    <3> SUFFICES ASSUME NEW s \in Sides
                 PROVE  /\ \A i \in DOMAIN channel[s] : channel[s][i].n \in 1 .. Len(quotes'[MarketOf[s]])
                        /\ hand[s] <= Len(quotes'[MarketOf[s]])
      OBVIOUS
    <3>1. /\ \A i \in DOMAIN channel[s] : channel[s][i].n \in 1 .. Len(quotes[MarketOf[s]])
          /\ hand[s] \in Nat /\ hand[s] <= Len(quotes[MarketOf[s]])
      BY <1>1 DEF UBTypeOK
    <3> QED
      BY <3>1, <1>4, <1>6
  <2>2. \A s \in Sides : copy[s] \in KnownIn(quotes', s[1])
    BY <1>1, <1>5, <1>6, <1>7 DEF UBTypeOK
  <2>3. \A p \in Pairs : state[p] \in KnownIn(quotes', p) /\ views[p] \subseteq KnownIn(quotes', p)
    BY <1>5, <1>7
  <2> QED
    BY <1>1, <1>2, <1>3, <1>4, <2>1, <2>2, <2>3 DEF UBTypeOK, Known, KnownIn, History
<1>9. WorkInv'
  BY <1>1, <1>2 DEF WorkInv
<1>10. SignalsWereReal'
  <2> SUFFICES ASSUME NEW i \in DOMAIN events
               PROVE  \E v \in views[events[i].pair] : Real(quotes', events[i], v)
    BY <1>2, FormsNext
  <2>1. PICK v \in views[events[i].pair] : Real(quotes, events[i], v)
    BY <1>1, Forms
  <2>2. events[i].pair \in Pairs /\ events[i].bidder \in Exchanges
    <3>1. events \in Seq([pair : Pairs, bidder : Exchanges, bid : Nat, ask : Nat])
      BY <1>1 DEF UBTypeOK
    <3>2. events[i] \in [pair : Pairs, bidder : Exchanges, bid : Nat, ask : Nat]
      BY <3>1, ElementOf
    <3> QED
      BY <3>2
  <2>3. v \in KnownIn(quotes, events[i].pair) /\ Other(events[i].bidder) \in Exchanges
    BY <1>7, <2>1, <2>2, Market
  <2>4. \A x \in Exchanges : BookIn(quotes', events[i].pair, x, v) = BookIn(quotes, events[i].pair, x, v)
    BY <1>5, <2>2, <2>3
  <2>5. Real(quotes', events[i], v)
    BY <2>1, <2>2, <2>3, <2>4 DEF Real
  <2> QED
    BY <2>5
<1>11. CrossingReported'
  <2>1. ASSUME NEW p \in Pairs, NEW v \in views[p], NEW x \in Exchanges, Crossed(quotes', p, x, v)
        PROVE  Crossed(quotes, p, x, v)
    <3>1. v \in KnownIn(quotes, p) /\ Other(x) \in Exchanges
      BY <1>7, Market
    <3> QED
      BY <1>5, <2>1, <3>1 DEF Crossed
  <2> QED
    BY <1>1, <1>2, <2>1, Forms, FormsNext
<1> QED
  BY <1>8, <1>9, <1>10, <1>11 DEF UBInv

(* The stream delivers what has been published.                            *)
LEMMA DeliverStep ==
  ASSUME UBInv, NEW s \in Sides, Deliver(s)
  PROVE  UBInv'
<1> DEFINE k == MarketOf[s]
           u == [key |-> k, n |-> next[s][k] + 1]
<1>1. UBTypeOK /\ WorkInv
  BY DEF UBInv
<1>2. /\ s \in joined /\ next[s][k] < Len(quotes[k]) /\ k \in Keys
      /\ next' = [next EXCEPT ![s][k] = @ + 1]
      /\ channel' = IF Len(channel[s]) < SubCap THEN [channel EXCEPT ![s] = Append(@, u)] ELSE channel
      /\ UNCHANGED <<quotes, joined, run, pairs, todo, state, views, stage, hand, copy,
                     events, reported, lost, cancelled>>
  BY MarketAssumption DEF Deliver, Stream!Offer, runner, merged, workers, signals
<1>3. next \in [Sides -> [Keys -> Nat]] /\ next' \in [Sides -> [Keys -> Nat]]
  <2>1. next \in [Sides -> [Keys -> Nat]]
    BY <1>1 DEF UBTypeOK
  <2>2. next[s] \in [Keys -> Nat] /\ next[s][k] + 1 \in Nat
    BY <1>2, <2>1
  <2>3. [next[s] EXCEPT ![k] = next[s][k] + 1] \in [Keys -> Nat]
    BY <2>2
  <2> HIDE DEF k
  <2> QED
    BY <1>2, <2>1, <2>3
<1>4. u \in [key : Keys, n : Nat] /\ u.n \in 1 .. Len(quotes[k])
  <2>1. quotes \in [Keys -> Seq(Books)]
    BY <1>1 DEF UBTypeOK
  <2>2. next[s][k] \in Nat /\ Len(quotes[k]) \in Nat
    BY <1>2, <1>3, <2>1
  <2> QED
    BY <1>2, <2>2
<1> HIDE DEF u
<1>5. /\ channel' \in [Sides -> Seq([key : Keys, n : Nat])]
      /\ \A r \in Sides : Len(channel'[r]) <= SubCap
           /\ \A i \in DOMAIN channel'[r] : channel'[r][i].n \in 1 .. Len(quotes[MarketOf[r]])
  <2>1. /\ channel \in [Sides -> Seq([key : Keys, n : Nat])]
        /\ \A r \in Sides : Len(channel[r]) <= SubCap
             /\ \A i \in DOMAIN channel[r] : channel[r][i].n \in 1 .. Len(quotes[MarketOf[r]])
    BY <1>1 DEF UBTypeOK
  <2>2. CASE channel' = channel
    BY <2>1, <2>2
  <2>3. CASE Len(channel[s]) < SubCap /\ channel' = [channel EXCEPT ![s] = Append(@, u)]
    <3>1. channel[s] \in Seq([key : Keys, n : Nat]) /\ channel'[s] = Append(channel[s], u)
      BY <2>1, <2>3
    <3>2. /\ channel'[s] \in Seq([key : Keys, n : Nat]) /\ Len(channel'[s]) = Len(channel[s]) + 1
          /\ \A i \in DOMAIN channel'[s] :
               channel'[s][i] = u \/ (i \in DOMAIN channel[s] /\ channel'[s][i] = channel[s][i])
      BY <1>4, <3>1
    <3>3. Len(channel'[s]) <= SubCap
      BY <2>3, <3>1, <3>2, LimitAssumption
    <3>4. \A i \in DOMAIN channel'[s] : channel'[s][i].n \in 1 .. Len(quotes[MarketOf[s]])
      BY <1>4, <2>1, <3>2
    <3>5. \A r \in Sides \ {s} : channel'[r] = channel[r]
      BY <2>1, <2>3
    <3>6. channel' \in [Sides -> Seq([key : Keys, n : Nat])]
      BY <2>1, <2>3, <3>1, <3>2
    <3> QED
      BY <2>1, <3>3, <3>4, <3>5, <3>6
  <2> QED
    BY <1>2, <2>2, <2>3
<1>6. UBTypeOK'
  BY <1>1, <1>2, <1>3, <1>5 DEF UBTypeOK, Known
<1>7. WorkInv'
  BY <1>1, <1>2 DEF WorkInv
<1> QED
  BY <1>2, <1>6, <1>7, QuietStep DEF UBInv

LEMMA ReceiveStep ==
  ASSUME UBInv, NEW s \in Sides, Receive(s)
  PROVE  UBInv'
<1>1. UBTypeOK /\ WorkInv
  BY DEF UBInv
<1>2. /\ stage[s] = "select" /\ channel[s] # << >>
      /\ channel' = [channel EXCEPT ![s] = Tail(@)]
      /\ hand' = [hand EXCEPT ![s] = Head(channel[s]).n]
      /\ stage' = [stage EXCEPT ![s] = "apply"]
      /\ UNCHANGED <<quotes, joined, next, run, pairs, todo, state, views, copy,
                     events, reported, lost, cancelled>>
  BY DEF Receive, Goto, Stream!Take, runner, merged, signals
<1>3. /\ channel \in [Sides -> Seq([key : Keys, n : Nat])]
      /\ \A r \in Sides : Len(channel[r]) <= SubCap
           /\ \A i \in DOMAIN channel[r] : channel[r][i].n \in 1 .. Len(quotes[MarketOf[r]])
  BY <1>1 DEF UBTypeOK
<1>4. /\ Head(channel[s]) = channel[s][1] /\ 1 \in DOMAIN channel[s]
      /\ Tail(channel[s]) \in Seq([key : Keys, n : Nat]) /\ Len(Tail(channel[s])) <= SubCap
      /\ \A i \in DOMAIN Tail(channel[s]) :
           i + 1 \in DOMAIN channel[s] /\ Tail(channel[s])[i] = channel[s][i + 1]
  <2>1. channel[s] \in Seq([key : Keys, n : Nat]) /\ Len(channel[s]) <= SubCap
    BY <1>3
  <2>2. /\ Head(channel[s]) = channel[s][1] /\ 1 \in DOMAIN channel[s]
        /\ Tail(channel[s]) \in Seq([key : Keys, n : Nat])
        /\ Len(channel[s]) \in Nat /\ Len(Tail(channel[s])) = Len(channel[s]) - 1
        /\ \A i \in DOMAIN Tail(channel[s]) :
             i + 1 \in DOMAIN channel[s] /\ Tail(channel[s])[i] = channel[s][i + 1]
    BY <2>1, <1>2, TailOf
  <2>3. Len(Tail(channel[s])) <= SubCap
    BY <2>1, <2>2, LimitAssumption
  <2> QED
    BY <2>2, <2>3
<1>5. /\ channel' \in [Sides -> Seq([key : Keys, n : Nat])]
      /\ \A r \in Sides : Len(channel'[r]) <= SubCap
           /\ \A i \in DOMAIN channel'[r] : channel'[r][i].n \in 1 .. Len(quotes[MarketOf[r]])
  <2>1. channel'[s] = Tail(channel[s]) /\ \A r \in Sides \ {s} : channel'[r] = channel[r]
    BY <1>2, <1>3
  <2>2. channel' \in [Sides -> Seq([key : Keys, n : Nat])]
    BY <1>2, <1>3, <1>4
  <2>3. \A i \in DOMAIN channel'[s] : channel'[s][i].n \in 1 .. Len(quotes[MarketOf[s]])
    BY <1>3, <1>4, <2>1
  <2> QED
    BY <1>3, <1>4, <2>1, <2>2, <2>3
<1>6. Head(channel[s]).n \in 1 .. Len(quotes[MarketOf[s]]) /\ Len(quotes[MarketOf[s]]) \in Nat
  <2>1. quotes[MarketOf[s]] \in Seq(Books)
    BY <1>1, MarketAssumption DEF UBTypeOK
  <2> QED
    BY <1>3, <1>4, <2>1
<1>7. UBTypeOK'
  <2>0. /\ hand \in [Sides -> Nat] /\ stage \in [Sides -> Places]
        /\ \A r \in Sides : hand[r] <= Len(quotes[MarketOf[r]]) /\ (stage[r] = "apply" <=> hand[r] # 0)
    BY <1>1 DEF UBTypeOK
  <2>1. PICK n \in Nat : /\ n # 0 /\ n <= Len(quotes[MarketOf[s]])
                         /\ hand' = [hand EXCEPT ![s] = n]
    <3> DEFINE m == Head(channel[s]).n
    <3>1. hand' = [hand EXCEPT ![s] = m]
      BY <1>2
    <3>2. m \in 1 .. Len(quotes[MarketOf[s]]) /\ Len(quotes[MarketOf[s]]) \in Nat
      BY <1>6
    <3> HIDE DEF m
    <3>3. m \in Nat /\ m # 0 /\ m <= Len(quotes[MarketOf[s]])
      BY <3>2
    <3> QED
      BY <3>1, <3>3
  <2>2. hand' \in [Sides -> Nat] /\ hand'[s] = n /\ \A r \in Sides \ {s} : hand'[r] = hand[r]
    BY <2>0, <2>1
  <2>3. /\ stage' \in [Sides -> Places] /\ stage'[s] = "apply"
        /\ \A r \in Sides \ {s} : stage'[r] = stage[r]
    BY <1>2, <2>0
  <2>4. \A r \in Sides : hand'[r] <= Len(quotes[MarketOf[r]]) /\ (stage'[r] = "apply" <=> hand'[r] # 0)
    BY <2>0, <2>1, <2>2, <2>3
  <2> QED
    BY <1>1, <1>2, <1>5, <2>2, <2>3, <2>4 DEF UBTypeOK, Known
<1>8. stage \in [Sides -> Places]
  BY <1>1 DEF UBTypeOK
<1>9. WorkInv'
  BY <1>1, <1>2, <1>8, WorkStep
<1> QED
  BY <1>2, <1>7, <1>8, <1>9, QuietStep DEF UBInv

LEMMA SubscribeStep ==
  ASSUME UBInv, NEW s \in Sides, Subscribe(s)
  PROVE  UBInv'
<1>1. UBTypeOK /\ WorkInv
  BY DEF UBInv
<1>2. PICK f \in Stream!Starts(s) :
        /\ run = "subscribing" /\ s \in todo
        /\ s[2] = "kalshi" <=> <<s[1], "poly">> \notin todo
        /\ todo' = todo \ {s}
        /\ joined' = joined \cup {s} /\ next' = [next EXCEPT ![s] = f]
        /\ stage' = IF s[2] = "poly" THEN stage
                    ELSE [r \in Sides |-> IF r[1] = s[1] THEN "select" ELSE stage[r]]
        /\ UNCHANGED <<quotes, channel, run, pairs, state, views, hand, copy, events, reported, lost, cancelled>>
  BY DEF Subscribe, Stream!Join, merged, signals
<1>3. f \in [Keys -> Nat]
  <2>0. quotes \in [Keys -> Seq(Books)]
    BY <1>1 DEF UBTypeOK
  <2>1. \A k \in Keys : Len(quotes[k]) \in Nat
    BY <2>0
  <2>2. f \in [Keys -> UNION {0 .. Len(quotes[k]) : k \in Keys}]
    BY DEF Stream!Starts
  <2> QED
    BY <2>1, <2>2
<1>4. stage \in [Sides -> Places]
  BY <1>1 DEF UBTypeOK
<1>5. s[1] \in Pairs /\ s[2] \in {"poly", "kalshi"} /\ s = <<s[1], s[2]>>
  BY DEF Sides, Exchanges
<1>6. s[2] = "kalshi" => \A r \in Sides : r[1] = s[1] => stage[r] = "off"
  <2> SUFFICES ASSUME s[2] = "kalshi", NEW r \in Sides, r[1] = s[1] PROVE stage[r] = "off"
    OBVIOUS
  <2>1. <<s[1], "kalshi">> \in todo
    BY <1>2, <1>5
  <2>2. r = <<s[1], r[2]>> /\ r[2] \in Exchanges
    BY DEF Sides
  <2> QED
    BY <1>1, <1>5, <2>1, <2>2 DEF WorkInv
<1>7. UBTypeOK'
  <2>1. stage' \in [Sides -> Places]
    BY <1>2, <1>4
  <2>2. \A r \in Sides : stage'[r] = "apply" <=> stage[r] = "apply"
    BY <1>2, <1>4, <1>5, <1>6
  <2>3. next' \in [Sides -> [Keys -> Nat]] /\ todo' \subseteq pairs \X Exchanges
    BY <1>1, <1>2, <1>3 DEF UBTypeOK
  <2> QED
    <3>1. /\ UNCHANGED <<quotes, channel, run, pairs, state, views, hand, copy, events, reported, lost, cancelled>>
          /\ joined' \subseteq Sides
      BY <1>1, <1>2 DEF UBTypeOK
    <3>2. \A r \in Sides : stage'[r] = "apply" <=> hand[r] # 0
      BY <1>1, <2>2 DEF UBTypeOK
    <3> QED
      BY <1>1, <2>1, <2>3, <3>1, <3>2 DEF UBTypeOK, Known
<1>8. \A r \in Sides : stage[r] \in {"check poly bid", "check kalshi bid"} => stage'[r] = stage[r]
  BY <1>2, <1>4, <1>5, <1>6
<1>9. WorkInv'
  <2>1. \A r \in Sides : stage'[r] \in {"check poly bid", "check kalshi bid"} => stage[r] = stage'[r]
    BY <1>2, <1>4, <1>5
  <2>2. \A r \in Sides : stage'[r] \in {"check poly bid", "check kalshi bid"} => copy[r] \in views[r[1]]
    BY <1>1, <2>1 DEF WorkInv
  <2>3. ASSUME NEW p \in Pairs, <<p, "kalshi">> \in todo', NEW x \in Exchanges PROVE stage'[<<p, x>>] = "off"
    <3>1. <<p, "kalshi">> \in todo /\ <<p, "kalshi">> # s
      BY <1>2, <2>3
    <3>2. stage[<<p, x>>] = "off" /\ <<p, x>> \in Sides
      BY <1>1, <3>1 DEF WorkInv, Sides
    <3>3. s[2] = "kalshi" => s[1] # p
      BY <1>5, <3>1
    <3> QED
      BY <1>2, <1>4, <1>5, <3>2, <3>3
  <2> QED
    BY <1>2, <2>2, <2>3 DEF WorkInv
<1> QED
  BY <1>2, <1>7, <1>8, <1>9, QuietStep DEF UBInv

(* What Run and the owner of the book do to the list of pairs.             *)
LEMMA RunnerStep ==
  ASSUME UBInv, (\E p \in Pairs : AddPair(p)) \/ Run \/ Subscribed \/ RunReturns \/ Cancel
  PROVE  UBInv'
<1>1. UBTypeOK /\ WorkInv
  BY DEF UBInv
<1>2. UNCHANGED <<quotes, joined, next, channel, state, views, stage, hand, copy, events, reported, lost>>
  BY DEF AddPair, Run, Subscribed, RunReturns, Cancel, stream, merged, workers, signals
<1>3. /\ run' \in {"off", "subscribing", "waiting", "returned"} /\ cancelled' \in BOOLEAN
      /\ pairs' \subseteq Pairs /\ todo' \subseteq pairs' \X Exchanges
  BY <1>1 DEF UBTypeOK, AddPair, Run, Subscribed, RunReturns, Cancel, runner
<1>4. UBTypeOK'
  BY <1>1, <1>2, <1>3 DEF UBTypeOK, Known
<1>5. WorkInv'
  <2>1. CASE Run
    <3>1. \A s \in Sides : stage[s] = "off"
      BY <1>1, <2>1 DEF Run, WorkInv
    <3> QED
      BY <1>2, <2>1, <3>1 DEF Run, WorkInv, Sides
  <2>2. CASE ~Run
    <3>1. todo' = todo /\ (run' = "off" => run = "off")
      BY <2>2 DEF AddPair, Subscribed, RunReturns, Cancel, runner
    <3> QED
      BY <1>1, <1>2, <3>1 DEF WorkInv
  <2> QED
    BY <2>1, <2>2
<1> QED
  BY <1>2, <1>4, <1>5, QuietStep DEF UBInv

LEMMA StopStep ==
  ASSUME UBInv, NEW s \in Sides, Stop(s)
  PROVE  UBInv'
<1>1. UBTypeOK /\ WorkInv
  BY DEF UBInv
<1>2. /\ stage[s] = "select" /\ stage' = [stage EXCEPT ![s] = "exit"]
      /\ UNCHANGED <<quotes, joined, next, channel, run, pairs, todo, state, views, hand, copy,
                     events, reported, lost, cancelled>>
  BY DEF Stop, Goto, stream, runner, merged, signals
<1>3. /\ stage \in [Sides -> Places]
      /\ \A r \in Sides : stage[r] = "apply" <=> hand[r] # 0
  BY <1>1 DEF UBTypeOK
<1>4. /\ stage' \in [Sides -> Places] /\ stage'[s] = "exit"
      /\ \A r \in Sides \ {s} : stage'[r] = stage[r]
  BY <1>2, <1>3
<1>5. \A r \in Sides : stage'[r] = "apply" <=> hand[r] # 0
  BY <1>2, <1>3, <1>4
<1>6. UBTypeOK'
  BY <1>1, <1>2, <1>4, <1>5 DEF UBTypeOK, Known
<1>7. WorkInv'
  BY <1>1, <1>2, <1>3, WorkStep
<1> QED
  BY <1>2, <1>4, <1>6, <1>7, QuietStep DEF UBInv

(* The reader takes the oldest signal; those that stay were real.          *)
LEMMA TakeEventStep ==
  ASSUME UBInv, TakeEvent
  PROVE  UBInv'
<1>1. UBTypeOK /\ WorkInv /\ SignalsWereReal /\ CrossingReported
  BY DEF UBInv
<1>2. /\ events # << >> /\ events' = Tail(events)
      /\ UNCHANGED <<quotes, joined, next, channel, run, pairs, todo, state, views, stage, hand, copy,
                     reported, lost, cancelled>>
  BY DEF TakeEvent, stream, runner, merged, workers
<1>3. /\ events \in Seq([pair : Pairs, bidder : Exchanges, bid : Nat, ask : Nat])
      /\ Len(events) <= EventCap
  BY <1>1 DEF UBTypeOK
<1>4. /\ events' \in Seq([pair : Pairs, bidder : Exchanges, bid : Nat, ask : Nat])
      /\ Len(events') <= EventCap
      /\ \A i \in DOMAIN events' : i + 1 \in DOMAIN events /\ events'[i] = events[i + 1]
  <2>1. /\ events' \in Seq([pair : Pairs, bidder : Exchanges, bid : Nat, ask : Nat])
        /\ Len(events) \in Nat /\ Len(events') = Len(events) - 1
        /\ \A i \in DOMAIN events' : i + 1 \in DOMAIN events /\ events'[i] = events[i + 1]
    BY <1>2, <1>3, TailOf
  <2> QED
    BY <1>3, <2>1, LimitAssumption
<1>5. UBTypeOK'
  BY <1>1, <1>2, <1>4 DEF UBTypeOK, Known
<1>6. WorkInv'
  BY <1>1, <1>2 DEF WorkInv
<1>7. SignalsWereReal'
  BY <1>1, <1>2, <1>4, Forms, FormsNext
<1>8. CrossingReported'
  BY <1>1, <1>2, Forms, FormsNext
<1> QED
  BY <1>5, <1>6, <1>7, <1>8 DEF UBInv

(* A new state joins the history of its pair, and the goroutine that made  *)
(* it has both its directions to check.                                    *)
LEMMA ApplyStep ==
  ASSUME UBInv, NEW s \in Sides, Apply(s)
  PROVE  UBInv'
<1> DEFINE p == s[1]
           new == [state[p] EXCEPT ![s[2]] = hand[s]]
<1>1. UBTypeOK /\ WorkInv /\ SignalsWereReal /\ CrossingReported
  BY DEF UBInv
<1>2. /\ stage[s] = "apply" /\ stage' = [stage EXCEPT ![s] = "check poly bid"]
      /\ state' = [state EXCEPT ![p] = new] /\ views' = [views EXCEPT ![p] = @ \cup {new}]
      /\ copy' = [copy EXCEPT ![s] = new] /\ hand' = [hand EXCEPT ![s] = 0]
      /\ UNCHANGED <<quotes, joined, next, channel, run, pairs, todo, events, reported, lost, cancelled>>
  BY DEF Apply, Goto, stream, runner, signals
<1>3. p \in Pairs /\ s[2] \in Exchanges /\ s = <<p, s[2]>>
  BY DEF Sides
<1>4. /\ stage \in [Sides -> Places] /\ hand \in [Sides -> Nat] /\ copy \in [Sides -> View]
      /\ \A r \in Sides : stage[r] = "apply" <=> hand[r] # 0
      /\ state \in [Pairs -> View] /\ views \in [Pairs -> SUBSET View]
  BY <1>1 DEF UBTypeOK
<1>5. /\ \A r \in Sides : hand[r] <= Len(quotes[MarketOf[r]]) /\ copy[r] \in Known(r[1])
      /\ \A q \in Pairs : state[q] \in Known(q) /\ views[q] \subseteq Known(q)
  BY <1>1 DEF UBTypeOK
<1>6. new \in View /\ new \in Known(p)
  <2>1. state[p] \in View /\ \A x \in Exchanges : state[p][x] \in 0 .. Len(quotes[MarketOf[<<p, x>>]])
    BY <1>3, <1>5 DEF Known
  <2>2. hand[s] \in Nat /\ hand[s] <= Len(quotes[MarketOf[<<p, s[2]>>]])
    BY <1>3, <1>4, <1>5
  <2>3. Len(quotes[MarketOf[<<p, s[2]>>]]) \in Nat
    <3>1. quotes \in [Keys -> Seq(Books)] /\ MarketOf[<<p, s[2]>>] \in Keys
      BY <1>1, <1>3, Market DEF UBTypeOK
    <3> QED
      BY <3>1
  <2>4. new \in View
    BY <1>3, <2>1, <2>2 DEF View
  <2>5. \A x \in Exchanges : new[x] = IF x = s[2] THEN hand[s] ELSE state[p][x]
    BY <1>3, <2>1 DEF View
  <2>6. hand[s] \in 0 .. Len(quotes[MarketOf[<<p, s[2]>>]])
    BY <2>2, <2>3
  <2>7. \A x \in Exchanges : new[x] \in 0 .. Len(quotes[MarketOf[<<p, x>>]])
    BY <2>1, <2>5, <2>6
  <2> QED
    BY <2>4, <2>7 DEF Known
<1> HIDE DEF new
<1>7. /\ stage' \in [Sides -> Places] /\ hand' \in [Sides -> Nat] /\ copy' \in [Sides -> View]
      /\ state' \in [Pairs -> View] /\ views' \in [Pairs -> SUBSET View]
      /\ stage'[s] = "check poly bid" /\ hand'[s] = 0 /\ copy'[s] = new
      /\ state'[p] = new /\ views'[p] = views[p] \cup {new}
      /\ \A r \in Sides \ {s} : stage'[r] = stage[r] /\ hand'[r] = hand[r] /\ copy'[r] = copy[r]
      /\ \A q \in Pairs \ {p} : state'[q] = state[q] /\ views'[q] = views[q]
  <2>1. stage' \in [Sides -> Places] /\ stage'[s] = "check poly bid" /\ \A r \in Sides \ {s} : stage'[r] = stage[r]
    BY <1>2, <1>4
  <2>2. hand' \in [Sides -> Nat] /\ hand'[s] = 0 /\ \A r \in Sides \ {s} : hand'[r] = hand[r]
    BY <1>2, <1>4
  <2>3. copy' \in [Sides -> View] /\ copy'[s] = new /\ \A r \in Sides \ {s} : copy'[r] = copy[r]
    BY <1>2, <1>4, <1>6
  <2>4. state' \in [Pairs -> View] /\ state'[p] = new /\ \A q \in Pairs \ {p} : state'[q] = state[q]
    BY <1>2, <1>3, <1>4, <1>6
  <2>5. /\ views' \in [Pairs -> SUBSET View] /\ views'[p] = views[p] \cup {new}
        /\ \A q \in Pairs \ {p} : views'[q] = views[q]
    BY <1>2, <1>3, <1>4, <1>6
  <2> QED
    BY <2>1, <2>2, <2>3, <2>4, <2>5
<1>8. UBTypeOK'
  <2>1. \A r \in Sides : /\ hand'[r] <= Len(quotes[MarketOf[r]]) /\ copy'[r] \in Known(r[1])
                         /\ (stage'[r] = "apply" <=> hand'[r] # 0)
    <3> SUFFICES ASSUME NEW r \in Sides
                 PROVE  /\ hand'[r] <= Len(quotes[MarketOf[r]]) /\ copy'[r] \in Known(r[1])
                        /\ (stage'[r] = "apply" <=> hand'[r] # 0)
      OBVIOUS
    <3>1. CASE r = s
      <4>1. Len(quotes[MarketOf[s]]) \in Nat
        <5>1. quotes \in [Keys -> Seq(Books)] /\ MarketOf[s] \in Keys
          BY <1>1, MarketAssumption DEF UBTypeOK
        <5> QED
          BY <5>1
      <4>2. hand'[s] = 0 /\ stage'[s] = "check poly bid" /\ copy'[s] = new /\ new \in Known(s[1])
        BY <1>6, <1>7
      <4>3. hand'[s] <= Len(quotes[MarketOf[s]])
        <5>1. hand'[s] = 0
          BY <4>2
        <5> QED
          BY <4>1, <5>1
      <4>4. stage'[s] # "apply" /\ hand'[s] = 0 /\ copy'[s] \in Known(s[1])
        BY <4>2
      <4> QED
        BY ONLY <3>1, <4>3, <4>4, Zenon
    <3>2. CASE r # s
      <4>1. hand'[r] = hand[r] /\ stage'[r] = stage[r] /\ copy'[r] = copy[r]
        BY <1>7, <3>2
      <4>2. hand[r] <= Len(quotes[MarketOf[r]]) /\ copy[r] \in Known(r[1]) /\ (stage[r] = "apply" <=> hand[r] # 0)
        BY <1>4, <1>5
      <4> QED
        BY <4>1, <4>2
    <3> QED
      BY <3>1, <3>2
  <2>2. \A q \in Pairs : state'[q] \in Known(q) /\ views'[q] \subseteq Known(q)
    <3>1. state'[p] \in Known(p) /\ views'[p] \subseteq Known(p)
      BY <1>3, <1>5, <1>6, <1>7
    <3>2. \A q \in Pairs \ {p} : state'[q] \in Known(q) /\ views'[q] \subseteq Known(q)
      BY <1>5, <1>7
    <3> QED
      BY <3>1, <3>2
  <2> QED
    BY <1>1, <1>2, <1>7, <2>1, <2>2 DEF UBTypeOK, Known
<1>9. WorkInv'
  <2>1. \A q \in Pairs : views[q] \subseteq views'[q]
    BY <1>7
  <2>2. copy'[s] \in views'[s[1]]
    BY <1>7
  <2> QED
    BY <1>1, <1>2, <1>4, <1>7, <2>1, <2>2, WorkStep
<1>10. SignalsWereReal'
  <2> SUFFICES ASSUME NEW i \in DOMAIN events
               PROVE  \E v \in views'[events[i].pair] : Real(quotes, events[i], v)
    BY <1>2, FormsNext
  <2>1. PICK v \in views[events[i].pair] : Real(quotes, events[i], v)
    BY <1>1, Forms
  <2>2. events[i].pair \in Pairs
    <3>1. events \in Seq([pair : Pairs, bidder : Exchanges, bid : Nat, ask : Nat])
      BY <1>1 DEF UBTypeOK
    <3>2. events[i] \in [pair : Pairs, bidder : Exchanges, bid : Nat, ask : Nat]
      BY <3>1, ElementOf
    <3> QED
      BY <3>2
  <2> QED
    BY <1>7, <2>1, <2>2
<1>11. CrossingReported'
  <2>1. ASSUME NEW q \in Pairs, NEW v \in views[q], NEW x \in Exchanges, Crossed(quotes, q, x, v)
        PROVE  <<q, x, v>> \in reported \cup lost \/ Pending(stage', copy', q, x, v)
    <3>1. CASE Pending(stage, copy, q, x, v)
      <4>1. PICK r \in Sides : r[1] = q /\ copy[r] = v
              /\ (stage[r] = "check poly bid" \/ (stage[r] = "check kalshi bid" /\ x = "kalshi"))
        BY <3>1 DEF Pending
      <4>2. r # s
        BY <1>2, <4>1
      <4> QED
        BY <1>7, <4>1, <4>2 DEF Pending
    <3> QED
      BY <1>1, <2>1, <3>1, Forms
  <2>2. ASSUME NEW x \in Exchanges PROVE Pending(stage', copy', p, x, new)
    BY <1>7 DEF Pending
  <2>3. ASSUME NEW q \in Pairs, NEW v \in views'[q], NEW x \in Exchanges, Crossed(quotes, q, x, v)
        PROVE  <<q, x, v>> \in reported \cup lost \/ Pending(stage', copy', q, x, v)
    <3>1. CASE q = p
      <4>1. v \in views[p] \/ v = new
        BY <1>7, <3>1
      <4> QED
        BY <2>1, <2>2, <2>3, <3>1, <4>1
    <3>2. CASE q # p
      <4>1. v \in views[q]
        BY <1>7, <3>2
      <4> QED
        BY <2>1, <2>3, <4>1
    <3> QED
      BY <3>1, <3>2
  <2> QED
    BY <1>2, <2>3, FormsNext
<1> QED
  BY <1>8, <1>9, <1>10, <1>11 DEF UBInv

(* A check emits what it finds, and finds what is there.                   *)
LEMMA CheckStep ==
  ASSUME UBTypeOK, SignalsWereReal, NEW p \in Pairs, NEW x \in Exchanges, NEW v \in views[p],
         Check(p, x, v), UNCHANGED <<quotes, views>>
  PROVE  /\ events' \in Seq([pair : Pairs, bidder : Exchanges, bid : Nat, ask : Nat])
         /\ Len(events') <= EventCap /\ reported' \subseteq Signal /\ lost' \subseteq Signal
         /\ reported \subseteq reported' /\ lost \subseteq lost'
         /\ Crossed(quotes, p, x, v) => <<p, x, v>> \in reported' \cup lost'
         /\ SignalsWereReal'
<1> DEFINE bid == BestHigh(BookIn(quotes, p, x, v).bids)
           ask == BestLow(BookIn(quotes, p, Other(x), v).asks)
           e == [pair |-> p, bidder |-> x, bid |-> bid, ask |-> ask]
           E == [pair : Pairs, bidder : Exchanges, bid : Nat, ask : Nat]
<1>1. quotes \in History /\ v \in KnownIn(quotes, p) /\ v \in View
  BY DEF UBTypeOK, History, Known, KnownIn
<1>2. /\ bid \in Nat /\ ask \in Nat
      /\ Crossed(quotes, p, x, v) => ask > 0 /\ bid - ask > Threshold
      /\ ask > 0 /\ bid - ask > Threshold => Real(quotes, e, v)
  BY <1>1, CheckIsRight
<1>3. IF ask > 0 /\ bid - ask > Threshold THEN Emit(p, x, v, e) ELSE UNCHANGED <<events, reported, lost>>
  BY DEF Check, BookOf, BookIn, signals
<1>4. /\ events \in Seq(E) /\ Len(events) <= EventCap /\ reported \subseteq Signal /\ lost \subseteq Signal
  BY DEF UBTypeOK
<1>5. e \in E /\ e.pair = p /\ <<p, x, v>> \in Signal
  BY <1>1, <1>2 DEF Signal
<1> HIDE DEF bid, ask, e, E
<1>6. CASE ~(ask > 0 /\ bid - ask > Threshold)
  <2>1. UNCHANGED <<events, reported, lost>> /\ ~Crossed(quotes, p, x, v)
    BY <1>2, <1>3, <1>6
  <2> QED
    BY <1>4, <2>1, Forms, FormsNext DEF E
<1>7. CASE (ask > 0 /\ bid - ask > Threshold) /\ ~(Len(events) < EventCap)
  <2>1. UNCHANGED <<events, reported>> /\ lost' = lost \cup {<<p, x, v>>}
    BY <1>3, <1>7 DEF Emit
  <2> QED
    BY <1>4, <1>5, <2>1, Forms, FormsNext DEF E
<1>8. CASE (ask > 0 /\ bid - ask > Threshold) /\ Len(events) < EventCap
  <2>1. events' = Append(events, e) /\ reported' = reported \cup {<<p, x, v>>} /\ lost' = lost
    BY <1>3, <1>8 DEF Emit
  <2>2. /\ events' \in Seq(E) /\ Len(events') <= EventCap
        /\ \A i \in DOMAIN events' :
             events'[i] = e \/ (i \in DOMAIN events /\ events'[i] = events[i])
    BY <1>4, <1>5, <1>8, <2>1, LimitAssumption
  <2>3. \A i \in DOMAIN events' : \E w \in views[events'[i].pair] : Real(quotes, events'[i], w)
    BY <1>2, <1>5, <1>8, <2>2, Forms
  <2> QED
    BY <1>4, <1>5, <2>1, <2>2, <2>3, FormsNext DEF E
<1> QED
  BY <1>6, <1>7, <1>8

(* What is left to check of a view is still left to somebody, but for the  *)
(* direction that has just been checked.                                   *)
LEMMA CoverStep ==
  ASSUME UBTypeOK, SignalsWereReal, CrossingReported,
         NEW s \in Sides, NEW x \in Exchanges, copy[s] \in views[s[1]],
         Check(s[1], x, copy[s]), UNCHANGED <<quotes, views>>,
         \A r \in Sides \ {s} : stage'[r] = stage[r] /\ copy'[r] = copy[r],
         stage[s] = "check poly bid" =>
           x = "poly" /\ stage'[s] = "check kalshi bid" /\ copy'[s] = copy[s],
         stage[s] = "check kalshi bid" => x = "kalshi"
  PROVE  CrossingReported'
<1>1. s[1] \in Pairs
  BY DEF Sides
<1>2. /\ reported \subseteq reported' /\ lost \subseteq lost'
      /\ Crossed(quotes, s[1], x, copy[s]) => <<s[1], x, copy[s]>> \in reported' \cup lost'
  BY <1>1, CheckStep
<1>3. ASSUME NEW p \in Pairs, NEW v \in views[p], NEW y \in Exchanges, Crossed(quotes, p, y, v)
      PROVE  <<p, y, v>> \in reported' \cup lost' \/ Pending(stage', copy', p, y, v)
  <2>1. CASE <<p, y, v>> \in reported \cup lost
    BY <1>2, <2>1
  <2>2. CASE Pending(stage, copy, p, y, v)
    <3>1. PICK r \in Sides : r[1] = p /\ copy[r] = v
            /\ (stage[r] = "check poly bid" \/ (stage[r] = "check kalshi bid" /\ y = "kalshi"))
      BY <2>2 DEF Pending
    <3>2. CASE r # s
      BY <3>1, <3>2 DEF Pending
    <3>3. CASE r = s /\ y = x
      BY <1>2, <1>3, <3>1, <3>3
    <3>4. CASE r = s /\ y # x
      <4>1. stage[s] = "check poly bid" /\ y = "kalshi"
        BY <3>1, <3>4 DEF Exchanges
      <4> QED
        BY <3>1, <3>4, <4>1 DEF Pending
    <3> QED
      BY <3>2, <3>3, <3>4
  <2> QED
    BY <1>3, <2>1, <2>2, Forms
<1> QED
  BY <1>3, FormsNext

LEMMA CheckPolyBidStep ==
  ASSUME UBInv, NEW s \in Sides, CheckPolyBid(s)
  PROVE  UBInv'
<1>1. UBTypeOK /\ WorkInv /\ SignalsWereReal /\ CrossingReported
  BY DEF UBInv
<1>2. /\ stage[s] = "check poly bid" /\ stage' = [stage EXCEPT ![s] = "check kalshi bid"]
      /\ Check(s[1], "poly", copy[s])
      /\ UNCHANGED <<quotes, joined, next, channel, run, pairs, todo, state, views, hand, copy, cancelled>>
  BY DEF CheckPolyBid, Goto, stream, runner, merged
<1>3. s[1] \in Pairs /\ copy[s] \in views[s[1]] /\ "poly" \in Exchanges
  BY <1>1, <1>2 DEF WorkInv, Sides, Exchanges
<1>4. /\ stage \in [Sides -> Places]
      /\ \A r \in Sides : stage[r] = "apply" <=> hand[r] # 0
  BY <1>1 DEF UBTypeOK
<1>5. /\ stage' \in [Sides -> Places] /\ stage'[s] = "check kalshi bid"
      /\ \A r \in Sides \ {s} : stage'[r] = stage[r]
  BY <1>2, <1>4
<1>6. \A r \in Sides : stage'[r] = "apply" <=> hand[r] # 0
  BY <1>2, <1>4, <1>5
<1>7. /\ events' \in Seq([pair : Pairs, bidder : Exchanges, bid : Nat, ask : Nat])
      /\ Len(events') <= EventCap /\ reported' \subseteq Signal /\ lost' \subseteq Signal
      /\ SignalsWereReal'
  BY <1>1, <1>2, <1>3, CheckStep
<1>8. UBTypeOK'
  BY <1>1, <1>2, <1>5, <1>6, <1>7 DEF UBTypeOK, Known
<1>9. WorkInv'
  BY <1>1, <1>2, <1>3, <1>4, WorkStep
<1>10. CrossingReported'
  BY <1>1, <1>2, <1>3, <1>5, CoverStep
<1> QED
  BY <1>7, <1>8, <1>9, <1>10 DEF UBInv

LEMMA CheckKalshiBidStep ==
  ASSUME UBInv, NEW s \in Sides, CheckKalshiBid(s)
  PROVE  UBInv'
<1>1. UBTypeOK /\ WorkInv /\ SignalsWereReal /\ CrossingReported
  BY DEF UBInv
<1>2. /\ stage[s] = "check kalshi bid" /\ stage' = [stage EXCEPT ![s] = "select"]
      /\ Check(s[1], "kalshi", copy[s]) /\ copy' = [copy EXCEPT ![s] = Nothing]
      /\ UNCHANGED <<quotes, joined, next, channel, run, pairs, todo, state, views, hand, cancelled>>
  BY DEF CheckKalshiBid, Goto, stream, runner, merged
<1>3. s[1] \in Pairs /\ copy[s] \in views[s[1]] /\ "kalshi" \in Exchanges
  BY <1>1, <1>2 DEF WorkInv, Sides, Exchanges
<1>4. /\ stage \in [Sides -> Places] /\ copy \in [Sides -> View]
      /\ \A r \in Sides : stage[r] = "apply" <=> hand[r] # 0
  BY <1>1 DEF UBTypeOK
<1>5. \A p \in Pairs : Nothing \in View /\ Nothing \in Known(p)
  <2>1. ASSUME NEW p \in Pairs, NEW x \in Exchanges PROVE 0 \in 0 .. Len(quotes[MarketOf[<<p, x>>]])
    <3>1. quotes[MarketOf[<<p, x>>]] \in Seq(Books)
      BY <1>1, Market DEF UBTypeOK
    <3> QED
      BY <3>1
  <2> QED
    BY <2>1 DEF Nothing, View, Known
<1>6. /\ stage' \in [Sides -> Places] /\ stage'[s] = "select" /\ copy'[s] = Nothing
      /\ \A r \in Sides \ {s} : stage'[r] = stage[r] /\ copy'[r] = copy[r]
      /\ copy' \in [Sides -> View]
  BY <1>2, <1>3, <1>4, <1>5
<1>7. \A r \in Sides : stage'[r] = "apply" <=> hand[r] # 0
  BY <1>2, <1>4, <1>6
<1>8. \A r \in Sides : copy'[r] \in Known(r[1])
  <2>1. \A r \in Sides : copy[r] \in Known(r[1])
    BY <1>1 DEF UBTypeOK
  <2> QED
    BY <1>3, <1>5, <1>6, <2>1
<1>9. /\ events' \in Seq([pair : Pairs, bidder : Exchanges, bid : Nat, ask : Nat])
      /\ Len(events') <= EventCap /\ reported' \subseteq Signal /\ lost' \subseteq Signal
      /\ SignalsWereReal'
  BY <1>1, <1>2, <1>3, CheckStep
<1>10. UBTypeOK'
  BY <1>1, <1>2, <1>6, <1>7, <1>8, <1>9 DEF UBTypeOK, Known
<1>11. WorkInv'
  <2>1. \A r \in Sides \ {s} : copy'[r] = copy[r]
    BY <1>6
  <2> QED
    BY <1>1, <1>2, <1>4, <2>1, WorkStep
<1>12. CrossingReported'
  BY <1>1, <1>2, <1>3, <1>6, CoverStep
<1> QED
  BY <1>9, <1>10, <1>11, <1>12 DEF UBInv

-----------------------------------------------------------------------------
LEMMA UBInitially == Init => UBInv
<1> SUFFICES ASSUME Init PROVE UBInv
  OBVIOUS
<1>1. \A s \in Sides : MarketOf[s] \in Keys /\ s[1] \in Pairs
  BY MarketAssumption DEF Sides
<1>2. \A k \in Keys : quotes[k] = << >> /\ MaxUpdates[k] \in Nat
  BY LimitAssumption DEF Init
<1>3. \A p \in Pairs : Known(p) = {Nothing} /\ Nothing \in View
  <2> SUFFICES ASSUME NEW p \in Pairs PROVE Known(p) = {Nothing} /\ Nothing \in View
    OBVIOUS
  <2>1. \A x \in Exchanges : Len(quotes[MarketOf[<<p, x>>]]) = 0
    BY <1>2, Market
  <2>2. Nothing \in View
    BY DEF Nothing, View
  <2>3. ASSUME NEW v \in View, \A x \in Exchanges : v[x] \in 0 .. 0 PROVE v = Nothing
    BY <2>3 DEF Nothing, View
  <2>4. Known(p) = {v \in View : \A x \in Exchanges : v[x] \in 0 .. 0}
    BY <2>1 DEF Known
  <2> QED
    BY <2>2, <2>3, <2>4 DEF Nothing
<1>4. UBTypeOK
  <2>1. quotes \in [Keys -> Seq(Books)] /\ \A k \in Keys : Len(quotes[k]) <= MaxUpdates[k]
    BY <1>2 DEF Init
  <2>2. /\ channel \in [Sides -> Seq([key : Keys, n : Nat])]
        /\ \A s \in Sides : Len(channel[s]) <= SubCap
             /\ \A i \in DOMAIN channel[s] : channel[s][i].n \in 1 .. Len(quotes[MarketOf[s]])
    BY LimitAssumption DEF Init
  <2>3. /\ hand \in [Sides -> Nat] /\ copy \in [Sides -> View]
        /\ \A s \in Sides : copy[s] \in Known(s[1])
             /\ hand[s] <= Len(quotes[MarketOf[s]]) /\ (stage[s] = "apply" <=> hand[s] # 0)
    <3>1. \A s \in Sides : Len(quotes[MarketOf[s]]) = 0 /\ hand[s] = 0 /\ copy[s] = Nothing /\ stage[s] = "off"
      BY <1>1, <1>2 DEF Init
    <3>2. \A s \in Sides : copy[s] \in Known(s[1]) /\ Nothing \in View
      BY <1>1, <1>3, <3>1
    <3> QED
      BY <3>1, <3>2 DEF Init
  <2>4. /\ state \in [Pairs -> View] /\ views \in [Pairs -> SUBSET View]
        /\ \A p \in Pairs : state[p] \in Known(p) /\ views[p] \subseteq Known(p)
    BY <1>3 DEF Init
  <2>5. /\ events \in Seq([pair : Pairs, bidder : Exchanges, bid : Nat, ask : Nat])
        /\ Len(events) <= EventCap
    BY LimitAssumption DEF Init
  <2> QED
    BY <2>1, <2>2, <2>3, <2>4, <2>5 DEF Init, UBTypeOK
<1>5. WorkInv
  BY DEF Init, WorkInv, Sides
<1>6. SignalsWereReal
  BY Forms DEF Init
<1>7. CrossingReported
  <2>1. ASSUME NEW p \in Pairs, NEW v \in views[p], NEW x \in Exchanges PROVE ~Crossed(quotes, p, x, v)
    <3>1. v = Nothing
      BY <1>3, <2>1 DEF Init
    <3> QED
      BY <3>1 DEF Crossed, BookIn, Nothing
  <2> QED
    BY <2>1, Forms
<1> QED
  BY <1>4, <1>5, <1>6, <1>7 DEF UBInv

LEMMA UBStep == UBInv /\ [Next]_vars => UBInv'
<1> SUFFICES ASSUME UBInv, [Next]_vars PROVE UBInv'
  OBVIOUS
<1>1. CASE \E k \in Keys, b \in Books : Publish(k, b)
  BY <1>1, PublishStep
<1>2. CASE (\E p \in Pairs : AddPair(p)) \/ Run \/ Subscribed \/ RunReturns \/ Cancel
  BY <1>2, RunnerStep
<1>3. ASSUME NEW s \in Sides, Deliver(s) \/ Subscribe(s) \/ Work(s) \/ Stop(s)
      PROVE  UBInv'
  <2>1. CASE Deliver(s)
    BY <2>1, DeliverStep
  <2>2. CASE Subscribe(s)
    BY <2>2, SubscribeStep
  <2>3. CASE Receive(s)
    BY <2>3, ReceiveStep
  <2>4. CASE Apply(s)
    BY <2>4, ApplyStep
  <2>5. CASE CheckPolyBid(s)
    BY <2>5, CheckPolyBidStep
  <2>6. CASE CheckKalshiBid(s)
    BY <2>6, CheckKalshiBidStep
  <2>7. CASE Stop(s)
    BY <2>7, StopStep
  <2> QED
    BY <1>3, <2>1, <2>2, <2>3, <2>4, <2>5, <2>6, <2>7 DEF Work
<1>4. CASE TakeEvent
  BY <1>4, TakeEventStep
<1>5. CASE UNCHANGED vars
  <2>1. UBTypeOK /\ WorkInv
    BY DEF UBInv
  <2>2. UNCHANGED <<quotes, joined, next, channel, run, pairs, todo, state, views, stage, hand, copy,
                    events, reported, lost, cancelled>>
    BY <1>5 DEF vars, stream, runner, merged, workers, signals
  <2>3. UBTypeOK' /\ WorkInv'
    BY <2>1, <2>2 DEF UBTypeOK, Known, WorkInv
  <2> QED
    BY <2>2, <2>3, QuietStep DEF UBInv
<1> QED
  BY <1>1, <1>2, <1>3, <1>4, <1>5 DEF Next

(* The invariant: the types, the two promises about signals, and who is    *)
(* still to check what (unified_book.go:131-198).                          *)
THEOREM UBInvariant == Spec => []UBInv
BY UBInitially, UBStep, PTL DEF Spec

(* Every place holds books that its market really had, and a goroutine has *)
(* an update in hand exactly while it is about to apply it.                *)
THEOREM UBTypeCorrect == Spec => []UBTypeOK
<1>1. UBInv => UBTypeOK
  BY DEF UBInv
<1> QED
  BY <1>1, UBInvariant, PTL

(* However the two goroutines of a pair interleave, a signal quotes the    *)
(* best prices of one state the pair really had (unified_book.go:145-198). *)
THEOREM SignalsReal == Spec => []SignalsWereReal
<1>1. UBInv => SignalsWereReal
  BY DEF UBInv
<1> QED
  BY <1>1, UBInvariant, PTL

(* No crossing the pair ever showed, against a side with no ask of 0, is   *)
(* overlooked: it is emitted, lost to a full channel or still with the     *)
(* goroutine that took the copy (unified_book.go:164-206).                 *)
THEOREM CrossingsReported == Spec => []CrossingReported
<1>1. UBInv => CrossingReported
  BY DEF UBInv
<1> QED
  BY <1>1, UBInvariant, PTL
=============================================================================
