-------------------------- MODULE MarketFeedProofs --------------------------
(* Proofs about MarketFeed.                                                *)
EXTENDS MarketFeed, TLAPS

(* The books of the exchange only get longer, by books.                    *)
LEMMA HistoryGrows ==
  ASSUME FeedTypeOK, NEW t \in Tickers, NEW b \in Book,
         books' = [books EXCEPT ![t] = Append(@, b)]
  PROVE  /\ books' \in [Tickers -> Seq(Book)]
         /\ \A u \in Tickers : Len(books'[u]) \in Nat /\ Now(u) <= Len(books'[u])
         /\ \A u \in Tickers : \A n \in 1 .. Now(u) : n \in 1 .. Len(books'[u]) /\ books'[u][n] = books[u][n]
         /\ \A u \in Tickers \ {t} : Len(books'[u]) = Now(u)
         /\ Len(books'[t]) = Now(t) + 1 /\ books'[t][Now(t) + 1] = b
         /\ Now(t) \in Nat \ {0} /\ books[t][Now(t)] \in Book
<1>1. /\ books \in [Tickers -> Seq(Book)]
      /\ \A u \in Tickers : books[u] \in Seq(Book) /\ Len(books[u]) \in Nat \ {0}
  BY FeedBounds DEF FeedTypeOK, Now
<1>2. books'[t] = Append(books[t], b) /\ \A u \in Tickers \ {t} : books'[u] = books[u]
  BY <1>1
<1>3. books' \in [Tickers -> Seq(Book)]
  BY <1>1
<1>4. /\ Len(books'[t]) = Len(books[t]) + 1 /\ books'[t][Len(books[t]) + 1] = b
      /\ \A n \in 1 .. Len(books[t]) : books'[t][n] = books[t][n]
      /\ books[t][Len(books[t])] \in Book
  BY <1>1, <1>2
<1> QED
  BY <1>1, <1>2, <1>3, <1>4 DEF Now

(* What was true of a message stays true, for books do not change.         *)
LEMMA RealStaysReal ==
  ASSUME FeedTypeOK, NEW t \in Tickers, NEW b \in Book,
         books' = [books EXCEPT ![t] = Append(@, b)],
         NEW m \in Message, MessageReal(m)
  PROVE  MessageReal(m)'
<1>1. CASE m.kind = "book"
  <2>1. m.t \in Tickers /\ m.n \in 1 .. Now(m.t) /\ m.kind # "delta"
    BY <1>1 DEF Message, Other, MessageReal
  <2> QED
    BY <2>1, <1>1, HistoryGrows DEF MessageReal, Now
<1>2. CASE m.kind = "delta"
  <2>1. m.t \in Tickers /\ m.n \in 2 .. Now(m.t) /\ m.kind # "book"
    BY <1>2 DEF Message, Other, MessageReal
  <2>2. Now(m.t) \in Nat
    BY <2>1, FeedBounds DEF FeedTypeOK
  <2>3. m.n \in 1 .. Now(m.t) /\ m.n - 1 \in 1 .. Now(m.t)
    BY <2>1, <2>2
  <2>4. /\ Len(books'[m.t]) \in Nat /\ Now(m.t) <= Len(books'[m.t])
        /\ books'[m.t][m.n] = books[m.t][m.n] /\ books'[m.t][m.n - 1] = books[m.t][m.n - 1]
    BY <2>1, <2>3, HistoryGrows
  <2>5. m.n \in 2 .. Len(books'[m.t])
    BY <2>1, <2>2, <2>4
  <2> QED
    BY <2>1, <2>4, <2>5, <1>2 DEF MessageReal, Now
<1>3. CASE m.kind \notin {"book", "delta"}
  BY <1>3 DEF MessageReal
<1> QED
  BY <1>1, <1>2, <1>3

RawReal == \A i \in DOMAIN raw : MessageReal(raw[i])

LEMMA RawRealNext ==
  ASSUME \A i \in DOMAIN raw' : \E x \in Message : x = raw'[i] /\ MessageReal(x)'
  PROVE  RawReal'
<1> SUFFICES ASSUME NEW i \in DOMAIN raw' PROVE MessageReal(raw[i])'
  BY DEF RawReal
<1>1. PICK x \in Message : x = raw'[i] /\ MessageReal(x)'
  OBVIOUS
<1> QED
  BY <1>1 DEF MessageReal, Now

(* The fan-out adds at most the message it is given.                       *)
LEMMA FanOutTypes ==
  ASSUME raw \in Seq(Message), Len(raw) <= RawCap, missed \subseteq Tickers, NEW m \in Message, FanOut(m)
  PROVE  /\ raw' \in Seq(Message) /\ Len(raw') <= RawCap
         /\ missed' \subseteq Tickers
         /\ \A i \in DOMAIN raw' : raw'[i] = m \/ (i \in DOMAIN raw /\ raw'[i] = raw[i])
<1>1. raw' \in Seq(Message) /\ Len(raw') <= RawCap
  BY FeedCapacity DEF FanOut
<1>2. m # Other => m.t \in Tickers
  BY DEF Message
<1>3. missed' \subseteq Tickers
  BY <1>2 DEF FanOut
<1>4. \A i \in DOMAIN raw' : raw'[i] = m \/ (i \in DOMAIN raw /\ raw'[i] = raw[i])
  BY DEF FanOut
<1> QED
  BY <1>1, <1>3, <1>4

(* Emitting adds at most the given book.                                   *)
LEMMA EmitTypes ==
  ASSUME updates \in Seq(Update), Len(updates) <= UpdatesCap, dropped \subseteq Tickers,
         NEW t \in Tickers, NEW b \in Book, NEW n \in Nat \cup {Gap}, EmitUpdate(t, b, n)
  PROVE  /\ updates' \in Seq(Update) /\ Len(updates') <= UpdatesCap
         /\ dropped' \subseteq Tickers
         /\ \A i \in DOMAIN updates' :
              \/ updates'[i] = [t |-> t, book |-> b, n |-> n]
              \/ i \in DOMAIN updates /\ updates'[i] = updates[i]
<1> DEFINE u == [t |-> t, book |-> b, n |-> n]
<1>1. u \in Update
  BY DEF Update
<1>2. CASE Len(updates) < UpdatesCap
  <2>1. updates' = Append(updates, u) /\ dropped' = dropped \ {t}
    BY <1>2 DEF EmitUpdate
  <2> HIDE DEF u
  <2>2. updates' \in Seq(Update) /\ Len(updates') = Len(updates) + 1
    BY <2>1, <1>1
  <2>3. \A i \in DOMAIN updates' : updates'[i] = u \/ (i \in DOMAIN updates /\ updates'[i] = updates[i])
    BY <2>1, <1>1
  <2>4. Len(updates') <= UpdatesCap
    BY <2>2, <1>2, FeedCapacity
  <2> QED
    BY <2>1, <2>2, <2>3, <2>4 DEF u
<1>3. CASE ~(Len(updates) < UpdatesCap)
  BY <1>3 DEF EmitUpdate
<1> QED
  BY <1>2, <1>3

-----------------------------------------------------------------------------
(* Actions that leave the books, the channel of messages and the adapter   *)
(* alone disturb nothing but what they assign.                             *)
LEMMA QuietStep ==
  ASSUME FIInv, UNCHANGED <<books, raw, local, at, updates>>
  PROVE  BookIsExact' /\ RawReal'
BY DEF FIInv, BookIsExact, Exact, RawReal, MessageReal, Now

(* The steps of the exchange and of the client.                            *)
LEMMA ClientStep ==
  ASSUME FIInv,
         (\E t \in Tickers : Subscribe(t)) \/ WriteFails \/ ConnectionLost \/ Reconnected
           \/ RunStarts \/ RunStops
  PROVE  FIInv'
<1>1. UNCHANGED <<books, raw, local, at, updates>> => BookIsExact' /\ RawReal'
  BY QuietStep
<1>2. CASE \E t \in Tickers : Subscribe(t)
  <2> PICK t \in Tickers : Subscribe(t)
    BY <1>2
  <2>1. outbox' \in Seq(Tickers) /\ Len(outbox') <= OutCap /\ commands' \in 0 .. MaxCommands
    BY FeedCapacity, FeedBounds DEF Subscribe, FIInv, FeedTypeOK
  <2> QED
    BY <2>1, <1>1 DEF Subscribe, exchange, adapter, FIInv, FeedTypeOK, Now, RawReal
<1>3. CASE WriteFails
  <2>1. outbox' \in Seq(Tickers) /\ Len(outbox') <= OutCap
    BY <1>3, FeedCapacity DEF WriteFails, FIInv, FeedTypeOK
  <2> QED
    BY <1>3, <2>1, <1>1 DEF WriteFails, exchange, adapter, FIInv, FeedTypeOK, Now, RawReal
<1>4. CASE ConnectionLost
  <2>1. conn' \in 0 .. 2 * MaxLosses
    BY <1>4, FeedBounds DEF ConnectionLost, FIInv, FeedTypeOK
  <2> QED
    BY <1>4, <2>1, <1>1 DEF ConnectionLost, client, adapter, FIInv, FeedTypeOK, Now, RawReal
<1>5. CASE Reconnected
  <2>1. conn \in 0 .. 2 * MaxLosses /\ conn % 2 # 0 /\ conn' = conn + 1
    BY <1>5 DEF Reconnected, Up, FIInv, FeedTypeOK
  <2>2. conn # 2 * MaxLosses
    BY <2>1, FeedBounds
  <2>3. conn' \in 0 .. 2 * MaxLosses
    BY <2>1, <2>2, FeedBounds
  <2> QED
    BY <1>5, <2>3, <1>1 DEF Reconnected, client, adapter, FIInv, FeedTypeOK, Now, RawReal
<1>6. CASE RunStarts
  BY <1>6, <1>1 DEF RunStarts, exchange, client, adapter, FIInv, FeedTypeOK, Now, RawReal
<1>7. CASE RunStops
  BY <1>7, <1>1 DEF RunStops, exchange, client, adapter, FIInv, FeedTypeOK, Now, RawReal
<1> QED
  BY <1>2, <1>3, <1>4, <1>5, <1>6, <1>7

LEMMA WriteStep ==
  ASSUME FIInv, Write
  PROVE  FIInv'
<1> DEFINE t == Head(outbox)
<1>1. t \in Tickers /\ outbox' \in Seq(Tickers) /\ Len(outbox') <= OutCap /\ subs' \subseteq Tickers
  <2>1. outbox \in Seq(Tickers) /\ Len(outbox) <= OutCap /\ subs \subseteq Tickers
    BY DEF FIInv, FeedTypeOK
  <2>2. outbox # << >> /\ outbox' = Tail(outbox) /\ subs' = subs \cup {t}
    BY DEF Write
  <2>3. /\ t \in Tickers /\ outbox' \in Seq(Tickers)
        /\ Len(outbox) \in Nat /\ Len(outbox') = Len(outbox) - 1
    BY <2>1, <2>2
  <2> QED
    BY <2>1, <2>2, <2>3, FeedCapacity
<1>2. UNCHANGED <<venue, books, conn, commands, running, local, updates, at, dropped, seen>>
  BY DEF Write, adapter
<1>3. Now(t) \in Nat \ {0} /\ books[t] \in Seq(Book) /\ books[t][Now(t)] \in Book
  BY <1>1, FeedBounds DEF FIInv, FeedTypeOK, Now
<1>4. Snapshot(t) \in Message /\ MessageReal(Snapshot(t))
  BY <1>1, <1>3 DEF Snapshot, Message, MessageReal
<1>5. Other \in Message /\ MessageReal(Other)
  BY DEF Other, Message, MessageReal
<1>6. PICK m \in Message : FanOut(m) /\ MessageReal(m)
  BY <1>4, <1>5 DEF Write
<1>7. /\ raw' \in Seq(Message) /\ Len(raw') <= RawCap /\ missed' \subseteq Tickers
      /\ \A i \in DOMAIN raw' : raw'[i] = m \/ (i \in DOMAIN raw /\ raw'[i] = raw[i])
  BY <1>6, FanOutTypes DEF FIInv, FeedTypeOK
<1>8. \A i \in DOMAIN raw' : MessageReal(raw'[i])
  BY <1>6, <1>7 DEF FIInv
<1>9. RawReal'
  BY <1>2, <1>8 DEF RawReal, MessageReal, Now
<1>10. sent' = sent \/ sent' = [sent EXCEPT ![t] = Now(t)]
  BY DEF Write
<1>11. sent' \in [Tickers -> Nat] /\ \A u \in Tickers : sent'[u] \in 1 .. Now(u)
  <2> HIDE DEF t
  <2>1. sent \in [Tickers -> Nat] /\ \A u \in Tickers : sent[u] \in 1 .. Now(u)
    BY DEF FIInv, FeedTypeOK
  <2>2. Now(t) \in 1 .. Now(t)
    BY <1>3
  <2> QED
    BY <1>1, <1>3, <1>10, <2>1, <2>2
<1>12. FeedTypeOK'
  BY <1>1, <1>2, <1>7, <1>11 DEF FIInv, FeedTypeOK, Now
<1>13. BookIsExact'
  BY <1>2 DEF FIInv, BookIsExact, Exact, Now
<1> QED
  BY <1>9, <1>12, <1>13 DEF FIInv, RawReal

LEMMA ChangeStep ==
  ASSUME FIInv, NEW t \in Tickers, NEW l \in Levels, NEW d \in Deltas, Change(t, l, d)
  PROVE  FIInv'
<1> DEFINE b == [books[t][Now(t)] EXCEPT ![l] = @ + d]
<1>1. FeedTypeOK /\ BookIsExact /\ RawReal
  BY DEF FIInv, RawReal
<1>2. Now(t) \in Nat \ {0} /\ books[t][Now(t)] \in Book /\ Now(t) + 1 <= MaxChanges[t] + 1
  BY <1>1, FeedBounds DEF FeedTypeOK, Now, Change
<1>3. b[l] \in 0 .. MaxQty
  BY DEF Change
<1>4. b[l] \in Nat
  BY <1>3, DeltaAssumption
<1>5. b \in Book
  BY <1>2, <1>4 DEF Book
<1>6. books' = [books EXCEPT ![t] = Append(@, b)]
  BY DEF Change
<1>7. UNCHANGED <<venue, subs, conn, commands, outbox, running, local, updates, at, dropped, seen>>
  BY DEF Change, client, adapter
<1> HIDE DEF b
<1>8. /\ books' \in [Tickers -> Seq(Book)]
      /\ \A u \in Tickers : Len(books'[u]) \in Nat /\ Now(u) <= Len(books'[u])
      /\ \A u \in Tickers : \A n \in 1 .. Now(u) : n \in 1 .. Len(books'[u]) /\ books'[u][n] = books[u][n]
      /\ \A u \in Tickers \ {t} : Len(books'[u]) = Now(u)
      /\ Len(books'[t]) = Now(t) + 1 /\ books'[t][Now(t) + 1] = b
  BY <1>1, <1>5, <1>6, HistoryGrows
<1>9. \A m \in Message : MessageReal(m) => MessageReal(m)'
  BY <1>1, <1>5, <1>6, RealStaysReal
<1>10. /\ \A i \in DOMAIN raw : raw[i] \in Message /\ MessageReal(raw[i])
       /\ \A u \in Tickers : sent[u] \in 1 .. Now(u) /\ sent[u] \in Nat
  BY <1>1 DEF RawReal, FeedTypeOK
<1>11. \A u \in Tickers : Len(books'[u]) \in 1 .. MaxChanges[u] + 1 /\ sent[u] \in 1 .. Len(books'[u])
  <2>1. \A u \in Tickers : Now(u) \in 1 .. MaxChanges[u] + 1 /\ MaxChanges[u] \in Nat
    BY <1>1, FeedBounds DEF FeedTypeOK
  <2>2. ASSUME NEW u \in Tickers PROVE Len(books'[u]) <= MaxChanges[u] + 1
    BY <2>1, <1>2, <1>8
  <2> QED
    BY <2>1, <2>2, <1>8, <1>10
<1>12. ASSUME raw' \in Seq(Message), Len(raw') <= RawCap, missed' \subseteq Tickers,
              sent' \in [Tickers -> Nat], \A u \in Tickers : sent'[u] \in 1 .. Len(books'[u])
       PROVE  FeedTypeOK'
  BY <1>1, <1>7, <1>8, <1>11, <1>12 DEF FeedTypeOK, Now
<1>13. ASSUME t \notin subs PROVE FeedTypeOK' /\ RawReal'
  <2>1. UNCHANGED <<raw, missed, sent>>
    BY <1>13 DEF Change
  <2>2. FeedTypeOK'
    BY <1>1, <1>11, <1>12, <2>1 DEF FeedTypeOK
  <2>3. \A i \in DOMAIN raw' : \E x \in Message : x = raw'[i] /\ MessageReal(x)'
    BY <1>9, <1>10, <2>1
  <2> QED
    BY <2>2, <2>3, RawRealNext
<1>14. ASSUME t \in subs PROVE FeedTypeOK' /\ RawReal'
  <2>1. PICK m \in Reports(t, l, d, b) :
          FanOut(m) /\ sent' = IF m = Other THEN sent ELSE [sent EXCEPT ![t] = Now(t) + 1]
    BY <1>14 DEF Change, b
  <2>2. \/ m = [kind |-> "delta", t |-> t, n |-> Now(t) + 1, level |-> l, d |-> d]
        \/ m = [kind |-> "book", t |-> t, n |-> Now(t) + 1, book |-> b]
        \/ m = Other
    BY <2>1 DEF Reports
  <2>3. m \in Message /\ MessageReal(m)'
    <3>1. CASE m = [kind |-> "delta", t |-> t, n |-> Now(t) + 1, level |-> l, d |-> d]
      <4>1. m \in Message
        BY <3>1, <1>2 DEF Message
      <4>2. m.kind = "delta" /\ m.t = t /\ m.n = Now(t) + 1 /\ m.level = l /\ m.d = d
        BY <3>1
      <4>3. m.n \in 2 .. Len(books'[t]) /\ m.n - 1 = Now(t) /\ Now(t) \in 1 .. Now(t)
        BY <4>2, <1>2, <1>8
      <4>4. books'[t][m.n - 1] = books[t][Now(t)] /\ books'[t][m.n] = b
        BY <4>2, <4>3, <1>8
      <4>5. books'[t][m.n] = [books'[t][m.n - 1] EXCEPT ![l] = @ + d]
        BY <4>4 DEF b
      <4> QED
        BY <4>1, <4>2, <4>3, <4>5 DEF MessageReal, Now
    <3>2. CASE m = [kind |-> "book", t |-> t, n |-> Now(t) + 1, book |-> b]
      <4>1. m \in Message
        BY <3>2, <1>2, <1>5 DEF Message
      <4>2. /\ m.kind = "book" /\ m.t = t /\ m.n = Now(t) + 1 /\ m.book = b
            /\ m.n \in 1 .. Len(books'[t])
        BY <3>2, <1>2, <1>8
      <4> QED
        BY <4>1, <4>2, <1>8 DEF MessageReal, Now
    <3>3. CASE m = Other
      BY <3>3 DEF Other, Message, MessageReal
    <3> QED
      BY <2>2, <3>1, <3>2, <3>3
  <2>4. /\ raw' \in Seq(Message) /\ Len(raw') <= RawCap /\ missed' \subseteq Tickers
        /\ \A i \in DOMAIN raw' : raw'[i] = m \/ (i \in DOMAIN raw /\ raw'[i] = raw[i])
    BY <1>1, <2>1, <2>3, FanOutTypes DEF FeedTypeOK
  <2>5. \A i \in DOMAIN raw' : \E x \in Message : x = raw'[i] /\ MessageReal(x)'
    BY <1>9, <1>10, <2>3, <2>4
  <2>6. sent' \in [Tickers -> Nat] /\ \A u \in Tickers : sent'[u] \in 1 .. Len(books'[u])
    <3>1. sent' = sent \/ sent' = [sent EXCEPT ![t] = Now(t) + 1]
      BY <2>1
    <3>2. sent \in [Tickers -> Nat] /\ Now(t) + 1 \in 1 .. Len(books'[t]) /\ Now(t) + 1 \in Nat
      BY <1>1, <1>2, <1>8 DEF FeedTypeOK
    <3> QED
      BY <1>11, <3>1, <3>2
  <2>7. FeedTypeOK'
    BY <1>12, <2>4, <2>6
  <2> QED
    BY <2>5, <2>7, RawRealNext
<1>15. BookIsExact'
  <2>1. \A u \in Tickers : Exact(u, local[u], at[u])
    BY <1>1 DEF BookIsExact
  <2>2. \A i \in DOMAIN updates :
          updates[i] \in Update /\ Exact(updates[i].t, updates[i].book, updates[i].n)
    BY <1>1 DEF BookIsExact, FeedTypeOK
  <2>3. ASSUME NEW u \in Tickers, NEW c, NEW n, Exact(u, c, n) PROVE Exact(u, c, n)'
    BY <1>8, <2>3 DEF Exact, Now
  <2>4. ASSUME NEW u \in Tickers PROVE Exact(u, local[u], at[u])'
    BY <2>1, <1>8, <1>7 DEF Exact, Now
  <2>5. ASSUME NEW i \in DOMAIN updates
        PROVE  Exact(updates[i].t, updates[i].book, updates[i].n)'
    <3>1. updates[i].t \in Tickers
      BY <2>2 DEF Update
    <3> QED
      BY <3>1, <2>2, <1>8, <1>7 DEF Exact, Now
  <2> QED
    BY <2>4, <2>5, <1>7 DEF BookIsExact
<1> QED
  BY <1>13, <1>14, <1>15 DEF FIInv, RawReal

LEMMA TakeStep ==
  ASSUME FIInv, Take
  PROVE  FIInv'
<1> DEFINE u == Head(updates)
<1>1. FeedTypeOK /\ BookIsExact /\ RawReal
  BY DEF FIInv, RawReal
<1>2. UNCHANGED <<venue, books, subs, conn, sent, commands, outbox, raw, missed, running, local, at, dropped>>
  BY DEF Take, exchange, client
<1>3. updates \in Seq(Update) /\ updates # << >> /\ updates' = Tail(updates)
  BY <1>1 DEF Take, FeedTypeOK
<1>4. /\ u \in Update /\ updates' \in Seq(Update) /\ Len(updates') <= UpdatesCap
      /\ \A i \in DOMAIN updates' : i + 1 \in DOMAIN updates /\ updates'[i] = updates[i + 1]
  BY <1>1, <1>3, FeedCapacity DEF FeedTypeOK
<1>5. seen' \in [Tickers -> Book \cup {NoBook}]
  BY <1>1, <1>4 DEF Take, FeedTypeOK, Update
<1>6. FeedTypeOK'
  BY <1>1, <1>2, <1>4, <1>5 DEF FeedTypeOK, Now
<1>7. BookIsExact'
  BY <1>1, <1>2, <1>4 DEF BookIsExact, Exact, Now
<1>8. RawReal'
  BY <1>1, <1>2 DEF RawReal, MessageReal, Now
<1> QED
  BY <1>6, <1>7, <1>8 DEF FIInv, RawReal

(* What the adapter emits is exact if it says so, and so are the others.   *)
LEMMA EmitExact ==
  ASSUME FIInv, UNCHANGED books,
         NEW t \in Tickers, NEW b \in Book, NEW n \in Nat \cup {Gap}, EmitUpdate(t, b, n),
         Exact(t, b, n)
  PROVE  /\ updates' \in Seq(Update) /\ Len(updates') <= UpdatesCap /\ dropped' \subseteq Tickers
         /\ \A i \in DOMAIN updates' : Exact(updates'[i].t, updates'[i].book, updates'[i].n)
<1>1. /\ updates' \in Seq(Update) /\ Len(updates') <= UpdatesCap /\ dropped' \subseteq Tickers
      /\ \A i \in DOMAIN updates' :
           \/ updates'[i] = [t |-> t, book |-> b, n |-> n]
           \/ i \in DOMAIN updates /\ updates'[i] = updates[i]
  BY EmitTypes DEF FIInv, FeedTypeOK
<1>2. \A i \in DOMAIN updates : Exact(updates[i].t, updates[i].book, updates[i].n)
  BY DEF FIInv, BookIsExact
<1>3. ASSUME NEW i \in DOMAIN updates'
      PROVE  Exact(updates'[i].t, updates'[i].book, updates'[i].n)
  <2>1. CASE updates'[i] = [t |-> t, book |-> b, n |-> n]
    BY <2>1
  <2>2. CASE i \in DOMAIN updates /\ updates'[i] = updates[i]
    BY <2>2, <1>2
  <2> QED
    BY <1>1, <2>1, <2>2
<1> QED
  BY <1>1, <1>3

(* A delta on the book before it gives the exchange's book, whose          *)
(* quantities are not negative.                                            *)
LEMMA DeltaExact ==
  ASSUME NEW c \in Book, NEW e \in Book, NEW l \in Levels, NEW d \in Int,
         e = [c EXCEPT ![l] = @ + d]
  PROVE  e = [c EXCEPT ![l] = NewQty(@, d)]
<1>1. c[l] \in Nat /\ e[l] \in Nat /\ e[l] = c[l] + d
  BY DEF Book
<1>2. NewQty(c[l], d) = c[l] + d
  BY <1>1 DEF NewQty
<1> QED
  BY <1>2

LEMMA HandleStep ==
  ASSUME FIInv, HandleMessage
  PROVE  FIInv'
<1> DEFINE m == Head(raw)
<1>1. FeedTypeOK /\ BookIsExact /\ RawReal
  BY DEF FIInv, RawReal
<1>2. UNCHANGED <<venue, books, subs, conn, sent, commands, outbox, missed, running, seen>>
  BY DEF HandleMessage, exchange, client
<1>3. raw \in Seq(Message) /\ raw # << >> /\ raw' = Tail(raw)
  BY <1>1 DEF HandleMessage, FeedTypeOK
<1>4. /\ m \in Message /\ MessageReal(m) /\ raw' \in Seq(Message) /\ Len(raw') <= RawCap
      /\ \A i \in DOMAIN raw' : i + 1 \in DOMAIN raw /\ raw'[i] = raw[i + 1]
  BY <1>1, <1>3, FeedCapacity DEF FeedTypeOK, RawReal
<1>5. RawReal'
  <2>1. \A i \in DOMAIN raw' : MessageReal(raw'[i])
    BY <1>1, <1>4 DEF RawReal
  <2> QED
    BY <1>2, <2>1 DEF RawReal, MessageReal, Now
<1> HIDE DEF m
<1>6. /\ \A t \in Tickers : Exact(t, local[t], at[t])
      /\ local \in [Tickers -> Book \cup {NoBook}] /\ at \in [Tickers -> Nat \cup {Gap}]
      /\ \A t \in Tickers : books[t] \in Seq(Book)
  BY <1>1 DEF BookIsExact, FeedTypeOK
<1>7. ASSUME NEW t \in Tickers, NEW b \in Book, NEW n \in Nat \cup {Gap}, Exact(t, b, n),
             EmitUpdate(t, b, n),
             \/ local' = [local EXCEPT ![t] = b] /\ at' = [at EXCEPT ![t] = n]
             \/ UNCHANGED <<local, at>>
      PROVE  FeedTypeOK' /\ BookIsExact'
  <2>1. /\ updates' \in Seq(Update) /\ Len(updates') <= UpdatesCap /\ dropped' \subseteq Tickers
        /\ \A i \in DOMAIN updates' : Exact(updates'[i].t, updates'[i].book, updates'[i].n)
    BY <1>2, <1>7, EmitExact
  <2>2. local' \in [Tickers -> Book \cup {NoBook}] /\ at' \in [Tickers -> Nat \cup {Gap}]
    BY <1>6, <1>7
  <2>3. \A u \in Tickers : Exact(u, local'[u], at'[u])
    BY <1>6, <1>7
  <2>4. FeedTypeOK'
    BY <1>1, <1>2, <1>4, <2>1, <2>2 DEF FeedTypeOK, Now
  <2>5. BookIsExact'
    BY <1>2, <2>1, <2>3 DEF BookIsExact, Exact, Now
  <2> QED
    BY <2>4, <2>5
<1>8. CASE UNCHANGED adapter
  <2>1. FeedTypeOK'
    BY <1>1, <1>2, <1>4, <1>8 DEF FeedTypeOK, Now, adapter
  <2>2. BookIsExact'
    BY <1>1, <1>2, <1>8 DEF BookIsExact, Exact, Now, adapter
  <2> QED
    BY <1>5, <2>1, <2>2 DEF FIInv, RawReal
<1>9. CASE m.kind = "book" /\ (HandleSnapshot(m) \/ HandleBook(m))
  <2>1. m.t \in Tickers /\ m.n \in Nat /\ m.book \in Book /\ Exact(m.t, m.book, m.n)
    BY <1>4, <1>9 DEF Message, Other, MessageReal, Exact
  <2>2. FeedTypeOK' /\ BookIsExact'
    BY <1>7, <1>9, <2>1 DEF HandleSnapshot, HandleBook
  <2> QED
    BY <1>5, <2>2 DEF FIInv, RawReal
<1>10. CASE m.kind = "delta" /\ HandleDelta(m) /\ local[m.t] # NoBook
  <2> DEFINE b == [local[m.t] EXCEPT ![m.level] = NewQty(@, m.d)]
             n == IF at[m.t] # Gap /\ m.n = at[m.t] + 1 THEN m.n ELSE Gap
  <2>1. /\ m.t \in Tickers /\ m.n \in Nat /\ m.level \in Levels /\ m.d \in Int
        /\ m.n \in 2 .. Now(m.t)
        /\ books[m.t][m.n] = [books[m.t][m.n - 1] EXCEPT ![m.level] = @ + m.d]
    <3>1. m \in [kind : {"delta"}, t : Tickers, n : Nat, level : Levels, d : Deltas]
      BY <1>4, <1>10 DEF Message, Other
    <3> QED
      BY <1>4, <1>10, <3>1, DeltaAssumption DEF MessageReal
  <2>2. local[m.t] \in Book
    BY <1>6, <1>10, <2>1
  <2>3. b \in Book
    <3>1. local[m.t][m.level] \in Nat
      BY <2>1, <2>2 DEF Book
    <3>2. NewQty(local[m.t][m.level], m.d) \in Nat
      BY <3>1, <2>1 DEF NewQty
    <3> QED
      BY <2>2, <3>2 DEF Book
  <2>4. Exact(m.t, b, n)
    <3>1. SUFFICES ASSUME at[m.t] # Gap, m.n = at[m.t] + 1 PROVE Exact(m.t, b, m.n)
      BY DEF Exact
    <3>2. at[m.t] \in Nat /\ m.n - 1 = at[m.t] /\ local[m.t] = books[m.t][m.n - 1]
      BY <1>6, <2>1, <3>1 DEF Exact
    <3>3. books[m.t][m.n] \in Book
      BY <1>6, <2>1 DEF Now
    <3>4. b = books[m.t][m.n]
      BY <2>1, <2>2, <3>2, <3>3, DeltaExact
    <3>5. m.n \in 1 .. Now(m.t)
      BY <2>1 DEF Now
    <3> QED
      BY <3>4, <3>5 DEF Exact
  <2>5. /\ local' = [local EXCEPT ![m.t] = b] /\ at' = [at EXCEPT ![m.t] = n]
        /\ EmitUpdate(m.t, b, n)
    BY <1>10 DEF HandleDelta
  <2>6. n \in Nat \cup {Gap}
    BY <2>1
  <2> HIDE DEF b, n
  <2>7. FeedTypeOK' /\ BookIsExact'
    BY <1>7, <2>1, <2>3, <2>4, <2>5, <2>6
  <2> QED
    BY <1>5, <2>7 DEF FIInv, RawReal
<1> QED
  BY <1>8, <1>9, <1>10 DEF HandleMessage, HandleDelta, m

LEMMA FeedInit ==
  ASSUME Init
  PROVE  FIInv
<1> DEFINE e == [l \in Levels |-> 0]
<1>1. e \in Book /\ << e >> \in Seq(Book) /\ Len(<< e >>) = 1
  BY DEF Book
<1>2. books = [t \in Tickers |-> << e >>]
  BY DEF Init
<1> HIDE DEF e
<1>3. books \in [Tickers -> Seq(Book)] /\ \A t \in Tickers : books[t] = << e >>
  BY <1>1, <1>2
<1>4. \A t \in Tickers : Now(t) \in 1 .. MaxChanges[t] + 1 /\ 1 \in 1 .. Now(t)
  <2> SUFFICES ASSUME NEW t \in Tickers
               PROVE  Now(t) \in 1 .. MaxChanges[t] + 1 /\ 1 \in 1 .. Now(t)
    OBVIOUS
  <2>1. Now(t) = 1
    BY <1>1, <1>3 DEF Now
  <2>2. MaxChanges[t] \in Nat
    BY FeedBounds
  <2> QED
    BY <2>1, <2>2
<1>5. /\ conn \in 0 .. 2 * MaxLosses /\ commands \in 0 .. MaxCommands
      /\ outbox \in Seq(Tickers) /\ Len(outbox) <= OutCap
      /\ raw \in Seq(Message) /\ Len(raw) <= RawCap
      /\ updates \in Seq(Update) /\ Len(updates) <= UpdatesCap
  BY FeedCapacity, FeedBounds DEF Init
<1>6. /\ sent \in [Tickers -> Nat] /\ \A t \in Tickers : sent[t] \in 1 .. Now(t)
      /\ local \in [Tickers -> Book \cup {NoBook}] /\ at \in [Tickers -> Nat \cup {Gap}]
      /\ seen \in [Tickers -> Book \cup {NoBook}]
  BY <1>4 DEF Init
<1>7. FeedTypeOK
  BY <1>3, <1>4, <1>5, <1>6 DEF Init, FeedTypeOK
<1> QED
  BY <1>7 DEF Init, FIInv, BookIsExact, Exact

(* Type correctness, and exactness of the books, in one invariant.         *)
THEOREM FeedInvariant == Spec => []FIInv
<1>1. ASSUME FIInv, [Next]_vars PROVE FIInv'
  <2>1. CASE UNCHANGED vars
    BY <1>1, <2>1 DEF vars, exchange, client, adapter, FIInv, FeedTypeOK, BookIsExact, Exact,
                      MessageReal, Now
  <2>2. CASE Next
    BY <1>1, <2>2, ClientStep, WriteStep, ChangeStep, HandleStep, TakeStep DEF Next
  <2> QED
    BY <1>1, <2>1, <2>2
<1> QED
  BY <1>1, FeedInit, PTL DEF Spec

(* Every variable keeps its type; in particular no lost or repeated delta  *)
(* drives a quantity of a local book below zero.                           *)
THEOREM FeedTypeCorrect == Spec => []FeedTypeOK
BY FeedInvariant, PTL DEF FIInv

(* A local book, or a published one, that has seen every delta since its   *)
(* last snapshot is a book the exchange really had.                        *)
THEOREM BooksExact == Spec => []BookIsExact
BY FeedInvariant, PTL DEF FIInv
=============================================================================
