----------------------------- MODULE MarketFeed -----------------------------
(***************************************************************************)
(* internal/adapter/kalshi/adapter.go and internal/adapter/poly/adapter.go *)
(* on a WSClient: an exchange whose books change, the client's lossy       *)
(* fan-out, the local book that the Kalshi adapter keeps out of snapshots  *)
(* and deltas (the Polymarket adapter passes whole books on), and the      *)
(* bounded channel of updates.  A level is a price on one side.            *)
(***************************************************************************)
EXTENDS Integers, Sequences

CONSTANTS
  Tickers, Levels,
  Deltas, MaxQty,              \* what one change adds to a level; bound on the total
  MaxChanges,                  \* bounds: changes of each book,
  MaxLosses, MaxCommands,      \* lost connections, calls of Subscribe
  OutCap, RawCap, UpdatesCap,  \* channel capacities: 256, 512 and 1024 in the code
  Venues,                      \* which of the two adapters is looked at
  NoBook, Gap                  \* no local book; the local book is missing a delta

ASSUME VenueAssumption == Venues \subseteq {"kalshi", "poly"}
ASSUME DeltaAssumption == Deltas \subseteq Int /\ MaxQty \in Nat /\ Gap \notin Nat
ASSUME FeedCapacity == OutCap \in Nat /\ RawCap \in Nat /\ UpdatesCap \in Nat
ASSUME FeedBounds == MaxChanges \in [Tickers -> Nat] /\ MaxLosses \in Nat /\ MaxCommands \in Nat

Book == [Levels -> Nat]
ASSUME NoBookAssumption == NoBook \notin Book

VARIABLES
  venue,
  books, subs, conn,   \* exchange: the history of every book, the subscriptions on the
                       \* connection; connections lost and made (it is up when even)
  commands, outbox,    \* cmdID; subscriptions to be written
  raw, running,        \* the adapter's channel of the fan-out; its Run
  local,               \* ka.books
  updates,
  at, sent,            \* history: the number of the book that local should be; of the
                       \* last one told to the client
  missed, dropped, seen  \* tickers whose last message, or last update, met a full
                       \* channel; the book in the last update that was taken

exchange == <<books, subs, conn, sent>>
client   == <<commands, outbox>>
adapter  == <<local, updates, at, dropped>>
vars == <<venue, exchange, client, raw, missed, running, adapter, seen>>

Other == [kind |-> "other"]
Message ==
  [kind : {"book"}, t : Tickers, n : Nat, book : Book]
    \cup [kind : {"delta"}, t : Tickers, n : Nat, level : Levels, d : Deltas] \cup {Other}
Update == [t : Tickers, book : Book, n : Nat \cup {Gap}]

Now(t) == Len(books[t])
Snapshot(t) == [kind |-> "book", t |-> t, n |-> Now(t), book |-> books[t][Now(t)]]
Up == conn % 2 = 0

Init ==
  /\ venue \in Venues
  /\ books = [t \in Tickers |-> << [l \in Levels |-> 0] >>]
  /\ subs = {} /\ conn = 0 /\ sent = [t \in Tickers |-> 1]
  /\ commands = 0 /\ outbox = << >>
  /\ raw = << >> /\ missed = {} /\ running = "off"
  /\ local = [t \in Tickers |-> NoBook] /\ at = [t \in Tickers |-> Gap]
  /\ updates = << >> /\ dropped = {}
  /\ seen = [t \in Tickers |-> NoBook]

-----------------------------------------------------------------------------
(* The client between the exchange and the adapter.                        *)

(* readLoop and fanOut: a message for a full channel is lost.              *)
FanOut(m) ==
  LET room == Len(raw) < RawCap IN
  /\ raw' = IF room THEN Append(raw, m) ELSE raw
  /\ missed' = IF m = Other THEN missed
               ELSE IF ~room THEN missed \cup {m.t}
               ELSE IF m.kind = "book" THEN missed \ {m.t} ELSE missed

(* Subscribe and Send: a command for a full outbox is lost.                *)
Subscribe(t) ==
  /\ commands < MaxCommands /\ commands' = commands + 1
  /\ outbox' = IF Len(outbox) < OutCap THEN Append(outbox, t) ELSE outbox
  /\ UNCHANGED <<venue, exchange, raw, missed, running, adapter, seen>>

(* writeLoop.  The exchange answers with the book, or with an error if the *)
(* subscription stands already.                                            *)
Write ==
  /\ outbox # << >> /\ outbox' = Tail(outbox)
  /\ Up
  /\ LET t == Head(outbox) IN
       /\ subs' = subs \cup {t}
       /\ IF t \in subs THEN FanOut(Other) /\ UNCHANGED sent
          ELSE FanOut(Snapshot(t)) /\ sent' = [sent EXCEPT ![t] = Now(t)]
  /\ UNCHANGED <<venue, books, conn, commands, running, adapter, seen>>

(* A write to a connection that is gone fails, and is only logged.         *)
WriteFails ==
  /\ outbox # << >> /\ outbox' = Tail(outbox)
  /\ UNCHANGED <<venue, exchange, commands, raw, missed, running, adapter, seen>>

(* The exchange forgets the subscriptions of a connection; nothing on the  *)
(* client's side sends them again.                                         *)
ConnectionLost ==
  /\ Up /\ conn < 2 * MaxLosses /\ conn' = conn + 1 /\ subs' = {}
  /\ UNCHANGED <<venue, books, sent, client, raw, missed, running, adapter, seen>>

Reconnected ==
  /\ ~Up /\ conn' = conn + 1
  /\ UNCHANGED <<venue, books, subs, sent, client, raw, missed, running, adapter, seen>>

(* A book changes.  Kalshi sends the change; Polymarket the whole book, or *)
(* a price_change, which its adapter does not read.                        *)
Reports(t, l, d, b) ==
  LET n == Now(t) + 1 IN
  IF venue = "kalshi" THEN {[kind |-> "delta", t |-> t, n |-> n, level |-> l, d |-> d]}
  ELSE {[kind |-> "book", t |-> t, n |-> n, book |-> b], Other}

Change(t, l, d) ==
  LET b == [books[t][Now(t)] EXCEPT ![l] = @ + d] IN
  /\ Now(t) <= MaxChanges[t] /\ b[l] \in 0 .. MaxQty
  /\ books' = [books EXCEPT ![t] = Append(@, b)]
  /\ IF t \in subs
     THEN \E m \in Reports(t, l, d, b) :
            FanOut(m) /\ sent' = IF m = Other THEN sent ELSE [sent EXCEPT ![t] = Now(t) + 1]
     ELSE UNCHANGED <<raw, missed, sent>>
  /\ UNCHANGED <<venue, subs, conn, client, running, adapter, seen>>

-----------------------------------------------------------------------------
(* Run and handleMessage.                                                  *)

(* emitUpdate, and the end of handleBook: never waits.                     *)
EmitUpdate(t, b, n) ==
  LET room == Len(updates) < UpdatesCap IN
  /\ updates' = IF room THEN Append(updates, [t |-> t, book |-> b, n |-> n]) ELSE updates
  /\ dropped' = IF room THEN dropped \ {t} ELSE dropped \cup {t}

MutHandleSnapshot(m) ==
  LET b == IF local[m.t] = NoBook THEN m.book
           ELSE [l \in Levels |-> IF m.book[l] = 0 THEN local[m.t][l] ELSE m.book[l]]
  IN
  /\ local' = [local EXCEPT ![m.t] = b] /\ at' = [at EXCEPT ![m.t] = m.n]
  /\ EmitUpdate(m.t, b, m.n)
MutSnapshotSilent(m) ==
  /\ local' = [local EXCEPT ![m.t] = m.book] /\ at' = [at EXCEPT ![m.t] = m.n]
  /\ UNCHANGED <<updates, dropped>>
HandleSnapshot(m) ==
  /\ local' = [local EXCEPT ![m.t] = m.book] /\ at' = [at EXCEPT ![m.t] = m.n]
  /\ EmitUpdate(m.t, m.book, m.n)

MutNewQty(q, d) == q + d
NewQty(q, d) == IF q + d <= 0 THEN 0 ELSE q + d

(* A delta is applied to whatever the book is: its seq is not looked at.   *)
HandleDelta(m) ==
  IF local[m.t] = NoBook THEN UNCHANGED adapter
  ELSE LET b == [local[m.t] EXCEPT ![m.level] = NewQty(@, m.d)]
           n == IF at[m.t] # Gap /\ m.n = at[m.t] + 1 THEN m.n ELSE Gap
       IN /\ local' = [local EXCEPT ![m.t] = b] /\ at' = [at EXCEPT ![m.t] = n]
          /\ EmitUpdate(m.t, b, n)

HandleBook(m) ==
  /\ EmitUpdate(m.t, m.book, m.n)
  /\ UNCHANGED <<local, at>>

(* A message of any other type is ignored.                                 *)
HandleMessage ==
  /\ running = "on" /\ raw # << >> /\ raw' = Tail(raw)
  /\ LET m == Head(raw) IN
       \/ m.kind = "other" /\ UNCHANGED adapter
       \/ venue = "kalshi" /\ m.kind = "book" /\ HandleSnapshot(m)
       \/ venue = "kalshi" /\ m.kind = "delta" /\ HandleDelta(m)
       \/ venue = "poly" /\ m.kind = "book" /\ HandleBook(m)
  /\ UNCHANGED <<venue, exchange, client, missed, running, seen>>

(* Run may start after messages have come, and ends with its context or    *)
(* with the client.                                                        *)
RunStarts ==
  /\ running = "off" /\ running' = "on"
  /\ UNCHANGED <<venue, exchange, client, raw, missed, adapter, seen>>

RunStops ==
  /\ running = "on" /\ running' = "exit"
  /\ UNCHANGED <<venue, exchange, client, raw, missed, adapter, seen>>

(* The consumer of Updates.                                                *)
Take ==
  /\ updates # << >> /\ updates' = Tail(updates)
  /\ seen' = [seen EXCEPT ![Head(updates).t] = Head(updates).book]
  /\ UNCHANGED <<venue, exchange, client, raw, missed, running, local, at, dropped>>

Next ==
  \/ \E t \in Tickers : Subscribe(t) \/ \E l \in Levels, d \in Deltas : Change(t, l, d)
  \/ Write \/ WriteFails \/ ConnectionLost \/ Reconnected
  \/ RunStarts \/ HandleMessage \/ RunStops \/ Take

Spec == Init /\ [][Next]_vars

(* The adapter's loop and its consumer keep running.                       *)
FairSpec == Spec /\ WF_vars(HandleMessage) /\ WF_vars(Take)

-----------------------------------------------------------------------------
(* Type invariant of the adapter, its client and the exchange; quantities  *)
(* stay natural whatever deltas were lost.                                 *)
FeedTypeOK ==
  /\ venue \in Venues
  /\ books \in [Tickers -> Seq(Book)] /\ \A t \in Tickers : Now(t) \in 1 .. MaxChanges[t] + 1
  /\ subs \subseteq Tickers /\ conn \in 0 .. 2 * MaxLosses
  /\ sent \in [Tickers -> Nat] /\ \A t \in Tickers : sent[t] \in 1 .. Now(t)
  /\ commands \in 0 .. MaxCommands
  /\ outbox \in Seq(Tickers) /\ Len(outbox) <= OutCap
  /\ raw \in Seq(Message) /\ Len(raw) <= RawCap /\ missed \subseteq Tickers
  /\ running \in {"off", "on", "exit"}
  /\ local \in [Tickers -> Book \cup {NoBook}] /\ at \in [Tickers -> Nat \cup {Gap}]
  /\ updates \in Seq(Update) /\ Len(updates) <= UpdatesCap /\ dropped \subseteq Tickers
  /\ seen \in [Tickers -> Book \cup {NoBook}]

(* A book is the n-th one of its ticker, or known to miss a delta.         *)
Exact(t, b, n) == n # Gap => n \in 1 .. Now(t) /\ b = books[t][n]

(* Unless a delta was lost since the last snapshot, the local book is the  *)
(* very book the exchange had, and every update shows such a book: across  *)
(* losses, reconnections and repeated subscriptions a snapshot heals the   *)
(* book completely.                                                        *)
BookIsExact ==
  /\ \A t \in Tickers : Exact(t, local[t], at[t])
  /\ \A i \in DOMAIN updates : Exact(updates[i].t, updates[i].book, updates[i].n)

(* The inductive form: every message on its way says what the exchange's   *)
(* book was, or how it came out of the one before.                         *)
MessageReal(m) ==
  /\ m.kind = "book" => m.n \in 1 .. Now(m.t) /\ m.book = books[m.t][m.n]
  /\ m.kind = "delta" => m.n \in 2 .. Now(m.t)
       /\ books[m.t][m.n] = [books[m.t][m.n - 1] EXCEPT ![m.level] = @ + m.d]
FIInv == FeedTypeOK /\ BookIsExact /\ \A i \in DOMAIN raw : MessageReal(raw[i])

(* While a subscription stands and neither channel lost the last message   *)
(* or update of a ticker, the consumer comes to hold the last book the     *)
(* exchange told of.                                                       *)
FeedFollows ==
  \A t \in Tickers :
    <>[](running # "on" \/ t \notin subs \/ t \in missed \cup dropped
           \/ seen[t] = books[t][sent[t]])
=============================================================================
