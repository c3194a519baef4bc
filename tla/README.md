# Caesar: models, checks and proofs

This directory specifies the core of the Caesar trading terminal in TLA+: the
signer process, the circuit breaker and the order validator it gates, the
WebSocket client, the Kalshi and Polymarket adapters, the Broadcaster, the
unified book, the Redis writer and the tunnel manager. TLC checks each model on
a small instance; TLAPS proves the main safety properties of the signer, the
breaker, the validator, the adapters, the unified book and the tunnel manager
for every value of the constants. Paths below are relative to `src/Caesar-Trade-master/`.

## The system

Two Go processes. The **signer** (`cmd/signer`, `internal/signer`) holds one
session key and signs orders over gRPC on a Unix socket. The **terminal**
(`cmd/caesar`) so far only loads its configuration; its components are in
`internal/adapter` and `internal/engine` and are wired together by their tests
and by `src/PHASE_2_HANDOVER.md`.

    exchange --> WSClient --> Kalshi/Poly adapter --> Broadcaster --+--> CircuitBreaker --> Validator
                  |  Circuit()                                      +--> RedisWriter
                  +-------------------> CircuitBreaker              +--> UnifiedBook
    exchange --> WSClient <-- TunnelManager (one private tunnel per user and exchange)
    client   --> signer server --> Handler --> SessionManager

| Component | State | Operations | What is hard | What makes it correct |
|---|---|---|---|---|
| Session manager `internal/signer/session.go` | sealed key, address, deadline, limit, amount used; one lock | Activate, Sign, Status, Destroy | refusals, failures, expiry and re-activation in any order | nothing is signed past a deadline, nor past a limit but for what negative amounts give back |
| Handler and process `handler.go`, `cmd/signer/main.go` | requests in flight; where main is | SignOrder, GetSessionStatus, signal, Destroy, GracefulStop | two critical sections in one request; shutdown against requests | each signature charged once; nothing signed with a destroyed session; shutdown ends |
| Signer server `server.go` | listener, socket file | New, Serve, GracefulStop | restart while the old process stops | the live server keeps its socket |
| Circuit breaker `circuit_breaker.go` | halt flag, watched clients, per-market times | CanTrade, recordUpdate, MarkStale, ManualHalt, Resume, WatchConnection | fields read after the lock is released | a granted call was on fresh, cooled-off data |
| WebSocket client `websocket.go` | connection, circuit flag, subscribers, outbox | Connect, Close, Subscribe, Send, read/write loops, reconnect | Close against a reconnection and against fan-out | one connection; outages visible; recovery; loops end |
| Tunnel manager `tunnel.go` | map of tunnels; one lock | Open, Close, CloseAll, Get, Send | work done between two critical sections | users isolated; each tunnel closed exactly once |
| Broadcaster `broadcaster.go` | sources, subscriber channels | Register, Subscribe, SubscribeAll, Run | lossy bounded channels, one goroutine per source | each subscriber sees a lossy stream: every update once, in order, lost only at a full channel |
| Redis writer `redis_writer.go` | buffer, last snapshot per market | Run, write | dropped updates, failed writes remembered as done | Redis converges to the last price |
| Unified book `unified_book.go` | state of each pair, events channel | AddPair, Run, consumeSide, applyUpdate, checkArbitrage, emit | two goroutines per pair, check outside the lock, lossy output | a signal was real; no crossing is overlooked |
| Kalshi / Polymarket adapters | local book, command counter, updates channel | Subscribe, Run, snapshot, delta, book | lost deltas, full channels, reconnections that lose subscriptions | the local book is the exchange's unless a delta was lost since the last snapshot |
| Validator `internal/engine/validator.go` | order status | Validate | the gate answers in several steps while everything moves | nothing validated while the gate is shut throughout |
| KMS client, configuration, `cmd/caesar`, proto | - | I/O at start | - | not modelled |

## Modules

| Module | Models |
|---|---|
| `SigningBudget` | abstract: grants with a limit and a deadline, and what was signed under and given back to each |
| `SessionManager` | `session.go`; one action per method and early return; implements `SigningBudget` |
| `SignerHandler` | `handler.go` and `cmd/signer/main.go` around a `SessionManager` (EXTENDS); implements both |
| `CircuitBreaker` | `circuit_breaker.go`, with CanTrade split where other goroutines can come in |
| `CircuitBreakerClaims` | history variables over `CircuitBreaker`, for two statements of its comments |
| `Validator` | `engine/validator.go` on a `CircuitBreaker` (EXTENDS): the composition that decides an order |
| `WSClient` | `websocket.go`: owner, read loop, write loop, network |
| `MarketFeed` | `kalshi/adapter.go` and `poly/adapter.go` between an exchange, a client that loses things, and a consumer |
| `LossyStream` | abstract: what a broadcast promises its subscribers |
| `Broadcaster` | `broadcaster.go`: a goroutine per source, two lists of bounded channels; implements `LossyStream` |
| `RedisWriter` | `redis_writer.go` on a unified subscription of a `Broadcaster` (EXTENDS) |
| `UnifiedBook` | `unified_book.go` on a `LossyStream` (INSTANCE) |
| `TunnelManager` | `tunnel.go`: any number of callers; a tunnel's `WSClient` is live or closed |
| `*Proofs` | theorems and proofs of `SessionManager`, `SignerHandler`, `CircuitBreaker` and `Validator` (both in `ValidatorProofs`), `MarketFeed`, `UnifiedBook`, `TunnelManager`, `WSClient`, `Broadcaster` and `RedisWriter` (both in `RedisWriterProofs`) |
| `MC*` and `*.cfg` | the instances TLC checks |

Two compositions hold the project together. `Broadcaster` is shown to implement
`LossyStream`, and `UnifiedBook` is built on `LossyStream` and not on the
Broadcaster's goroutines and lists; so what is shown of the book holds of the
book on a Broadcaster. And `Validator` runs on the whole `CircuitBreaker`, so an
order is decided amid every step of the breaker.

Definitions that start with `Mut` are plausible mistakes in the operation that
follows them. They are part of no specification; each is listed in
`PROJECT.json` with the property that finds it out.

### How the models correspond to the code

*SessionManager.* The variables `enclave`, `address`, `expiresAt`,
`maxValueLimit` and `valueUsed` are the struct's fields, `now` is `time.Now()`.
Every method holds `sm.mu` throughout, so a call is one action, and its early
returns are actions of their own: `SignNoSession`, `SignExpired` (which destroys
the session), `SignOverLimit`, `SignFails` (enclave, key or ECDSA failure) and
`SignOK`. A key stands for its address. `maker_amount` is parsed as a signed
integer and its sign is not checked, so order values are integers; limits are
naturals. `grants` records what the code does not: the amounts that were signed
under each activation. The hash takes `MakerAmount.Bytes()`, the absolute value
(`SignedAmount`, `session.go:221`), while the counter takes the value with its
sign; what a negative order takes off the counter is the grant's `credit`, and
each such order makes the counter short of the amounts signed by twice that.

*SignerHandler.* A request goes `idle`, `received`, `signed`, `replied`; between
the last two another goroutine may run, because `SignOrder` reads the address
with `Status` after `Sign` has unlocked. `main` is where `main()` is; the session
goes with the process, so `ServeFails` and `FinishGracefulStop` destroy it.
Activate is called by nobody in the repository; `Owner` is whoever will call it.

*CircuitBreaker.* `CanTrade` keeps a `*marketState` and reads its fields after
`RUnlock`, so the steps `ReadLast` and `ReadRecovered` race with
`WriteLastUpdate` and `WriteRecovered`. `Lookup` and `MarkStale` wait for the
lock (`Unlocked`). The feed is the Broadcaster's `SubscribeAll` channel, bounded
and lossy. `healthy`, `lastUpdate`, `recoveredAt` and `known` are `cb.markets`.
Time is discrete; the configuration's poll interval is read by nothing.

*Validator.* The checks of an order's own fields read nothing that changes, so
rejecting for them is one step (`RejectFields`); an order that passes them calls
`CanTrade` (`AskGate`, then the steps of the breaker) and is decided by the
answer (`Decide`). `shut` is history: the reasons to refuse that have held
without a break since the call began. Prices are cents, so a NaN is not among
them; the slippage guard is empty in the code, as are the markets' prices.

*WSClient.* `user` is the goroutine that calls Connect and Close, `reader` and
`writer` the loops, each step one access to shared state. A message is a count,
a connection an identifier whose `sock` is open, lost by the peer, or closed.
A connection is dialled before it is published as `ws.conn`, as in `dial`.
`panicked` is a send on a closed channel or a nil connection. `onReconnect` is a
hook of the tests and is left out.

*Broadcaster.* `stage` is where a source's goroutine is: in its select, under
`b.mu` (`keyed`) or under `b.allMu` (`all`); `left` are the channels it has yet to
try, in any order. Subscribing takes the write lock of a list, so it waits until
nobody distributes over it (`ListFree`). An update is its market, a value for
its best bid and ask, and a number; the channels are never closed.

*MarketFeed.* A constant set says which adapter is looked at (`venue`). `books`
is the exchange's history of every book, `subs` the subscriptions of the present
connection, `raw` the adapter's channel of the client's fan-out, `local` is
`ka.books`, `updates` the channel of the adapter. One goroutine handles one
message at a time, so `HandleMessage` is one action with everything it calls.
What is on the wire and what is in `raw` are one queue. The exchange sends a
snapshot on a subscription and a delta (Kalshi), a whole book or a price_change
that the adapter ignores (Polymarket) on a change. `at` is history: the number
of the exchange's book that the local one should be, or `Gap` since a delta was
lost. A level of quantity zero is no level; malformed JSON is `Other`.

*UnifiedBook.* `run` and `todo` are Run's loop over its copy of the pairs,
`stage` the place of each side's goroutine, `hand` and `copy` its local
variables. `Apply` is the critical section of applyUpdate; the two directions of
checkArbitrage are steps of their own, since the other goroutine may replace the
state between them. A book is known by its number in its market's history
(`quotes`), so the best prices of a state are those of the books it was merged
from; BestHigh and BestLow are 0 for an empty side, as in the code. `views`,
`reported` and `lost` are history: the states a pair had and what became of each
signal. AddPair stores the pair; its comment says it subscribes, but Run does.

*RedisWriter.* `ingest` and `flush` are the goroutines of Run; `held` and
`writing` the updates they hold between two steps. Duplicate check and snapshot
are one step under `rw.mu`, which nobody else takes; HSet is the next, and may
fail. `arrived`, `failed` and `dropped` are history.

*TunnelManager.* `lock` is `tm.mu`. Critical sections are single actions except
in Open, which closes the tunnel it replaces while it holds the lock (`Open`,
then `Replace`). `hand` is what a caller still has to publish, close or send on
after it unlocked. `panicked` is a second `WSClient.Close`. The IP pool is stored
and never read, so it is left out.

## Runs

| Run | Instance | What it shows |
|---|---|---|
| `signer_handler` | 2 keys, limit 2, values -1 and 2, 2 requests, 2 activations, TTL 1, 2 ticks | what is signed stays within the limit but for twice the credit of negative orders, each signature is charged once, the address is never outdated, a live session is kept, nothing is signed with what the shutdown destroyed, calls and shutdown end; implements `SigningBudget` |
| `order_gate` | 1 market, 1 caller, 3 orders at the edges of price and lot size, stale after 1, cool-off 2, feed of 1, 2 ticks | times are ordered, a grant is fresh and cooled; what is shut throughout the gate's call rejects the order; a validated order is sound; every order is decided |
| `ws_client` | 3 connections, 2 subscribers, channels of 1, delays 1 to 3 by a factor of 2 | one connection at a time, a closed circuit means a connection that is not closed, backoff, recovery, loops end after Close, the client panics only once Close has begun |
| `market_feed` | both adapters, 2 tickers, 2 levels, deltas of 1 and -1, 2 and 1 changes, 1 lost connection, 2 subscriptions, channels of 1 and 2 | the local book is exact unless a delta was lost since the snapshot; quantities stay natural; the consumer comes to the last book told |
| `redis_writer` | 2 sources of one market each, 2 and 1 updates, 2 prices, a late filtered subscriber and the writer, channels of 1, buffer of 2 | implements `LossyStream`, everybody in the lists is offered every update, slow ones block nobody; Redis converges unless the buffer dropped the latest price or its HSet failed |
| `unified_book` | 1 pair, 2 and 1 updates, 4 books that cross either way, not at all, have an empty side or an ask of 0, channels of 1 | a signal quotes the best prices of one state the pair had; no crossing is overlooked; updates reach the book and a cancelled Run returns |
| `tunnel_manager` | 2 users, 1 exchange, 2 callers, 3 tunnels | isolation, no double close, no closed tunnel in the map, removed tunnels closed |
| `claim_signed_within_limit` | as `signer_handler` | VIOLATED: -1 and then 2 are signed under a limit of 2, as amounts of 1 and 2 |
| `claim_granted_was_tradable` | the breaker of `order_gate` | VIOLATED: a torn read after MarkStale grants a call no moment of which was fresh and cooled |
| `claim_cool_off_after_reconnection` | the breaker of `order_gate` | VIOLATED: a reconnection starts no cool-off |
| `claim_close_is_clean` | as `ws_client` | VIOLATED: Close closes channels that fan-out sends on |
| `claim_one_tunnel_per_pair` | as `tunnel_manager` | VIOLATED: overlapping Opens of a pair leave a live tunnel out of reach |

### Why these bounds are enough

- Handler and session manager: two requests are the least that compete for one
  limit and the least of which one is in flight while another arrives. Limit 2
  with values 2 and -1 has an exact fit, an excess, and a total that goes down
  and up again. An activation between a signature and its reply needs two
  activations; TTL 1 in 2 ticks lets a deadline pass. The theorems remove every
  one of these bounds.
- Breaker and validator: callers only read shared state, so a second caller adds
  no behaviour to a first; markets do not interact except through `update`. The
  theorems hold for any number of both. The orders are one that only the gate
  can reject, one exactly at the open bound of the price and one below the lot
  size. Two ticks exceed the staleness threshold and reach the cool-off.
- WebSocket client: at most one connection can be open, one dialled and one still
  referred to, hence three. One slot per channel is full or empty; delay 1, 2, 3
  meets the growth and the cap.
- Feed: two changes give a lost delta between two that arrive, and -1 on a level
  whose +1 was lost drives a quantity to what the code cuts off. Two
  subscriptions allow a second snapshot, after one lost connection or without
  it; a channel of two holds a snapshot and a delta or overflows. The second
  ticker shows that books are kept apart.
- Unified book: two books of one side and one of the other already give a state
  replaced between copy and check, and a crossing that lasts one step. With one
  slot Events overflows. Pairs share nothing but the lock; the theorems hold for
  any number of them.
- Broadcaster and Redis writer: two updates of a market with two prices give a
  duplicate and a change; the third update, of the other source, fills the
  buffer and makes two goroutines distribute at once. The filtered subscription
  comes at any time, before, between and during distributions.
- Tunnels: two callers overlap every pair of operations, and three tunnels let
  one be replaced while another is being opened. Two users show isolation.

`MaxTime`, `MaxSessions`, `MaxUpdates`, `MaxChanges`, `MaxQty`, `MaxLosses`,
`MaxCommands`, the number of requests and the number of tunnels are the only
bounds in guards.

### Fairness

- Handlers in flight and `main` once signalled: weak fairness (the Go scheduler
  runs what can run). Nothing is assumed of clients, the owner or the clock.
- `recordUpdate` once it has an update: weak. CanTrade: strong, since a reader
  waiting for `sync.RWMutex` is let in after the writer before it. A goroutine
  whose gate has answered goes on: weak.
- The adapter's loop and the consumer of its updates: weak; nothing of the
  exchange or the client, so `FeedFollows` has the standing subscription in its
  hypothesis.
- Run and the goroutines of the unified book: weak, each for itself; the select
  of consumeSide: strong on the done context, because Go picks among ready cases
  at random. The reader of Events need not run.
- Read and write loop, and Close once called: weak. The select of the write loop:
  strong on the done context, because Go picks among ready cases at random.
  A reconnection that is tried again and again succeeds at some time: strong
  fairness of the dial. That is an assumption about the exchange and the
  hypothesis of `CircuitRecovers`.
- Sources' goroutines, ingestion and flusher: weak. HSet answers, well or not.
- Tunnel callers inside a call: weak; the second Lock of Open: strong, since
  `sync.Mutex` hands itself to a waiter that starves.

Deadlock is checked except in the handler, WebSocket, feed, unified book and
Redis runs, where the process, its loops or the supply of updates really stop.

## Where code and comments disagree

The five violated runs are listed under `findings` with their quotations. Other
limits seen while modelling, with no run of their own: the response of SignOrder
can carry the address of a session activated after the one that signed, or none,
because Status is asked after Sign has unlocked, while the proto calls it "The
Ethereum address that produced the signature" (`handler.go:88`,
`signer_service.proto:36`; `AddressNeverOutdated` says how far it can be off);
an ask of 0 cents, which `kalshi/adapter.go:259` admits, is taken for an empty side
(`unified_book.go:166`), so a crossing against it is not reported; `done` is closed before
the loops end (`websocket.go:153`), a dial that completes during Close leaves its
connection open (`:185`), the circuit keeps its last value when the loops end
(`:232`), freshness is arrival time and not the update's Timestamp
(`circuit_breaker.go:166`), CanTrade never reads `Healthy`, the Redis writer counts
a failed HSet as written (`redis_writer.go:111`), its full buffer drops the
newest update, not the oldest (`:73`), AddPair subscribes to nothing although its
comment says so (`unified_book.go:81`), the time of a merged side is stored and
never read (`:153`), Kalshi's sequence numbers are never read
(`kalshi/adapter.go:246`), nobody subscribes again after a reconnection
(`websocket.go:212`), and Kalshi NO bids are passed on as asks at their own price
(`kalshi/adapter.go:258`), which the models leave to the exchange's prices.

## Proofs

All proofs are checked by `tlapm`; they assume only the named ASSUMEs of the
modules (times, limits, thresholds, prices and capacities are naturals, "none"
values are no real ones, every market has an exchange, the first backoff
is not above the maximum, a non-empty side of a book has a best price).

- `SessionManagerProofs`. That no more is signed than the limit is false
  (`claim_signed_within_limit`). What is true, `BudgetRespected`, is that the
  excess is at most twice the credit of negative orders; it is not inductive,
  since it bounds what was signed, while Sign compares the counter. `IInv` adds
  `LedgerAgrees`, which ties limit, deadline and counter of the live session to
  the last grant: the counter is `signed - 2 * credit`. `TypeCorrect`,
  `BudgetHolds`, `LedgerHolds`; `LimitHolds`, that the limit does bound what is
  signed if no order value is negative (then no grant has any credit), so the
  sign is the only way past it; and `Refinement`, that the manager implements
  `SigningBudget`: each action maps to Grant, Spend, Reverse, Revoke, Tick or a
  stutter.
- `SignerHandlerProofs`. Each handler step is a step of the manager or leaves it
  alone (`HandlerImplementsManager`), so the budget and the abstract
  specification carry over to any number of requests (`HandlerBudget`,
  `HandlerImplementsBudget`). `AddressHolds` needs `HIInv`: a request with a
  signature names an activation of the history, and the key `Status` can report
  is that of the last one. `SessionsKept` and `DestroyRevokes` are action
  properties; the second needs `Revoked`, that a key held after the shutdown's
  Destroy is of a later activation.
  `ChargesExactly` says that the counter of a live session is the sum of the
  maker_amounts, with their signs, of the requests signed under it: each is
  charged once, and nothing else is. `ChargeInv` adds `Attributed`: no
  request names an activation that is still to come, so a new session starts
  with nobody charged to it. The community modules' sum is a recursive function
  over CHOOSE, and the induction theorems cannot be instantiated; so that a sum
  does not depend on the order, and changes by what is removed, is shown by a
  minimal counterexample among the subsets of a finite set (`MinimalSet`,
  `TotalRemove`, `TotalSame`).
- `ValidatorProofs`, first part: the breaker. `GrantsAreFresh` and
  `GrantsAreCooled` hold in spite of the unlocked reads because the fields only
  move forward in time. `RunInv` says that the reading of recordUpdate is not
  behind what is stored; `CallInv` that what a call has established is not
  undone by a later write.
- `ValidatorProofs`, second part: the gate. `VIInv` joins the breaker's invariant with `GateInv`: what
  the checks a call has passed have established about `shut`. A step of the
  breaker can only shrink `shut`, so a reason that held throughout would have
  failed its check. `ShutOut`, `ValidationSound`, and `GateIsBreaker`: the
  guarantees of the breaker hold behind the validator.
- `MarketFeedProofs`. `BooksExact` needs `FIInv`: every message in the channel says
  what the exchange's book was, or how it came out of the one before
  (`MessageReal`). A change appends to the history and disturbs none of it, so a
  snapshot makes the local book exact and a delta in sequence keeps it so.
- `UnifiedBookProofs`. `UBInv` adds `WorkInv` to the two promises: a copy being
  checked is a state the pair had, and a goroutine is started once.
  `CheckIsRight` is the heart: comparing best prices finds every bid that is above
  some ask by more than the threshold, unless 0 is among the asks, and nothing
  that is not there. `Apply` adds a state
  and leaves both of its directions to the goroutine that made it; a check takes
  one away and reports it. `SignalsReal`, `CrossingsReported`.
- `TunnelManagerProofs`. The three safety properties rest on one invariant:
  no tunnel is closed twice because each has one owner at a time, the map, the
  caller that is to publish it or the one that is to close it (`HandInv`,
  `MapInv`), and is live as long as it has one. `TypeCorrect`, `UsersIsolated`,
  `NeverClosedTwice` and `LookupFindsLive` follow for any number of callers. That
  two Opens of one pair can overlap does not break them: the tunnel they leave
  behind has no owner at all, which is the finding above.

- `WSClientProofs`. `OneSocket` counts connections and says nothing of where they
  are, so it is not inductive. `WSInv` does: the only connection that can be
  alive is the one the reader is at (`LiveConn`): `rconn` between the dial and its
  publication, `conn` otherwise, and none between a failed read and the next
  dial, because the reader closes before it waits. `AtConn` keeps the reader's
  own variable on the published connection, `Outage` the circuit open from the
  wait of reconnect to a published connection that is alive, `Starting` and `Connected` that no
  loop runs before Connect, `ChannelsOpen` that only Close closes what fan-out
  sends on. `OutageIsVisible` speaks of the circuit's other value: closed means,
  between Connect and Close, that the client has not closed the connection, but
  for the moment between the `c.Close()` after a failed read and the store that
  opens the circuit. A connection the peer has dropped shows only when the read
  fails. `SocketsClosed`, `OutagesShow`, `NoPanicBeforeClose`, and the action
  property `BackoffGrows` follow.
- `RedisWriterProofs`, first part: the Broadcaster. `BInv` follows an update from
  its source to the last channel: the updates of a market wait in the order they
  were made and without a gap (`InOrder`, `NoGap`), what a goroutine has in hand is
  the last one taken up (`InHand`), and a subscriber has been offered all that was
  taken up, but for the one a goroutine still owes it (`NoneMissed`). From it:
  `NobodyIsPassedBy`; and `SubscribersSeeTheStream`, the refinement of
  `LossyStream`, in which Emit maps to Make, Subscribe to Join, Offer to Offer,
  the receive of a subscriber to Take, and the goroutines' own steps (which the
  subscribers cannot see) to stutters. `NoneMissed` is what makes an Offer of the
  code the abstract one, which offers the next number and skips none.
  `DeliveredInOrder` (with `OrderInv`): a channel never holds an update twice or
  after a newer one of its market, over both lists and late subscriptions.
- `RedisWriterProofs`, second part: the writer. `RWInv` says that the
  latest price to arrive is in the goroutine's hand, or the last of its market in
  the buffer, or what the flusher remembers, unless it was dropped (`Carried`); and
  that Redis shows what `last`, by which repetitions are skipped, remembers, unless
  it is just being written or its HSet failed (`Remembered`). `WriterSettles`: once nothing of a market is inside the
  writer and nothing was lost, Redis shows the latest price. That is the safety
  half of `Converges`, which is only model-checked.

Only model-checked: liveness under fairness, which the prover does not reach
(`EveryCallAnswered`, `ShutdownCompletes`, `EveryOrderDecided`, `CircuitRecovers`,
`CloseStopsLoops`, `SlowConsumersDoNotBlock`, `Converges`, `FeedFollows`,
`BookFollows`, `RemovedIsClosed`). Every invariant, action property and refinement
that the passing runs check is stated by a theorem. `ReceivedInOrder` and
`SettledIsLatest` are theorems and in no run; what is checked of their modules
is the refinement `ImplementsStream` and `Converges`.

## Not modelled, and what could come next

Left out: the KMS client, the configuration and `cmd/caesar` (I/O at start; no
component is wired there yet), EIP-712 hashing and ECDSA (success or failure is
what matters), `AuthHeaders`, JSON and its errors (a malformed message is one
that is ignored), TCP and buffer tuning, the order pipeline that the validator's
comments speak of (not in the repository). The socket file of the signer is the
operating system's: that a stopping signer removes the path of a restarted one
is listed as a hazard without a property.

Next would be abstract specifications of the gate and of the tunnels, each with
the refinement that its invariants already suggest, and `WSClient` under
`MarketFeed` instead of the client that module abstracts.
