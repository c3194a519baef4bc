----------------------------- MODULE RedisWriter -----------------------------
(***************************************************************************)
(* internal/adapter/redis_writer.go on a unified subscription of a         *)
(* Broadcaster: a goroutine that moves the feed into a bounded buffer, and *)
(* one that writes it to Redis, skipping prices that did not change.       *)
(***************************************************************************)
EXTENDS Broadcaster

CONSTANTS feed,        \* the subscription NewRedisWriter is given
          NoPrice,     \* nothing written yet
          BufCap       \* 1024 in the code

ASSUME FeedAssumption == feed \in Unified \cap Early /\ NoPrice \notin Prices /\ BufCap \in Nat

VARIABLES
  ingest, held,        \* ingestion: at its select, or holding an update
  buf,
  flush, writing,      \* flusher: at its select, or about to HSet
  last,                \* rw.last
  redis,               \* what Redis holds for each market
  arrived,             \* history, per market: the latest price ingested; whether the
  failed, dropped      \* last HSet failed; whether the latest update met a full buffer

hist   == <<arrived, failed, dropped>>
writer == <<ingest, held, buf, flush, writing, last, redis, hist>>
vars   == <<bvars, writer>>

Init ==
  /\ BInit
  /\ ingest = "select" /\ held = NoUpdate /\ buf = << >>
  /\ flush = "select" /\ writing = NoUpdate
  /\ last = [k \in Keys |-> NoPrice]
  /\ redis = [k \in Keys |-> [price |-> NoPrice, n |-> 0]]
  /\ arrived = [k \in Keys |-> NoPrice]
  /\ failed = [k \in Keys |-> FALSE] /\ dropped = [k \in Keys |-> FALSE]

(* Ingestion.                                                              *)
Ingest ==
  /\ ingest = "select" /\ Consume(feed)
  /\ ingest' = "holding" /\ held' = Head(queue[feed])
  /\ arrived' = [arrived EXCEPT ![held'.key] = held'.price]
  /\ UNCHANGED <<buf, flush, writing, last, redis, failed, dropped>>

(* A full buffer drops the update in hand: the newest one.                 *)
MutStore ==
  /\ ingest = "holding" /\ ingest' = "select" /\ held' = NoUpdate
  /\ buf' = IF Len(buf) <= BufCap THEN Append(buf, held) ELSE buf
  /\ dropped' = [dropped EXCEPT ![held.key] = Len(buf) > BufCap]
  /\ UNCHANGED <<bvars, flush, writing, last, redis, arrived, failed>>
Store ==
  /\ ingest = "holding" /\ ingest' = "select" /\ held' = NoUpdate
  /\ buf' = IF Len(buf) < BufCap THEN Append(buf, held) ELSE buf
  /\ dropped' = [dropped EXCEPT ![held.key] = Len(buf) >= BufCap]
  /\ UNCHANGED <<bvars, flush, writing, last, redis, arrived, failed>>

IngestStops ==
  /\ ingest = "select" /\ cancelled /\ ingest' = "exit"
  /\ UNCHANGED <<bvars, held, buf, flush, writing, last, redis, hist>>

(* Flusher: write() up to the HSet.  rw.last is the flusher's alone.       *)
MutDuplicate(u) == last[u.key] # NoPrice
Duplicate(u) == last[u.key] = u.price

Remember(u) == last' = [last EXCEPT ![u.key] = u.price]

Flush ==
  /\ flush = "select" /\ buf # << >>
  /\ buf' = Tail(buf)
  /\ LET u == Head(buf) IN
       IF Duplicate(u) THEN UNCHANGED <<flush, writing, last>>
       ELSE flush' = "writing" /\ writing' = u /\ Remember(u)
  /\ UNCHANGED <<bvars, ingest, held, redis, hist>>

HSet ==
  /\ flush = "writing" /\ flush' = "select" /\ writing' = NoUpdate
  /\ redis' = [redis EXCEPT ![writing.key] = [price |-> writing.price, n |-> writing.n]]
  /\ failed' = [failed EXCEPT ![writing.key] = FALSE]
  /\ UNCHANGED <<bvars, ingest, held, buf, last, arrived, dropped>>

(* The error of HSet is not looked at.                                     *)
HSetFails ==
  /\ flush = "writing" /\ flush' = "select" /\ writing' = NoUpdate
  /\ failed' = [failed EXCEPT ![writing.key] = TRUE]
  /\ UNCHANGED <<bvars, ingest, held, buf, last, redis, arrived, dropped>>

FlushStops ==
  /\ flush = "select" /\ cancelled /\ flush' = "exit"
  /\ UNCHANGED <<bvars, ingest, held, buf, writing, last, redis, hist>>

Others == BNext \/ \E s \in Subs \ {feed} : Consume(s)

Next ==
  \/ Others /\ UNCHANGED writer
  \/ Ingest \/ Store \/ IngestStops
  \/ Flush \/ HSet \/ HSetFails \/ FlushStops

Spec == Init /\ [][Next]_vars

(* Every goroutine that can run runs; HSet answers in some way.  Nothing   *)
(* is assumed of the adapters or of the other consumers.                   *)
FairSpec ==
  /\ Spec
  /\ \A a \in Sources : WF_vars((Receive(a) \/ Distribute(a)) /\ UNCHANGED writer)
  /\ WF_vars(Ingest \/ Store) /\ WF_vars(Flush \/ HSet \/ HSetFails)

-----------------------------------------------------------------------------
(* Type invariant of the Broadcaster and of the writer.                    *)
TypeOK ==
  /\ BTypeOK
  /\ ingest \in {"select", "holding", "exit"} /\ held \in Update \cup {NoUpdate} /\ (ingest = "holding" <=> held \in Update)
  /\ buf \in Seq(Update) /\ Len(buf) <= BufCap
  /\ flush \in {"select", "writing", "exit"} /\ writing \in Update \cup {NoUpdate} /\ (flush = "writing" <=> writing \in Update)
  /\ last \in [Keys -> Prices \cup {NoPrice}]
  /\ redis \in [Keys -> [price : Prices \cup {NoPrice}, n : Numbers]]
  /\ arrived \in [Keys -> Prices \cup {NoPrice}]
  /\ failed \in [Keys -> BOOLEAN] /\ dropped \in [Keys -> BOOLEAN]

(* Once nothing of a market is left inside the writer, Redis shows the     *)
(* latest price ingested, unless the buffer dropped it or its HSet failed: *)
(* skipping what was written before never leaves an old price standing.    *)
Inside(k) ==
  \/ ingest = "holding" /\ held.key = k
  \/ \E i \in DOMAIN buf : buf[i].key = k
  \/ flush = "writing" /\ writing.key = k
SettledIsLatest ==
  \A k \in Keys : ~Inside(k) /\ ~dropped[k] /\ ~failed[k] => redis[k].price = arrived[k]

(* The inductive form: what has arrived is in the goroutine's hand, is the *)
(* last of its market in the buffer, or is what the flusher remembers; and *)
(* Redis shows what the flusher remembers or is about to.                  *)
LatestInBuf(k) ==
  /\ \A i \in DOMAIN buf :
       buf[i].key = k /\ (\A j \in DOMAIN buf : i < j => buf[j].key # k) => buf[i].price = arrived[k]
  /\ (\A i \in DOMAIN buf : buf[i].key # k) => last[k] = arrived[k]
Carried ==
  \A k \in Keys :
    IF ingest = "holding" /\ held.key = k THEN held.price = arrived[k]
    ELSE ~dropped[k] => LatestInBuf(k)
Remembered ==
  \A k \in Keys :
    IF flush = "writing" /\ writing.key = k THEN writing.price = last[k]
    ELSE ~failed[k] => redis[k].price = last[k]
RWInv == TypeOK /\ BInv /\ Carried /\ Remembered

(* Once the updates pause, Redis comes to show the latest price that was   *)
(* ingested and stays there, unless the buffer dropped it, its HSet failed *)
(* or the writer was stopped.                                              *)
Converges ==
  \A k \in Keys :
    <>[](cancelled \/ redis[k].price = arrived[k] \/ dropped[k] \/ failed[k])
=============================================================================
