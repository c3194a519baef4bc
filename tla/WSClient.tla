------------------------------ MODULE WSClient ------------------------------
(***************************************************************************)
(* internal/adapter/websocket.go: the goroutine that calls Connect and     *)
(* Close, readLoop (with fanOut and reconnect inside it) and writeLoop,    *)
(* around the connection, the circuit flag, the subscribers' channels and  *)
(* the outbox.  Every access to a shared variable is a step of its own.    *)
(* Payloads are left out: a channel is the number of messages in it.       *)
(***************************************************************************)
EXTENDS Integers, FiniteSets

CONSTANTS
  ConnIds, NoConn,      \* connections; an id is reused once nobody refers to it
  Subs,                 \* subscribers
  SubCap, OutboxCap,    \* 512 and 256 in the code
  BackoffInitial, BackoffMax, BackoffFactor

ASSUME ConnAssumption == NoConn \notin ConnIds
ASSUME CapAssumption == SubCap \in Nat /\ OutboxCap \in Nat
ASSUME BackoffAssumption ==
  /\ BackoffInitial \in Nat /\ BackoffMax \in Nat /\ BackoffFactor \in Nat \ {0}
  /\ BackoffInitial <= BackoffMax

VARIABLES
  circuit, conn,        \* ws.circuit, ws.conn
  sock,                 \* state of each connection
  sub, queue,           \* the subscribers' channels
  outbox, done,
  cancelled,            \* the context derived in Connect is done
  user, closing,        \* the owner: Connect, then Close; subscribers yet to close
  reader, rconn, left, delay,   \* readLoop: its c, fanOut's remaining subscribers
  writer, wconn,        \* writeLoop and its c
  panicked              \* a goroutine panicked, and the process with it

link   == <<circuit, conn, sock>>
chans  == <<sub, queue>>
owner  == <<user, closing, cancelled, done>>
rloop  == <<reader, rconn, left, delay>>
wloop  == <<writer, wconn>>
vars   == <<link, chans, outbox, owner, rloop, wloop, panicked>>

Init ==
  /\ circuit = "closed" /\ conn = NoConn /\ sock = [i \in ConnIds |-> "closed"]
  /\ sub = [s \in Subs |-> "none"] /\ queue = [s \in Subs |-> 0]
  /\ outbox = 0 /\ done = FALSE /\ cancelled = FALSE
  /\ user = "new" /\ closing = {}
  /\ reader = "off" /\ rconn = NoConn /\ left = {} /\ delay = BackoffInitial
  /\ writer = "off" /\ wconn = NoConn
  /\ panicked = FALSE

(* dial: a handshake succeeds only while the context lives; the connection *)
(* it returns is published in a later step.                                *)
Fresh == {i \in ConnIds : sock[i] = "closed" /\ i \notin {conn, rconn, wconn}}
Dialed(i) == i \in Fresh /\ ~cancelled /\ sock' = [sock EXCEPT ![i] = "open"]
Publish(i) == conn' = i

-----------------------------------------------------------------------------
(* Callers of Subscribe and Send, consumers, and the network.              *)
FansOut == reader = "fan"
Subscribe(s) ==
  /\ sub[s] = "none" /\ ~FansOut /\ user # "closingSubs"       \* subMu.Lock
  /\ sub' = [sub EXCEPT ![s] = "open"]
  /\ UNCHANGED <<link, queue, outbox, owner, rloop, wloop, panicked>>

Drain(s) ==
  /\ queue[s] > 0 /\ queue' = [queue EXCEPT ![s] = @ - 1]
  /\ UNCHANGED <<link, sub, outbox, owner, rloop, wloop, panicked>>

(* A full outbox drops the message.                                        *)
MutSend == outbox <= OutboxCap /\ outbox' = outbox + 1 /\ UNCHANGED <<link, chans, owner, rloop, wloop, panicked>>
Send == outbox < OutboxCap /\ outbox' = outbox + 1 /\ UNCHANGED <<link, chans, owner, rloop, wloop, panicked>>

PeerLost(i) ==
  /\ sock[i] = "open" /\ sock' = [sock EXCEPT ![i] = "lost"]
  /\ UNCHANGED <<circuit, conn, chans, outbox, owner, rloop, wloop, panicked>>

(* The context given to Connect is cancelled by whoever made it.           *)
ParentCancel ==
  /\ user = "up" /\ ~cancelled /\ cancelled' = TRUE
  /\ UNCHANGED <<link, chans, outbox, user, closing, done, rloop, wloop, panicked>>

-----------------------------------------------------------------------------
(* Connect: dial, publish, close the circuit, start both loops.            *)
ConnectDials(i) ==
  /\ user = "new" /\ Dialed(i)
  /\ Publish(i) /\ user' = "dialed"
  /\ UNCHANGED <<circuit, chans, outbox, closing, cancelled, done, rloop, wloop, panicked>>

MutConnectFails ==
  /\ user = "new" /\ user' = "dialed"
  /\ UNCHANGED <<link, chans, outbox, closing, cancelled, done, rloop, wloop, panicked>>
ConnectFails == user = "new" /\ UNCHANGED vars

ConnectStarts ==
  /\ user = "dialed" /\ user' = "up"
  /\ circuit' = "closed" /\ reader' = "take" /\ writer' = "select"
  /\ UNCHANGED <<conn, sock, chans, outbox, closing, cancelled, done, rconn, left, delay, wconn, panicked>>

(* Close: cancel, close the connection of the moment, close the channels   *)
(* one by one under a read lock, close(done).                              *)
CloseCancels ==
  /\ user \in {"new", "up"} /\ user' = "closing"
  /\ cancelled' = TRUE
  /\ UNCHANGED <<link, chans, outbox, closing, done, rloop, wloop, panicked>>

CloseConn ==
  /\ user = "closing" /\ user' = "closingSubs"
  /\ sock' = [i \in ConnIds |-> IF i = conn THEN "closed" ELSE sock[i]]
  /\ closing' = {s \in Subs : sub[s] = "open"}
  /\ UNCHANGED <<circuit, conn, chans, outbox, cancelled, done, rloop, wloop, panicked>>

CloseSub(s) ==
  /\ user = "closingSubs" /\ s \in closing
  /\ sub' = [sub EXCEPT ![s] = "closed"] /\ closing' = closing \ {s}
  /\ UNCHANGED <<link, queue, outbox, user, cancelled, done, rloop, wloop, panicked>>

CloseDone ==
  /\ user = "closingSubs" /\ closing = {}
  /\ user' = "closed" /\ done' = TRUE
  /\ UNCHANGED <<link, chans, outbox, closing, cancelled, rloop, wloop, panicked>>

Close == CloseConn \/ CloseDone \/ \E s \in Subs : CloseSub(s)

-----------------------------------------------------------------------------
(* readLoop.  A nil connection would panic on SetReadDeadline.             *)
TakeConn ==
  /\ reader = "take" /\ reader' = "reading" /\ rconn' = conn
  /\ panicked' = (conn = NoConn)
  /\ UNCHANGED <<link, chans, outbox, owner, left, delay, wloop>>

ReadMessage ==
  /\ reader = "reading" /\ sock[rconn] = "open"
  /\ reader' = "fanOut"
  /\ UNCHANGED <<link, chans, outbox, owner, rconn, left, delay, wloop, panicked>>

(* The deadline passed without a message, the peer went away, or the       *)
(* connection is closed.  When the context is done the loop just returns.  *)
MutReadFails ==
  /\ reader = "reading" /\ reader' = IF cancelled THEN "exit" ELSE "failed"
  /\ UNCHANGED <<link, chans, outbox, owner, rconn, left, delay, wloop, panicked>>
ReadFails ==
  /\ reader = "reading" /\ reader' = IF cancelled THEN "exit" ELSE "failed"
  /\ sock' = IF cancelled THEN sock ELSE [sock EXCEPT ![rconn] = "closed"]
  /\ UNCHANGED <<circuit, conn, chans, outbox, owner, rconn, left, delay, wloop, panicked>>

(* fanOut: RLock, then one non-blocking send per subscriber.  Sending on a *)
(* closed channel panics.                                                  *)
FanOut ==
  /\ reader = "fanOut" /\ reader' = "fan"
  /\ left' = {s \in Subs : sub[s] # "none"}
  /\ UNCHANGED <<link, chans, outbox, owner, rconn, delay, wloop, panicked>>

Deliver(s) ==
  /\ reader = "fan" /\ s \in left
  /\ left' = left \ {s}
  /\ panicked' = (sub[s] = "closed")
  /\ queue' = [queue EXCEPT ![s] = IF sub[s] = "open" /\ @ < SubCap THEN @ + 1 ELSE @]
  /\ UNCHANGED <<link, sub, outbox, owner, reader, rconn, delay, wloop>>

FannedOut ==
  /\ reader = "fan" /\ left = {} /\ reader' = "take"
  /\ UNCHANGED <<link, chans, outbox, owner, rconn, left, delay, wloop, panicked>>

(* reconnect.  The timer of the select is not there to win once the        *)
(* context is done, save where it had fired before.                        *)
MutOpenCircuit ==
  /\ reader = "failed" /\ reader' = "backoff"
  /\ delay' = BackoffInitial
  /\ UNCHANGED <<link, chans, outbox, owner, rconn, left, wloop, panicked>>
OpenCircuit ==
  /\ reader = "failed" /\ reader' = "backoff"
  /\ circuit' = "open" /\ delay' = BackoffInitial
  /\ UNCHANGED <<conn, sock, chans, outbox, owner, rconn, left, wloop, panicked>>

BackoffEnds ==
  /\ reader = "backoff" /\ reader' = IF cancelled THEN "exit" ELSE "dial"
  /\ UNCHANGED <<link, chans, outbox, owner, rconn, left, delay, wloop, panicked>>

MutNextDelay == delay * BackoffFactor
NextDelay == IF delay * BackoffFactor < BackoffMax THEN delay * BackoffFactor ELSE BackoffMax

DialFails ==
  /\ reader = "dial" /\ reader' = "backoff" /\ delay' = NextDelay
  /\ UNCHANGED <<link, chans, outbox, owner, rconn, left, wloop, panicked>>

DialSucceeds(i) ==
  /\ reader = "dial" /\ Dialed(i)
  /\ reader' = "dialed" /\ rconn' = i
  /\ UNCHANGED <<circuit, conn, chans, outbox, owner, left, delay, wloop, panicked>>

PublishConn ==
  /\ reader = "dialed" /\ reader' = "published" /\ Publish(rconn)
  /\ UNCHANGED <<circuit, sock, chans, outbox, owner, rconn, left, delay, wloop, panicked>>

MutCloseCircuit ==
  /\ reader = "published" /\ reader' = "take"
  /\ UNCHANGED <<link, chans, outbox, owner, rconn, left, delay, wloop, panicked>>
CloseCircuit ==
  /\ reader = "published" /\ reader' = "take" /\ circuit' = "closed"
  /\ UNCHANGED <<conn, sock, chans, outbox, owner, rconn, left, delay, wloop, panicked>>

ReadLoop ==
  \/ TakeConn \/ ReadMessage \/ ReadFails
  \/ FanOut \/ FannedOut \/ \E s \in Subs : Deliver(s)
  \/ OpenCircuit \/ BackoffEnds \/ DialFails \/ PublishConn \/ CloseCircuit
  \/ \E i \in ConnIds : DialSucceeds(i)

-----------------------------------------------------------------------------
(* writeLoop: a message is taken off the outbox before the connection it   *)
(* goes to is looked up; a write that fails is only logged.                *)
WriteTakes ==
  /\ writer = "select" /\ outbox > 0
  /\ outbox' = outbox - 1 /\ writer' = "got"
  /\ UNCHANGED <<link, chans, owner, rloop, wconn, panicked>>

WriteConn ==
  /\ writer = "got" /\ writer' = "writing" /\ wconn' = conn
  /\ panicked' = (conn = NoConn)
  /\ UNCHANGED <<link, chans, outbox, owner, rloop>>

WriteMessage ==
  /\ writer = "writing" /\ writer' = "select" /\ wconn' = NoConn
  /\ UNCHANGED <<link, chans, outbox, owner, rloop, panicked>>

MutWriteStops == FALSE
WriteStops ==
  /\ writer = "select" /\ cancelled /\ writer' = "exit"
  /\ UNCHANGED <<link, chans, outbox, owner, rloop, wconn, panicked>>

WriteLoop == WriteTakes \/ WriteConn \/ WriteMessage \/ WriteStops

Next ==
  /\ ~panicked
  /\ \/ \E s \in Subs : Subscribe(s) \/ Drain(s)
     \/ Send \/ ParentCancel
     \/ \E i \in ConnIds : PeerLost(i) \/ ConnectDials(i)
     \/ ConnectFails \/ ConnectStarts
     \/ CloseCancels \/ Close
     \/ ReadLoop \/ WriteLoop

Spec == Init /\ [][Next]_vars

(* Each loop is scheduled while it can run (a read ends with a message or  *)
(* at its deadline, a dial answers), select does not pick the outbox for   *)
(* ever over a done context, and Close runs to its end.                    *)
(* A server that is dialled again and again is reached at some time.       *)
FairSpec ==
  /\ Spec
  /\ WF_vars(~panicked /\ ReadLoop) /\ WF_vars(~panicked /\ WriteLoop)
  /\ SF_vars(~panicked /\ WriteStops)
  /\ WF_vars(~panicked /\ Close)
  /\ SF_vars(~panicked /\ \E i \in ConnIds : DialSucceeds(i))

-----------------------------------------------------------------------------
(* Type invariant, with the capacities of the channels.                    *)
TypeOK ==
  /\ circuit \in {"open", "closed"} /\ conn \in ConnIds \cup {NoConn}
  /\ sock \in [ConnIds -> {"open", "lost", "closed"}]
  /\ sub \in [Subs -> {"none", "open", "closed"}] /\ queue \in [Subs -> 0 .. SubCap]
  /\ outbox \in 0 .. OutboxCap
  /\ done \in BOOLEAN /\ cancelled \in BOOLEAN /\ panicked \in BOOLEAN
  /\ user \in {"new", "dialed", "up", "closing", "closingSubs", "closed"}
  /\ closing \subseteq Subs /\ left \subseteq Subs
  /\ reader \in {"off", "take", "reading", "fanOut", "fan", "failed", "backoff", "dial",
                 "dialed", "published", "exit"}
  /\ rconn \in ConnIds \cup {NoConn} /\ delay \in Nat
  /\ writer \in {"off", "select", "got", "writing", "exit"} /\ wconn \in ConnIds \cup {NoConn}

(* However often the client reconnects, it never holds two connections: a  *)
(* connection that failed is closed before the next is dialled.            *)
OneSocket == \A i, j \in ConnIds : sock[i] # "closed" /\ sock[j] # "closed" => i = j

(* Whoever hears from Circuit() that the circuit is closed has, between    *)
(* Connect and Close, a connection that the client has not closed: through *)
(* every failed dial and until the next connection is in place the outage  *)
(* shows.  Only a read that failed just now has closed the connection and  *)
(* not yet opened the circuit.                                             *)
OutageIsVisible ==
  circuit = "closed" /\ conn # NoConn /\ user \notin {"closingSubs", "closed"} =>
    sock[conn] # "closed" \/ reader = "failed"

(* The client itself brings the process down only when Close has begun:    *)
(* no loop runs without a connection, and no channel closes before.        *)
PanicNeedsClose == panicked => user \in {"closingSubs", "closed"}

(* The inductive form: both loops wait for the connection Connect put in   *)
(* place; only one connection can be alive, the one the reader is at, and  *)
(* none between a failed read and the next dial; the circuit is open until *)
(* a connection that is alive is in place; a channel closes only in Close. *)
Starting  == user \in {"new", "dialed"} => reader = "off" /\ writer = "off"
Connected == user = "dialed" \/ reader # "off" \/ writer # "off" => conn \in ConnIds
AtConn    ==
  /\ reader \in {"reading", "fanOut", "fan", "failed", "published"} => rconn = conn
  /\ reader = "dialed" => rconn \in ConnIds
LiveConn  ==
  \A i \in ConnIds : sock[i] # "closed" =>
    /\ reader \notin {"failed", "backoff", "dial"}
    /\ i = IF reader = "dialed" THEN rconn ELSE conn
Outage ==
  /\ reader \in {"backoff", "dial", "dialed", "published"} => circuit = "open"
  /\ user \in {"dialed", "up", "closing"} =>
       /\ user = "dialed" \/ reader = "published" => sock[conn] # "closed"
       /\ reader = "dialed" => sock[rconn] # "closed"
ChannelsOpen == \A s \in Subs : sub[s] = "closed" => user \in {"closingSubs", "closed"}
WSInv ==
  /\ TypeOK /\ delay <= BackoffMax /\ (user = "new" => conn = NoConn)
  /\ Starting /\ Connected /\ AtConn /\ LiveConn /\ ChannelsOpen
  /\ Outage /\ OutageIsVisible /\ PanicNeedsClose

(* Within an outage the delay never shrinks and never passes BackoffMax;   *)
(* only the next outage starts again from BackoffInitial.                  *)
BackoffShape ==
  [][delay' # delay =>
       \/ reader = "dial" /\ delay < delay' /\ delay' <= BackoffMax
       \/ reader = "failed" /\ delay' = BackoffInitial]_vars

(* An outage ends, as long as nobody stops the client and the server can   *)
(* be reached again.                                                       *)
CircuitRecovers == circuit = "open" ~> circuit = "closed" \/ cancelled

(* Once Close has returned and no connection is left open, both loops end  *)
(* (or have brought the process down).                                     *)
CloseStopsLoops ==
  done /\ (\A i \in ConnIds : sock[i] # "open") ~>
    panicked \/ (reader \in {"off", "exit"} /\ writer \in {"off", "exit"})

-----------------------------------------------------------------------------
(* What a comment says of Close and the code does not do.  "Close shuts    *)
(* down the client": it does not bring down the process that owns it.      *)
CloseIsClean == ~panicked
=============================================================================
