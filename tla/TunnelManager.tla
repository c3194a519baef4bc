---------------------------- MODULE TunnelManager ----------------------------
(***************************************************************************)
(* internal/adapter/tunnel.go: goroutines that call Open, Close, CloseAll  *)
(* and Send on one TunnelManager.  tm.mu is held for single steps, except  *)
(* in Open, which closes the tunnel it replaces while it holds the lock;   *)
(* connecting, tearing down and sending happen with the lock released.     *)
(* A tunnel's WSClient is "live" from a successful Connect to its Close    *)
(* (WSClient.tla models what happens inside).                              *)
(***************************************************************************)
EXTENDS Integers

CONSTANTS
  Users, Exchanges,
  Tunnels, NoTunnel,    \* every successful Open takes a new member of Tunnels
  Callers, Nobody

ASSUME TunnelAssumption ==
  NoTunnel \notin Tunnels /\ Nobody \notin Callers /\ Users # {} /\ Exchanges # {}

VARIABLES
  tunnels,      \* tm.tunnels
  ws, owner,    \* state of each tunnel's client; the user and exchange it was opened for
  lock,         \* holder of tm.mu
  pc, arg,      \* what each caller is doing, and for which user and exchange
  hand,         \* the tunnels a caller has yet to publish, to close or to send on
  panicked,     \* WSClient.Close ran twice: close of a closed channel
  published, raced   \* history: tunnels ever in the map, pairs opened by two callers at once

vars == <<tunnels, ws, owner, lock, pc, arg, hand, panicked, published, raced>>
hist == <<published, raced>>

Pairs == Users \X Exchanges

MutKey(p) == <<CHOOSE u \in Users : TRUE, p[2]>>
Key(p) == p

Init ==
  /\ tunnels = [k \in Pairs |-> NoTunnel]
  /\ ws = [t \in Tunnels |-> "unused"] /\ owner = [t \in Tunnels |-> CHOOSE p \in Pairs : TRUE]
  /\ lock = Nobody
  /\ pc = [c \in Callers |-> "idle"] /\ arg = [c \in Callers |-> CHOOSE p \in Pairs : TRUE]
  /\ hand = [c \in Callers |-> {}]
  /\ panicked = FALSE /\ published = {} /\ raced = {}

Goto(c, l) == pc' = [pc EXCEPT ![c] = l]
Hold(c, S) == hand' = [hand EXCEPT ![c] = S]
Begin(c, p) == pc[c] = "idle" /\ lock = Nobody /\ arg' = [arg EXCEPT ![c] = p]
TakeOut(ks) == tunnels' = [k \in Pairs |-> IF k \in ks THEN NoTunnel ELSE tunnels[k]]
InMap(ks) == {tunnels[k] : k \in ks} \ {NoTunnel}

(* Tunnel.close: cancel the context, close the client.                     *)
CloseTunnel(t) ==
  /\ ws' = [ws EXCEPT ![t] = "closed"]
  /\ panicked' = (panicked \/ ws[t] = "closed")

-----------------------------------------------------------------------------
(* Open                                                                    *)
Opening(c) == pc[c] \in {"replacing", "connecting", "publishing"}

Open(c, p) ==
  /\ Begin(c, p)
  /\ Hold(c, InMap({Key(p)}))
  /\ raced' = raced \cup {arg[d] : d \in {d \in Callers : Opening(d) /\ arg[d] = p}}
  /\ IF InMap({Key(p)}) = {} THEN Goto(c, "connecting") /\ UNCHANGED lock
                             ELSE Goto(c, "replacing") /\ lock' = c
  /\ UNCHANGED <<tunnels, ws, owner, panicked, published>>

MutReplace(c) ==
  /\ pc[c] = "replacing" /\ lock' = Nobody
  /\ \E t \in hand[c] : CloseTunnel(t)
  /\ Hold(c, {}) /\ Goto(c, "connecting")
  /\ UNCHANGED <<tunnels, owner, arg, hist>>
Replace(c) ==
  /\ pc[c] = "replacing" /\ lock' = Nobody
  /\ \E t \in hand[c] : CloseTunnel(t)
  /\ TakeOut({Key(arg[c])}) /\ Hold(c, {}) /\ Goto(c, "connecting")
  /\ UNCHANGED <<owner, arg, hist>>

MutConnectFails(c) ==
  /\ pc[c] = "connecting" /\ Goto(c, "publishing")
  /\ UNCHANGED <<tunnels, ws, owner, lock, arg, hand, panicked, hist>>
ConnectFails(c) ==
  /\ pc[c] = "connecting" /\ Goto(c, "idle")
  /\ UNCHANGED <<tunnels, ws, owner, lock, arg, hand, panicked, hist>>

Connect(c, t) ==
  /\ pc[c] = "connecting" /\ ws[t] = "unused"
  /\ ws' = [ws EXCEPT ![t] = "live"] /\ owner' = [owner EXCEPT ![t] = arg[c]]
  /\ Hold(c, {t}) /\ Goto(c, "publishing")
  /\ UNCHANGED <<tunnels, lock, arg, panicked, hist>>

(* Whatever is in the map by now is overwritten.                           *)
Publish(c) ==
  /\ pc[c] = "publishing" /\ lock = Nobody
  /\ \E t \in hand[c] : tunnels' = [tunnels EXCEPT ![Key(arg[c])] = t]
  /\ published' = published \cup hand[c]
  /\ Hold(c, {}) /\ Goto(c, "idle")
  /\ UNCHANGED <<ws, owner, lock, arg, panicked, raced>>

-----------------------------------------------------------------------------
(* Close and CloseAll: out of the map under the lock, closed after it.     *)
Take(c, ks) ==
  /\ Hold(c, InMap(ks)) /\ TakeOut(ks)
  /\ Goto(c, "closing")
  /\ UNCHANGED <<ws, owner, lock, panicked, hist>>

Close(c, p) == Begin(c, p) /\ Take(c, {Key(p)})

MutCloseAll(c) ==
  /\ Begin(c, arg[c])
  /\ Hold(c, InMap(Pairs)) /\ Goto(c, "closing")
  /\ UNCHANGED <<tunnels, ws, owner, lock, panicked, hist>>
CloseAll(c) == Begin(c, arg[c]) /\ Take(c, Pairs)

CloseNext(c, t) ==
  /\ pc[c] = "closing" /\ t \in hand[c]
  /\ CloseTunnel(t) /\ Hold(c, hand[c] \ {t})
  /\ UNCHANGED <<tunnels, owner, lock, pc, arg, hist>>

MutClosed(c) ==
  /\ pc[c] = "closing" /\ Hold(c, {}) /\ Goto(c, "idle")
  /\ UNCHANGED <<tunnels, ws, owner, lock, arg, panicked, hist>>
Closed(c) ==
  /\ pc[c] = "closing" /\ hand[c] = {} /\ Goto(c, "idle")
  /\ UNCHANGED <<tunnels, ws, owner, lock, arg, hand, panicked, hist>>

-----------------------------------------------------------------------------
(* Send: Get under the lock, then WSClient.Send on what was found, which   *)
(* may have been closed since; no session is an error.                     *)
Get(c, p) ==
  /\ Begin(c, p)
  /\ Hold(c, InMap({Key(p)})) /\ Goto(c, IF InMap({Key(p)}) = {} THEN "idle" ELSE "sending")
  /\ UNCHANGED <<tunnels, ws, owner, lock, panicked, hist>>

Send(c) ==
  /\ pc[c] = "sending" /\ Hold(c, {}) /\ Goto(c, "idle")
  /\ UNCHANGED <<tunnels, ws, owner, lock, arg, panicked, hist>>

Continue(c) ==
  \/ Replace(c) \/ ConnectFails(c) \/ Publish(c) \/ Closed(c) \/ Send(c)
  \/ \E t \in Tunnels : Connect(c, t) \/ CloseNext(c, t)

Next ==
  /\ ~panicked
  /\ \E c \in Callers :
       \/ \E p \in Pairs : Open(c, p) \/ Close(c, p) \/ Get(c, p)
       \/ CloseAll(c)
       \/ Continue(c)

Spec == Init /\ [][Next]_vars

(* A goroutine in a call goes on; a waiting Lock is granted in the end     *)
(* (sync.Mutex hands the lock to a waiter that starves).                   *)
FairSpec == Spec /\ \A c \in Callers : WF_vars(Continue(c)) /\ SF_vars(Publish(c))

-----------------------------------------------------------------------------
(* Type invariant; what a caller holds fits what it is doing.              *)
HandFits ==
  \A c \in Callers :
    /\ pc[c] \in {"idle", "connecting"} => hand[c] = {}
    /\ pc[c] \in {"replacing", "publishing", "sending"} => \E t \in Tunnels : hand[c] = {t}
    /\ lock = c <=> pc[c] = "replacing"
TypeOK ==
  /\ tunnels \in [Pairs -> Tunnels \cup {NoTunnel}]
  /\ ws \in [Tunnels -> {"unused", "live", "closed"}] /\ owner \in [Tunnels -> Pairs]
  /\ lock \in Callers \cup {Nobody}
  /\ pc \in [Callers -> {"idle", "replacing", "connecting", "publishing", "closing", "sending"}]
  /\ arg \in [Callers -> Pairs] /\ hand \in [Callers -> SUBSET Tunnels]
  /\ HandFits
  /\ published \subseteq Tunnels /\ raced \subseteq Pairs /\ panicked \in BOOLEAN

(* "User A's messages are never visible to User B": the map, and a caller  *)
(* that opens or sends, only ever reach a tunnel of the very pair asked.   *)
Isolation ==
  /\ \A p \in Pairs : tunnels[Key(p)] # NoTunnel => owner[tunnels[Key(p)]] = p
  /\ \A c \in Callers : pc[c] \in {"replacing", "publishing", "sending"} =>
       \A t \in hand[c] : owner[t] = arg[c]

(* However Open, Close and CloseAll overlap, no tunnel is closed twice:    *)
(* WSClient.Close would close a closed channel and end the process.        *)
ClosedOnce == ~panicked

(* While the lock is free, the map holds no tunnel that has been closed or *)
(* that somebody else is about to close.                                   *)
MapHoldsLive ==
  lock = Nobody => \A t \in InMap(Pairs) :
    ws[t] = "live" /\ \A c \in Callers : pc[c] = "closing" => t \notin hand[c]

(* The inductive invariant: a tunnel has one owner at a time, the map or   *)
(* the one caller that is to publish or to close it, and is live with it.  *)
Owns(c) == pc[c] \in {"publishing", "closing"}
HandInv ==
  \A c \in Callers :
    /\ Owns(c) => \A t \in hand[c] : ws[t] = "live" /\ \A d \in Callers \ {c} : Owns(d) => t \notin hand[d]
    /\ pc[c] = "replacing" => tunnels[arg[c]] # NoTunnel /\ hand[c] = {tunnels[arg[c]]}
    /\ pc[c] = "sending" => \A t \in hand[c] : ws[t] # "unused"
MapInv ==
  \A p \in Pairs : tunnels[p] # NoTunnel =>
    /\ ws[tunnels[p]] = "live"
    /\ \A q \in Pairs : tunnels[q] = tunnels[p] => q = p
    /\ \A c \in Callers : Owns(c) => tunnels[p] \notin hand[c]
IInv == TypeOK /\ HandInv /\ MapInv /\ Isolation /\ ClosedOnce

(* A tunnel that was in the map and no longer is gets closed, whoever took *)
(* it out, unless two Opens for its pair overlapped.                       *)
RemovedIsClosed ==
  \A t \in Tunnels :
    t \in published /\ t \notin InMap(Pairs) ~> ws[t] = "closed" \/ owner[t] \in raced

-----------------------------------------------------------------------------
(* Open: "If a tunnel already exists for this (user, exchange) pair, it is *)
(* closed first": with no call under way, a pair has one live tunnel.      *)
OneTunnelPerPair ==
  (\A c \in Callers : pc[c] = "idle") =>
    \A t, u \in Tunnels : ws[t] = "live" /\ ws[u] = "live" /\ owner[t] = owner[u] => t = u
=============================================================================
