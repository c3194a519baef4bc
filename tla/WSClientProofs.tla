--------------------------- MODULE WSClientProofs ---------------------------
(***************************************************************************)
(* Safety of WSClient, for any number of subscribers and reconnections and *)
(* any capacities.  WSInv says where the one connection alive can be at    *)
(* each place of readLoop.                                                 *)
(***************************************************************************)
EXTENDS WSClient, TLAPS

USE ConnAssumption, CapAssumption

(* The delay grows by the factor until it meets its bound.                 *)
LEMMA NextDelayGrows ==
  ASSUME delay \in Nat, delay <= BackoffMax
  PROVE  /\ NextDelay \in Nat /\ NextDelay <= BackoffMax
         /\ NextDelay # delay => delay < NextDelay
<1> DEFINE d == delay * BackoffFactor
<1>1. d \in Nat /\ delay <= d
  BY BackoffAssumption
<1> HIDE DEF d
<1> QED
  BY <1>1, BackoffAssumption DEF NextDelay, d

LEMMA InitWSInv == Init => WSInv
<1> SUFFICES ASSUME Init PROVE WSInv
  OBVIOUS
<1>1. TypeOK /\ delay <= BackoffMax
  <2>1. /\ queue \in [Subs -> 0 .. SubCap] /\ outbox \in 0 .. OutboxCap
        /\ delay \in Nat /\ delay <= BackoffMax
    BY BackoffAssumption DEF Init
  <2> QED
    BY <2>1 DEF Init, TypeOK
<1> QED
  BY <1>1 DEF Init, WSInv, Starting, Connected, AtConn, LiveConn, ChannelsOpen, Outage, OutageIsVisible, PanicNeedsClose

-----------------------------------------------------------------------------
(* The callers of Subscribe and Send, consumers and the network only touch *)
(* channels, and connections that are alive.                               *)
LEMMA EnvironmentKeeps ==
  ASSUME WSInv,
         \/ \E s \in Subs : Subscribe(s) \/ Drain(s)
         \/ Send \/ ParentCancel
         \/ \E i \in ConnIds : PeerLost(i)
  PROVE  WSInv'
<1> USE DEF WSInv, link, chans, owner, rloop, wloop
<1>1. ASSUME NEW s \in Subs, Subscribe(s)
      PROVE  WSInv'
  <2>1. TypeOK'
    BY <1>1 DEF Subscribe, TypeOK
  <2> QED
    BY <1>1, <2>1 DEF Subscribe, TypeOK, Starting, Connected, AtConn, LiveConn, ChannelsOpen,
                      Outage, OutageIsVisible, PanicNeedsClose
<1>2. ASSUME NEW s \in Subs, Drain(s)
      PROVE  WSInv'
  <2>1. TypeOK'
    BY <1>2 DEF Drain, TypeOK
  <2> QED
    BY <1>2, <2>1 DEF Drain, Starting, Connected, AtConn, LiveConn, ChannelsOpen,
                      Outage, OutageIsVisible, PanicNeedsClose
<1>3. CASE Send
  <2>1. outbox' \in 0 .. OutboxCap
    BY <1>3 DEF Send, TypeOK
  <2>2. TypeOK'
    BY <1>3, <2>1 DEF Send, TypeOK
  <2> QED
    BY <1>3, <2>2 DEF Send, Starting, Connected, AtConn, LiveConn, ChannelsOpen,
                      Outage, OutageIsVisible, PanicNeedsClose
<1>4. CASE ParentCancel
  <2>1. TypeOK'
    BY <1>4 DEF ParentCancel, TypeOK
  <2> QED
    BY <1>4, <2>1 DEF ParentCancel, Starting, Connected, AtConn, LiveConn, ChannelsOpen,
                      Outage, OutageIsVisible, PanicNeedsClose
<1>5. ASSUME NEW i \in ConnIds, PeerLost(i)
      PROVE  WSInv'
  <2>1. TypeOK'
    BY <1>5 DEF PeerLost, TypeOK
  <2>2. LiveConn'
    BY <1>5 DEF PeerLost, TypeOK, LiveConn
  <2> QED
    BY <1>5, <2>1, <2>2 DEF PeerLost, Starting, Connected, AtConn, ChannelsOpen,
                            Outage, OutageIsVisible, PanicNeedsClose
<1> QED
  BY <1>1, <1>2, <1>3, <1>4, <1>5

(* Connect starts both loops once its connection is in place; Close only   *)
(* takes away.                                                             *)
LEMMA OwnerKeeps ==
  ASSUME WSInv,
         \/ \E i \in ConnIds : ConnectDials(i)
         \/ ConnectStarts \/ CloseCancels \/ Close
  PROVE  WSInv'
<1> USE DEF WSInv, link, chans, owner, rloop, wloop
<1>1. ASSUME NEW i \in ConnIds, ConnectDials(i)
      PROVE  WSInv'
  <2>1. TypeOK'
    BY <1>1 DEF ConnectDials, Dialed, Publish, TypeOK
  <2>2. \A j \in ConnIds : sock[j] = "closed"
    BY <1>1 DEF ConnectDials, LiveConn, Starting
  <2>3. LiveConn'
    BY <1>1, <2>2 DEF ConnectDials, Dialed, Publish, TypeOK, LiveConn, Starting
  <2>4. Outage' /\ OutageIsVisible'
    BY <1>1 DEF ConnectDials, Dialed, Publish, TypeOK, Starting, Outage, OutageIsVisible
  <2> QED
    BY <1>1, <2>1, <2>3, <2>4 DEF ConnectDials, Publish, Starting, Connected, AtConn, ChannelsOpen,
                                  PanicNeedsClose
<1>2. CASE ConnectStarts
  <2>1. TypeOK'
    BY <1>2 DEF ConnectStarts, TypeOK
  <2> QED
    BY <1>2, <2>1 DEF ConnectStarts, Starting, Connected, AtConn, LiveConn, ChannelsOpen,
                      Outage, OutageIsVisible, PanicNeedsClose
<1>3. CASE CloseCancels
  <2>1. TypeOK'
    BY <1>3 DEF CloseCancels, TypeOK
  <2> QED
    BY <1>3, <2>1 DEF CloseCancels, Starting, Connected, AtConn, LiveConn, ChannelsOpen,
                      Outage, OutageIsVisible, PanicNeedsClose
<1>4. CASE CloseConn
  <2>1. TypeOK'
    BY <1>4 DEF CloseConn, TypeOK
  <2>2. LiveConn'
    BY <1>4 DEF CloseConn, TypeOK, LiveConn
  <2> QED
    BY <1>4, <2>1, <2>2 DEF CloseConn, Starting, Connected, AtConn, ChannelsOpen,
                            Outage, OutageIsVisible, PanicNeedsClose
<1>5. ASSUME NEW s \in Subs, CloseSub(s)
      PROVE  WSInv'
  <2>1. TypeOK'
    BY <1>5 DEF CloseSub, TypeOK
  <2> QED
    BY <1>5, <2>1 DEF CloseSub, TypeOK, Starting, Connected, AtConn, LiveConn, ChannelsOpen,
                      Outage, OutageIsVisible, PanicNeedsClose
<1>6. CASE CloseDone
  <2>1. TypeOK'
    BY <1>6 DEF CloseDone, TypeOK
  <2> QED
    BY <1>6, <2>1 DEF CloseDone, Starting, Connected, AtConn, LiveConn, ChannelsOpen,
                      Outage, OutageIsVisible, PanicNeedsClose
<1> QED
  BY <1>1, <1>2, <1>3, <1>4, <1>5, <1>6 DEF Close

-----------------------------------------------------------------------------
(* readLoop reads from the published connection and fans out.  A delivery  *)
(* panics on a closed channel, and only Close closes one.                  *)
LEMMA ReadingKeeps ==
  ASSUME WSInv,
         \/ TakeConn \/ ReadMessage \/ ReadFails
         \/ FanOut \/ FannedOut \/ \E s \in Subs : Deliver(s)
  PROVE  WSInv'
<1> USE DEF WSInv, link, chans, owner, rloop, wloop
<1>1. CASE TakeConn
  <2>1. TypeOK'
    BY <1>1 DEF TakeConn, TypeOK
  <2>2. conn # NoConn
    BY <1>1 DEF TakeConn, Connected
  <2> QED
    BY <1>1, <2>1, <2>2 DEF TakeConn, Starting, Connected, AtConn, LiveConn, ChannelsOpen,
                            Outage, OutageIsVisible, PanicNeedsClose
<1>2. CASE ReadMessage
  <2>1. TypeOK'
    BY <1>2 DEF ReadMessage, TypeOK
  <2> QED
    BY <1>2, <2>1 DEF ReadMessage, Starting, Connected, AtConn, LiveConn, ChannelsOpen,
                      Outage, OutageIsVisible, PanicNeedsClose
<1>3. CASE ReadFails
  <2>1. rconn = conn /\ conn \in ConnIds
    BY <1>3 DEF ReadFails, AtConn, Connected
  <2>2. TypeOK'
    BY <1>3, <2>1 DEF ReadFails, TypeOK
  <2>3. LiveConn'
    BY <1>3, <2>1 DEF ReadFails, TypeOK, LiveConn
  <2> QED
    BY <1>3, <2>1, <2>2, <2>3 DEF ReadFails, Starting, Connected, AtConn, ChannelsOpen,
                                  Outage, OutageIsVisible, PanicNeedsClose
<1>4. CASE FanOut \/ FannedOut
  <2>1. TypeOK'
    BY <1>4 DEF FanOut, FannedOut, TypeOK
  <2> QED
    BY <1>4, <2>1 DEF FanOut, FannedOut, Starting, Connected, AtConn, LiveConn, ChannelsOpen,
                      Outage, OutageIsVisible, PanicNeedsClose
<1>5. ASSUME NEW s \in Subs, Deliver(s)
      PROVE  WSInv'
  <2>1. TypeOK'
    BY <1>5 DEF Deliver, TypeOK
  <2> QED
    BY <1>5, <2>1 DEF Deliver, Starting, Connected, AtConn, LiveConn, ChannelsOpen,
                      Outage, OutageIsVisible, PanicNeedsClose
<1> QED
  BY <1>1, <1>2, <1>3, <1>4, <1>5

(* reconnect: no connection is alive until the dial that succeeds, and the *)
(* circuit is open until the new connection is published.                  *)
LEMMA ReconnectKeeps ==
  ASSUME WSInv,
         \/ OpenCircuit \/ BackoffEnds \/ DialFails \/ PublishConn \/ CloseCircuit
         \/ \E i \in ConnIds : DialSucceeds(i)
  PROVE  WSInv'
<1> USE DEF WSInv, link, chans, owner, rloop, wloop
<1>1. CASE OpenCircuit
  <2>1. TypeOK' /\ delay' <= BackoffMax
    BY <1>1, BackoffAssumption DEF OpenCircuit, TypeOK
  <2> QED
    BY <1>1, <2>1 DEF OpenCircuit, Starting, Connected, AtConn, LiveConn, ChannelsOpen,
                      Outage, OutageIsVisible, PanicNeedsClose
<1>2. CASE BackoffEnds
  <2>1. TypeOK'
    BY <1>2 DEF BackoffEnds, TypeOK
  <2> QED
    BY <1>2, <2>1 DEF BackoffEnds, Starting, Connected, AtConn, LiveConn, ChannelsOpen,
                      Outage, OutageIsVisible, PanicNeedsClose
<1>3. CASE DialFails
  <2>1. delay' \in Nat /\ delay' <= BackoffMax
    BY <1>3, NextDelayGrows DEF DialFails, TypeOK
  <2>2. TypeOK'
    BY <1>3, <2>1 DEF DialFails, TypeOK
  <2> QED
    BY <1>3, <2>1, <2>2 DEF DialFails, Starting, Connected, AtConn, LiveConn, ChannelsOpen,
                            Outage, OutageIsVisible, PanicNeedsClose
<1>4. ASSUME NEW i \in ConnIds, DialSucceeds(i)
      PROVE  WSInv'
  <2>1. TypeOK'
    BY <1>4 DEF DialSucceeds, Dialed, TypeOK
  <2>2. \A j \in ConnIds : sock[j] = "closed"
    BY <1>4 DEF DialSucceeds, LiveConn
  <2>3. LiveConn'
    BY <1>4, <2>2 DEF DialSucceeds, Dialed, TypeOK, LiveConn
  <2>4. circuit = "open" /\ sock'[i] # "closed"
    BY <1>4 DEF DialSucceeds, Dialed, TypeOK, Outage
  <2>5. Outage' /\ OutageIsVisible'
    BY <1>4, <2>4 DEF DialSucceeds, Outage, OutageIsVisible, Starting
  <2> QED
    BY <1>4, <2>1, <2>3, <2>5 DEF DialSucceeds, Starting, Connected, AtConn, ChannelsOpen,
                                  PanicNeedsClose
<1>5. CASE PublishConn
  <2>1. TypeOK'
    BY <1>5 DEF PublishConn, Publish, TypeOK
  <2> QED
    BY <1>5, <2>1 DEF PublishConn, Publish, Starting, Connected, AtConn, LiveConn, ChannelsOpen,
                      Outage, OutageIsVisible, PanicNeedsClose
<1>6. CASE CloseCircuit
  <2>1. TypeOK'
    BY <1>6 DEF CloseCircuit, TypeOK
  <2>2. conn # NoConn /\ user \notin {"closingSubs", "closed"} => sock[conn] # "closed"
    BY <1>6 DEF CloseCircuit, TypeOK, Outage
  <2> QED
    BY <1>6, <2>1, <2>2 DEF CloseCircuit, Starting, Connected, AtConn, LiveConn, ChannelsOpen,
                            Outage, OutageIsVisible, PanicNeedsClose
<1> QED
  BY <1>1, <1>2, <1>3, <1>4, <1>5, <1>6

(* writeLoop always finds a connection.                                    *)
LEMMA WriteLoopKeeps ==
  ASSUME WSInv, WriteLoop
  PROVE  WSInv'
<1> USE DEF WSInv, link, chans, owner, rloop, wloop
<1>1. CASE WriteConn
  <2>1. TypeOK'
    BY <1>1 DEF WriteConn, TypeOK
  <2>2. conn # NoConn
    BY <1>1 DEF WriteConn, Connected
  <2> QED
    BY <1>1, <2>1, <2>2 DEF WriteConn, Starting, Connected, AtConn, LiveConn, ChannelsOpen,
                            Outage, OutageIsVisible, PanicNeedsClose
<1>2. CASE WriteTakes \/ WriteMessage \/ WriteStops
  <2>1. TypeOK'
    BY <1>2 DEF WriteTakes, WriteMessage, WriteStops, TypeOK
  <2> QED
    BY <1>2, <2>1 DEF WriteTakes, WriteMessage, WriteStops, Starting, Connected, AtConn, LiveConn,
                      ChannelsOpen, Outage, OutageIsVisible, PanicNeedsClose
<1> QED
  BY <1>1, <1>2 DEF WriteLoop

LEMMA NextWSInv == WSInv /\ [Next]_vars => WSInv'
<1> SUFFICES ASSUME WSInv, [Next]_vars PROVE WSInv'
  OBVIOUS
<1>1. CASE UNCHANGED vars
  BY <1>1 DEF vars, link, chans, owner, rloop, wloop, WSInv, TypeOK, Starting, Connected, AtConn,
              LiveConn, ChannelsOpen, Outage, OutageIsVisible, PanicNeedsClose
<1>2. CASE ConnectFails
  BY <1>1, <1>2 DEF ConnectFails
<1> QED
  BY <1>1, <1>2, EnvironmentKeeps, OwnerKeeps, ReadingKeeps, ReconnectKeeps, WriteLoopKeeps
     DEF Next, ReadLoop

THEOREM ClientInvariant == Spec => []WSInv
BY InitWSInv, NextWSInv, PTL DEF Spec

-----------------------------------------------------------------------------
(* The client's state keeps its types and its channels their capacities.   *)
THEOREM ClientTypeCorrect == Spec => []TypeOK
<1>1. WSInv => TypeOK
  BY DEF WSInv
<1> QED
  BY ClientInvariant, <1>1, PTL

(* However often it reconnects, the client never holds two connections.    *)
THEOREM SocketsClosed == Spec => []OneSocket
<1>1. WSInv => OneSocket
  BY DEF WSInv, LiveConn, OneSocket
<1> QED
  BY ClientInvariant, <1>1, PTL

(* Between Connect and Close, a closed circuit means a connection that the *)
(* client has not closed, but for the moment between a failed read's Close *)
(* and the store that opens the circuit (websocket.go:236 and 193).        *)
THEOREM OutagesShow == Spec => []OutageIsVisible
<1>1. WSInv => OutageIsVisible
  BY DEF WSInv
<1> QED
  BY ClientInvariant, <1>1, PTL

(* Neither loop runs without a connection, and no delivery panics before   *)
(* Close has begun.                                                        *)
THEOREM NoPanicBeforeClose == Spec => []PanicNeedsClose
<1>1. WSInv => PanicNeedsClose
  BY DEF WSInv
<1> QED
  BY ClientInvariant, <1>1, PTL

(* Within an outage the delay only grows, up to its bound.                 *)
THEOREM BackoffGrows == Spec => BackoffShape
<1> DEFINE Shaped ==
      delay' # delay =>
        \/ reader = "dial" /\ delay < delay' /\ delay' <= BackoffMax
        \/ reader = "failed" /\ delay' = BackoffInitial
<1>1. WSInv /\ [Next]_vars => [Shaped]_vars
  <2> SUFFICES ASSUME WSInv, Next, delay' # delay
               PROVE  Shaped
    OBVIOUS
  <2>1. OpenCircuit \/ DialFails
    BY DEF Next, link, chans, owner, rloop, wloop, vars, Subscribe, Drain, Send, ParentCancel, PeerLost,
           ConnectDials, ConnectFails, ConnectStarts, CloseCancels, Close, CloseConn, CloseDone, CloseSub,
           ReadLoop, TakeConn, ReadMessage, ReadFails, FanOut, FannedOut, Deliver, BackoffEnds, PublishConn,
           CloseCircuit, DialSucceeds, WriteLoop, WriteTakes, WriteConn, WriteMessage, WriteStops
  <2>2. CASE OpenCircuit
    BY <2>2 DEF OpenCircuit
  <2>3. CASE DialFails
    BY <2>3, NextDelayGrows DEF DialFails, WSInv, TypeOK
  <2> QED
    BY <2>1, <2>2, <2>3
<1> QED
  BY <1>1, ClientInvariant, PTL DEF Spec, BackoffShape
=============================================================================
