------------------------- MODULE TunnelManagerProofs -------------------------
(***************************************************************************)
(* Safety of TunnelManager, for any number of callers, pairs and tunnels.  *)
(* IInv says that a tunnel has one owner at a time: the map, the caller    *)
(* that is to publish it, or the caller that is to close it.               *)
(***************************************************************************)
EXTENDS TunnelManager, TLAPS

USE TunnelAssumption DEF Key, hist

(* No tunnel is in use at the start.                                       *)
LEMMA InitIInv == Init => IInv
<1>1. (CHOOSE p \in Pairs : TRUE) \in Pairs
  <2>1. PICK u \in Users, x \in Exchanges : <<u, x>> \in Pairs
    BY DEF Pairs
  <2> QED
    BY <2>1
<1>2. Init => TypeOK
  <2> DEFINE first == CHOOSE p \in Pairs : TRUE
  <2>1. first \in Pairs
    BY <1>1
  <2>2. Init => owner = [t \in Tunnels |-> first] /\ arg = [c \in Callers |-> first]
    BY DEF Init
  <2> HIDE DEF first
  <2>3. Init => owner \in [Tunnels -> Pairs] /\ arg \in [Callers -> Pairs]
    BY <2>1, <2>2
  <2> QED
    BY <2>3, ZenonT(60) DEF Init, TypeOK, HandFits
<1> QED
  BY <1>2 DEF Init, IInv, HandInv, MapInv, Isolation, ClosedOnce, Owns

(* Open takes the tunnel it must replace, and the lock with it.            *)
LEMMA OpenKeeps ==
  ASSUME NEW c \in Callers, NEW p \in Pairs, IInv, Open(c, p)
  PROVE  IInv'
<1> USE DEF IInv, TypeOK, Goto, Open, Begin, Hold, InMap
<1>1. HandFits'
  BY DEF HandFits
<1>2. TypeOK'
  BY <1>1 DEF HandFits
<1>3. HandInv'
  BY DEF HandFits, HandInv, MapInv, Owns
<1>4. MapInv'
  BY DEF HandFits, HandInv, MapInv, Owns
<1>5. Isolation'
  BY DEF HandFits, HandInv, MapInv, Owns, Isolation
<1>6. ClosedOnce'
  BY DEF ClosedOnce
<1> QED
  BY <1>1, <1>2, <1>3, <1>4, <1>5, <1>6

(* The tunnel Open replaces is live, since it was in the map under the     *)
(* lock, and is closed and out of the map in one critical section.         *)
LEMMA ReplaceKeeps ==
  ASSUME NEW c \in Callers, IInv, Replace(c)
  PROVE  IInv'
<1> USE DEF IInv, TypeOK, Goto, Replace, TakeOut, CloseTunnel, Hold
<1>1. HandFits'
  BY DEF HandFits
<1>2. TypeOK'
  BY <1>1 DEF HandFits
<1>3. HandInv'
  BY DEF HandFits, HandInv, MapInv, Owns
<1>4. MapInv'
  BY DEF HandFits, HandInv, MapInv, Owns
<1>5. Isolation'
  BY DEF HandFits, HandInv, MapInv, Owns, Isolation
<1>6. ClosedOnce'
  BY DEF ClosedOnce, HandInv, HandFits, MapInv
<1> QED
  BY <1>1, <1>2, <1>3, <1>4, <1>5, <1>6

(* A failed connection leaves nothing behind.                              *)
LEMMA ConnectFailsKeeps ==
  ASSUME NEW c \in Callers, IInv, ConnectFails(c)
  PROVE  IInv'
<1> USE DEF IInv, TypeOK, Goto, ConnectFails
<1>1. HandFits'
  BY DEF HandFits
<1>2. TypeOK'
  BY <1>1 DEF HandFits
<1>3. HandInv'
  BY DEF HandFits, HandInv, MapInv, Owns
<1>4. MapInv'
  BY DEF HandFits, HandInv, MapInv, Owns
<1>5. Isolation'
  BY DEF HandFits, HandInv, MapInv, Owns, Isolation
<1>6. ClosedOnce'
  BY DEF ClosedOnce
<1> QED
  BY <1>1, <1>2, <1>3, <1>4, <1>5, <1>6

(* A connected tunnel is new: nobody else holds it.                        *)
LEMMA ConnectKeeps ==
  ASSUME NEW c \in Callers, NEW t \in Tunnels, IInv, Connect(c, t)
  PROVE  IInv'
<1> USE DEF IInv, TypeOK, Goto, Connect, Hold
<1>1. HandFits'
  BY DEF HandFits
<1>2. TypeOK'
  BY <1>1 DEF HandFits
<1>3. HandInv'
  BY DEF HandFits, HandInv, MapInv, Owns
<1>4. MapInv'
  BY DEF HandFits, HandInv, MapInv, Owns
<1>5. Isolation'
  BY DEF HandFits, HandInv, MapInv, Owns, Isolation
<1>6. ClosedOnce'
  BY DEF ClosedOnce
<1> QED
  BY <1>1, <1>2, <1>3, <1>4, <1>5, <1>6

(* Publishing hands the tunnel over to the map.                            *)
LEMMA PublishKeeps ==
  ASSUME NEW c \in Callers, IInv, Publish(c)
  PROVE  IInv'
<1> USE DEF IInv, TypeOK, Goto, Publish, Hold
<1>1. HandFits'
  BY DEF HandFits
<1>2. TypeOK'
  BY <1>1 DEF HandFits
<1>3. HandInv'
  BY DEF HandFits, HandInv, MapInv, Owns
<1>4. MapInv'
  BY DEF HandFits, HandInv, MapInv, Owns
<1>5. Isolation'
  BY DEF HandFits, HandInv, MapInv, Owns, Isolation
<1>6. ClosedOnce'
  BY DEF ClosedOnce
<1> QED
  BY <1>1, <1>2, <1>3, <1>4, <1>5, <1>6

(* Close and CloseAll take tunnels out of the map before they close them.  *)
LEMMA TakeKeeps ==
  ASSUME NEW c \in Callers, NEW p \in Pairs, NEW ks \in SUBSET Pairs,
         IInv, Begin(c, p), Take(c, ks)
  PROVE  IInv'
<1> USE DEF IInv, TypeOK, Goto, Begin, Take, TakeOut, InMap, Hold
<1>1. HandFits'
  BY DEF HandFits
<1>2. TypeOK'
  BY <1>1 DEF HandFits
<1>3. HandInv'
  BY DEF HandFits, HandInv, MapInv, Owns
<1>4. MapInv'
  BY DEF HandFits, HandInv, MapInv, Owns
<1>5. Isolation'
  BY DEF HandFits, HandInv, MapInv, Owns, Isolation
<1>6. ClosedOnce'
  BY DEF ClosedOnce
<1> QED
  BY <1>1, <1>2, <1>3, <1>4, <1>5, <1>6

(* A tunnel that a closer holds is live and nobody else's.                 *)
LEMMA CloseNextKeeps ==
  ASSUME NEW c \in Callers, NEW t \in Tunnels, IInv, CloseNext(c, t)
  PROVE  IInv'
<1> USE DEF IInv, TypeOK, Goto, CloseNext, CloseTunnel, Hold
<1>1. HandFits'
  BY DEF HandFits
<1>2. TypeOK'
  BY <1>1 DEF HandFits
<1>3. HandInv'
  BY DEF HandFits, HandInv, MapInv, Owns
<1>4. MapInv'
  BY DEF HandFits, HandInv, MapInv, Owns
<1>5. Isolation'
  BY DEF HandFits, HandInv, MapInv, Owns, Isolation
<1>6. ClosedOnce'
  BY DEF ClosedOnce, HandInv, Owns
<1> QED
  BY <1>1, <1>2, <1>3, <1>4, <1>5, <1>6

(* A closer that is done holds nothing.                                    *)
LEMMA ClosedKeeps ==
  ASSUME NEW c \in Callers, IInv, Closed(c)
  PROVE  IInv'
<1> USE DEF IInv, TypeOK, Goto, Closed
<1>1. HandFits'
  BY DEF HandFits
<1>2. TypeOK'
  BY <1>1 DEF HandFits
<1>3. HandInv'
  BY DEF HandFits, HandInv, MapInv, Owns
<1>4. MapInv'
  BY DEF HandFits, HandInv, MapInv, Owns
<1>5. Isolation'
  BY DEF HandFits, HandInv, MapInv, Owns, Isolation
<1>6. ClosedOnce'
  BY DEF ClosedOnce
<1> QED
  BY <1>1, <1>2, <1>3, <1>4, <1>5, <1>6

(* Get finds a tunnel of the pair asked for.                               *)
LEMMA GetKeeps ==
  ASSUME NEW c \in Callers, NEW p \in Pairs, IInv, Get(c, p)
  PROVE  IInv'
<1> USE DEF IInv, TypeOK, Goto, Begin, Get, InMap, Hold
<1>1. HandFits'
  BY DEF HandFits
<1>2. TypeOK'
  BY <1>1 DEF HandFits
<1>3. HandInv'
  BY DEF HandFits, HandInv, MapInv, Owns
<1>4. MapInv'
  BY DEF HandFits, HandInv, MapInv, Owns
<1>5. Isolation'
  BY DEF HandFits, HandInv, MapInv, Owns, Isolation
<1>6. ClosedOnce'
  BY DEF ClosedOnce
<1> QED
  BY <1>1, <1>2, <1>3, <1>4, <1>5, <1>6

(* Send changes no tunnel.                                                 *)
LEMMA SendKeeps ==
  ASSUME NEW c \in Callers, IInv, Send(c)
  PROVE  IInv'
<1> USE DEF IInv, TypeOK, Goto, Send, Hold
<1>1. HandFits'
  BY DEF HandFits
<1>2. TypeOK'
  BY <1>1 DEF HandFits
<1>3. HandInv'
  BY DEF HandFits, HandInv, MapInv, Owns
<1>4. MapInv'
  BY DEF HandFits, HandInv, MapInv, Owns
<1>5. Isolation'
  BY DEF HandFits, HandInv, MapInv, Owns, Isolation
<1>6. ClosedOnce'
  BY DEF ClosedOnce
<1> QED
  BY <1>1, <1>2, <1>3, <1>4, <1>5, <1>6

(* Every step of every caller keeps the invariant.                         *)
LEMMA NextIInv == IInv /\ [Next]_vars => IInv'
<1> SUFFICES ASSUME IInv, [Next]_vars
             PROVE  IInv'
  OBVIOUS
<1>1. CASE UNCHANGED vars
  BY <1>1 DEF vars, hist, IInv, TypeOK, HandFits, HandInv, MapInv, Isolation, ClosedOnce, Owns
<1>2. ASSUME NEW c \in Callers, NEW p \in Pairs, Open(c, p) \/ Close(c, p) \/ Get(c, p)
      PROVE  IInv'
  BY <1>2, OpenKeeps, TakeKeeps, GetKeeps DEF Close
<1>3. ASSUME NEW c \in Callers, CloseAll(c)
      PROVE  IInv'
  <2>1. arg[c] \in Pairs
    BY DEF IInv, TypeOK
  <2> QED
    BY <1>3, <2>1, TakeKeeps DEF CloseAll
<1>4. ASSUME NEW c \in Callers, Continue(c)
      PROVE  IInv'
  BY <1>4, ReplaceKeeps, ConnectFailsKeeps, ConnectKeeps, PublishKeeps, CloseNextKeeps, ClosedKeeps,
     SendKeeps DEF Continue
<1> QED
  BY <1>1, <1>2, <1>3, <1>4 DEF Next

-----------------------------------------------------------------------------
(* The manager's state keeps its types, and what a caller holds fits what  *)
(* it is doing.                                                            *)
THEOREM TypeCorrect == Spec => []TypeOK
<1>1. IInv => TypeOK
  BY DEF IInv
<1> QED
  BY InitIInv, NextIInv, <1>1, PTL DEF Spec

(* No user ever reaches another user's tunnel.                             *)
THEOREM UsersIsolated == Spec => []Isolation
<1>1. IInv => Isolation
  BY DEF IInv
<1> QED
  BY InitIInv, NextIInv, <1>1, PTL DEF Spec

(* No interleaving closes a tunnel twice, so none panics.                  *)
THEOREM NeverClosedTwice == Spec => []ClosedOnce
<1>1. IInv => ClosedOnce
  BY DEF IInv
<1> QED
  BY InitIInv, NextIInv, <1>1, PTL DEF Spec

(* Whoever gets the lock finds only live tunnels in the map.               *)
THEOREM LookupFindsLive == Spec => []MapHoldsLive
<1>1. IInv => MapHoldsLive
  BY DEF IInv, MapInv, MapHoldsLive, InMap, Owns
<1> QED
  BY InitIInv, NextIInv, <1>1, PTL DEF Spec
=============================================================================
