------------------------ MODULE SignerHandlerProofs ------------------------
(***************************************************************************)
(* The handlers and main use the session manager only through its          *)
(* operations, so what is proved of the manager holds under any number of  *)
(* concurrent requests; and an answered order never names a key older than *)
(* the one that signed it.                                                 *)
(***************************************************************************)
EXTENDS SignerHandler, SessionManagerProofs, FiniteSetTheorems, WellFoundedInduction

(* Steps of SignerHandler are steps of SessionManager, or leave it alone.  *)
LEMMA StepIsManagerStep == HIInv /\ [HNext]_hvars => [Next]_vars
<1> SUFFICES ASSUME HIInv, [HNext]_hvars PROVE [Next]_vars
  OBVIOUS
<1>1. ASSUME NEW r \in Requests, Handle(r) PROVE [Next]_vars
  <2>1. CASE RefuseNoSession(r)
    BY <2>1 DEF RefuseNoSession, Refuse, Next
  <2>2. CASE RefuseExpired(r)
    BY <2>2 DEF RefuseExpired, Refuse, Next
  <2>3. CASE RefuseOverLimit(r)
    BY <2>3 DEF RefuseOverLimit, Refuse, SignOverLimit
  <2>4. CASE RefuseInternal(r)
    BY <2>4 DEF RefuseInternal, Refuse, SignFails
  <2>5. CASE Signed(r)
    <3>1. rpc[r].value \in Values /\ SignOK(rpc[r].value)
      BY <2>5 DEF Signed, HIInv
    <3> QED
      BY <3>1 DEF Next
  <2>6. CASE ReadAddress(r)
    BY <2>6 DEF ReadAddress
  <2> QED
    BY <1>1, <2>1, <2>2, <2>3, <2>4, <2>5, <2>6 DEF Handle
<1>2. CASE Shutdown \/ ServeFails
  BY <1>2 DEF Shutdown, ShutdownDestroy, BeginGracefulStop, FinishGracefulStop, ServeFails, Next
<1>3. CASE Owner \/ Clock
  BY <1>3 DEF Owner, Clock, Next
<1> QED
  BY <1>1, <1>2, <1>3 DEF HNext, hvars, Call, CallInvalid, Signal

LEMMA InitHIInv == HInit => HIInv
<1> SUFFICES ASSUME HInit PROVE HIInv
  OBVIOUS
<1>1. IInv
  BY InitIInv DEF HInit
<1>2. \A r \in Requests : rpc[r] = NotCalled
  BY DEF HInit
<1>3. HTypeOK
  BY <1>1 DEF HInit, HTypeOK, IInv, NotCalled, Entry, RpcState, Statuses
<1> QED
  BY <1>1, <1>2, <1>3 DEF HIInv, AddressNeverOutdated, NotCalled, Entry

(* What the history says of old activations survives every step.           *)
LEMMA NextHIInv == HIInv /\ [HNext]_hvars => HIInv'
<1> SUFFICES ASSUME HIInv, [HNext]_hvars PROVE HIInv'
  OBVIOUS
<1>1. [Next]_vars
  BY StepIsManagerStep
<1>2. IInv'
  BY <1>1, NextIInv DEF HIInv
<1>3. /\ Len(grants) \in Nat /\ Len(grants') \in Nat /\ Len(grants) <= Len(grants')
      /\ \A i \in 1 .. Len(grants) : grants'[i].key = grants[i].key
  BY <1>1, HistoryKept DEF HIInv
<1> DEFINE Good(r) ==
      /\ rpc[r].pc = "received" => rpc[r].value \in Values
      /\ rpc[r].status = "ok" => rpc[r].pc = "replied"
      /\ rpc[r].pc = "signed" \/ rpc[r].status = "ok" => rpc[r].signedIn \in 1 .. Current
      /\ rpc[r].status = "ok" =>
           rpc[r].addr \in {NoKey} \cup {grants[i].key : i \in rpc[r].signedIn .. Current}
<1>4. \A r \in Requests : Good(r)
  BY DEF HIInv, AddressNeverOutdated
<1>5. ASSUME NEW r \in Requests, rpc'[r] = rpc[r] PROVE Good(r)'
  <2> DEFINE named  == {grants[i].key : i \in rpc[r].signedIn .. Len(grants)}
             named1 == {grants'[i].key : i \in rpc[r].signedIn .. Len(grants')}
  <2>1. ASSUME rpc[r].signedIn \in 1 .. Len(grants)
        PROVE  named \subseteq named1
    <3> SUFFICES ASSUME NEW i \in rpc[r].signedIn .. Len(grants)
                 PROVE  grants[i].key \in named1
      OBVIOUS
    <3>1. i \in 1 .. Len(grants) /\ i \in rpc[r].signedIn .. Len(grants')
      BY <2>1, <1>3
    <3> QED
      BY <3>1, <1>3
  <2>2. rpc[r].signedIn \in 1 .. Len(grants) => rpc[r].signedIn \in 1 .. Len(grants')
    BY <1>3
  <2> HIDE DEF named, named1
  <2>3. rpc[r].status = "ok" => rpc[r].addr \in {NoKey} \cup named
    BY <1>4 DEF Current, named
  <2>4. rpc[r].status = "ok" => rpc[r].addr \in {NoKey} \cup named1
    BY <1>4, <2>1, <2>3 DEF Current
  <2>5. rpc'[r].status = "ok" =>
          rpc'[r].addr \in {NoKey} \cup {grants'[i].key : i \in rpc'[r].signedIn .. Len(grants')}
    BY <1>5, <2>4 DEF named1
  <2> QED
    BY <1>4, <1>5, <2>2, <2>5 DEF Current
<1>6. HTypeOK /\ Len(grants) \in Nat
  BY <1>3 DEF HIInv
<1>7. ASSUME UNCHANGED rpc, HTypeOK' PROVE HIInv'
  BY <1>2, <1>5, <1>7 DEF HIInv, AddressNeverOutdated
<1>8. CASE Signal \/ Shutdown \/ ServeFails \/ Owner \/ Clock \/ UNCHANGED hvars
  <2>1. UNCHANGED rpc
    BY <1>8 DEF Signal, Shutdown, ShutdownDestroy, BeginGracefulStop, FinishGracefulStop,
                ServeFails, Owner, Clock, hvars
  <2>2. /\ main' \in {"serving", "signalled", "destroyed", "draining", "stopped", "exited"}
        /\ atShutdown' \in Nat
    BY <1>6, <1>8 DEF Signal, Shutdown, ShutdownDestroy, BeginGracefulStop, FinishGracefulStop,
                      ServeFails, Owner, Clock, hvars, HTypeOK, Current
  <2>3. HTypeOK'
    BY <1>2, <1>6, <2>1, <2>2 DEF HTypeOK, IInv
  <2> QED
    BY <1>7, <2>1, <2>3
(* The steps of one request change that request only.                      *)
<1>9. ASSUME NEW r \in Requests, UNCHANGED <<main, atShutdown>>,
             NEW e \in RpcState, rpc' = [rpc EXCEPT ![r] = e], Good(r)'
      PROVE  HIInv'
  <2>1. HTypeOK'
    BY <1>2, <1>6, <1>9 DEF HTypeOK, IInv
  <2>2. ASSUME NEW q \in Requests, q # r PROVE rpc'[q] = rpc[q]
    BY <1>6, <1>9, <2>2 DEF HTypeOK
  <2>3. \A q \in Requests : Good(q)'
    BY <1>5, <1>9, <2>2
  <2> QED
    BY <1>2, <2>1, <2>3 DEF HIInv, AddressNeverOutdated
<1>10. DOMAIN rpc = Requests /\ \A r \in Requests : rpc[r] \in RpcState
  BY <1>6 DEF HTypeOK
<1>11. ASSUME NEW r \in Requests, NEW v \in Values, Call(r, v) PROVE HIInv'
  <2> DEFINE e == Entry("received", v, 0, "none", NoKey)
  <2>1. e \in RpcState /\ rpc' = [rpc EXCEPT ![r] = e]
    BY <1>11, AmountAssumption DEF Call, Entry, RpcState, Statuses
  <2>2. rpc'[r].pc = "received" /\ rpc'[r].status = "none" /\ rpc'[r].value \in Values
    <3>1. rpc'[r] = e
      BY <1>10, <2>1
    <3> QED
      BY <3>1 DEF Entry
  <2>3. Good(r)'
    BY <2>2
  <2> QED
    BY <1>9, <1>11, <2>1, <2>3 DEF Call
<1>12. ASSUME NEW r \in Requests, NEW status \in Statuses \ {"ok"}, Reply(r, status),
              UNCHANGED <<main, atShutdown>>
       PROVE  HIInv'
  <2> DEFINE e == Entry("replied", rpc[r].value, 0, status, NoKey)
  <2>1. rpc' = [rpc EXCEPT ![r] = e]
    BY <1>12 DEF Reply
  <2>2. e \in RpcState
    BY <1>10, <1>12 DEF Entry, RpcState
  <2>3. rpc'[r].pc = "replied" /\ rpc'[r].status # "ok"
    <3>1. rpc'[r] = e
      BY <1>10, <1>12, <2>1
    <3> QED
      BY <3>1, <1>12 DEF Entry
  <2>4. Good(r)'
    BY <2>3
  <2> QED
    BY <1>9, <1>12, <2>1, <2>2, <2>4
<1>13. ASSUME NEW r \in Requests, Signed(r) PROVE HIInv'
  <2> DEFINE e == Entry("signed", rpc[r].value, Current, "none", NoKey)
  <2>1. rpc' = [rpc EXCEPT ![r] = e]
    BY <1>13 DEF Signed
  <2>2. e \in RpcState
    BY <1>6, <1>10 DEF Entry, RpcState, Current, Statuses
  <2>3. Current \in 1 .. Len(grants')
    BY <1>3, <1>13 DEF Signed, SignOK, Admitted, HIInv, IInv, LedgerAgrees, Current
  <2>4. rpc'[r].pc = "signed" /\ rpc'[r].status = "none" /\ rpc'[r].signedIn = Current
    <3>1. rpc'[r] = e
      BY <1>10, <2>1
    <3> QED
      BY <3>1 DEF Entry
  <2>5. Good(r)'
    BY <2>3, <2>4 DEF Current
  <2> QED
    BY <1>9, <1>13, <2>1, <2>2, <2>5 DEF Signed
<1>14. ASSUME NEW r \in Requests, ReadAddress(r) PROVE HIInv'
  <2> DEFINE e == Entry("replied", rpc[r].value, rpc[r].signedIn, "ok", StatusAddress)
  <2>1. StatusAddress \in Keys \cup {NoKey}
    BY DEF StatusAddress, HIInv, IInv, TypeOK
  <2>2. rpc' = [rpc EXCEPT ![r] = e]
    BY <1>14 DEF ReadAddress
  <2>3. e \in RpcState
    BY <1>10, <2>1 DEF Entry, RpcState, Statuses
  <2>4. rpc[r].signedIn \in 1 .. Len(grants) /\ grants' = grants
    BY <1>4, <1>14 DEF ReadAddress, vars, Current
  <2>5. StatusAddress \in {NoKey} \cup {grants[i].key : i \in rpc[r].signedIn .. Len(grants)}
    <3>1. CASE enclave = NoKey \/ IsExpired
      BY <3>1 DEF StatusAddress
    <3>2. CASE enclave # NoKey /\ ~IsExpired
      <4>1. StatusAddress = grants[Len(grants)].key
        BY <3>2 DEF StatusAddress, HIInv, IInv, LedgerAgrees, Current
      <4>2. Len(grants) \in rpc[r].signedIn .. Len(grants)
        BY <2>4, <1>3
      <4> QED
        BY <4>1, <4>2
    <3> QED
      BY <3>1, <3>2
  <2>6. /\ rpc'[r].pc = "replied" /\ rpc'[r].signedIn = rpc[r].signedIn
        /\ rpc'[r].addr = StatusAddress
    <3>1. rpc'[r] = e
      BY <1>10, <2>2
    <3> QED
      BY <3>1 DEF Entry
  <2>7. Good(r)'
    BY <2>4, <2>5, <2>6 DEF Current
  <2> QED
    BY <1>9, <1>14, <2>2, <2>3, <2>7 DEF ReadAddress
<1>15. ASSUME NEW r \in Requests, CallInvalid(r) \/ Handle(r) PROVE HIInv'
  BY <1>12, <1>13, <1>14, <1>15
     DEF CallInvalid, Handle, Refuse, RefuseNoSession, RefuseExpired, RefuseOverLimit,
         RefuseInternal, Statuses
<1> QED
  BY <1>8, <1>11, <1>15 DEF HNext

-----------------------------------------------------------------------------
(* Requests, main and manager keep their types.                            *)
THEOREM HandlerTypeCorrect == HSpec => []HTypeOK
<1>1. HIInv => HTypeOK
  BY DEF HIInv
<1> QED
  BY InitHIInv, NextHIInv, <1>1, PTL DEF HSpec

(* The signer process as a whole is a session manager: SignOrder, the      *)
(* shutdown and the owner change it only by its operations.                *)
THEOREM HandlerImplementsManager == HSpec => ImplementsManager
<1>1. HInit => Init
  BY DEF HInit
<1> QED
  BY InitHIInv, NextHIInv, StepIsManagerStep, <1>1, PTL DEF HSpec, ImplementsManager, Spec

(* However many orders are signed at once, and whatever is activated or    *)
(* destroyed meanwhile, the amounts signed under an activation exceed its  *)
(* limit by no more than twice what its negative orders credited.          *)
THEOREM HandlerBudget == HSpec => []BudgetRespected
<1>1. HIInv => BudgetRespected
  BY DEF HIInv, IInv
<1> QED
  BY InitHIInv, NextHIInv, <1>1, PTL DEF HSpec

(* SignOrder reads the address after Sign has unlocked, so the answer may  *)
(* name a later key or none; it never names an earlier one.                *)
THEOREM AddressHolds == HSpec => []AddressNeverOutdated
<1>1. HIInv => AddressNeverOutdated
  BY DEF HIInv
<1> QED
  BY InitHIInv, NextHIInv, <1>1, PTL DEF HSpec

(* Every order is signed under an open grant, within its deadline and, but *)
(* for what negative orders gave back, its limit: the handlers implement   *)
(* the budget, not the manager alone.                                      *)
THEOREM HandlerImplementsBudget == HSpec => ImplementsBudget
  BY HandlerImplementsManager, Refinement, PTL DEF ImplementsManager

(* Only the end of the process takes a session that is not expired.        *)
THEOREM SessionsKept == HSpec => LiveSessionKept
<1>1. HIInv /\ [HNext]_hvars =>
        [enclave # NoKey /\ ~IsExpired /\ enclave' = NoKey => main' # main]_hvars
  <2> SUFFICES ASSUME HIInv, HNext, enclave # NoKey, ~IsExpired, enclave' = NoKey
               PROVE  main' # main
    BY DEF hvars, vars
  <2>1. ASSUME NEW r \in Requests, CallInvalid(r) \/ Handle(r) \/ \E v \in Values : Call(r, v)
        PROVE  FALSE
    BY <2>1 DEF CallInvalid, Call, Handle, RefuseNoSession, RefuseExpired, RefuseOverLimit,
         RefuseInternal, Refuse, Signed, ReadAddress, SignNoSession, SignExpired, SignOverLimit,
         SignFails, SignOK, vars
  <2>2. ~Owner /\ ~Clock
    BY KeysAssumption DEF Owner, Clock, Activate, ActivateInvalid, Tick, session, vars
  <2>3. CASE Signal \/ Shutdown \/ ServeFails
    BY <2>3 DEF Signal, Shutdown, ShutdownDestroy, BeginGracefulStop, FinishGracefulStop, ServeFails
  <2> QED
    BY <2>1, <2>2, <2>3 DEF HNext
<1> QED
  BY InitHIInv, NextHIInv, <1>1, PTL DEF HSpec, LiveSessionKept

LEMMA NextRevoked == HIInv /\ Revoked /\ [HNext]_hvars => Revoked'
<1> SUFFICES ASSUME HIInv, Revoked, [HNext]_hvars PROVE Revoked'
  OBVIOUS
<1>1. /\ Len(grants) \in Nat /\ Len(grants') \in Nat /\ Len(grants) <= Len(grants')
      /\ atShutdown \in Nat
  BY StepIsManagerStep, HistoryKept DEF HIInv, HTypeOK
<1>2. CASE UNCHANGED <<main, atShutdown>> /\ (enclave' # NoKey => enclave # NoKey)
  BY <1>1, <1>2 DEF Revoked, Current
<1>3. CASE Owner
  <2>1. ASSUME NEW k \in Keys, NEW lim \in Limits, Activate(k, lim)
        PROVE  Len(grants') = Len(grants) + 1
    <3>1. NewGrant(k, lim) \in Grant
      BY AmountAssumption, TimeAssumption DEF Grant, NewGrant, HIInv, IInv, TypeOK
    <3> QED
      BY <2>1, <3>1, GrantAppends DEF Activate, HIInv, IInv, TypeOK
  <2>2. ActivateInvalid => Revoked'
    BY <1>2, <1>3 DEF ActivateInvalid, Owner, vars
  <2> QED
    BY <1>1, <1>3, <2>1, <2>2 DEF Owner, Revoked, Current
<1>4. ASSUME NEW r \in Requests, CallInvalid(r) \/ Handle(r) \/ \E v \in Values : Call(r, v)
      PROVE  UNCHANGED <<main, atShutdown>> /\ (enclave' # NoKey => enclave # NoKey)
  BY <1>4 DEF CallInvalid, Call, Handle, RefuseNoSession, RefuseExpired, RefuseOverLimit,
       RefuseInternal, Refuse, Signed, ReadAddress, SignNoSession, SignExpired, SignOverLimit,
       SignFails, SignOK, DestroyLocked, vars
<1>5. CASE Signal \/ Shutdown \/ ServeFails \/ Clock \/ UNCHANGED hvars
  BY <1>1, <1>5 DEF Signal, Shutdown, ShutdownDestroy, BeginGracefulStop, FinishGracefulStop,
       ServeFails, Clock, Tick, Destroy, DestroyLocked, session, hvars, vars, Revoked, Current
<1> QED
  BY <1>2, <1>3, <1>4, <1>5 DEF HNext

LEMMA NextUnsigned == HIInv /\ Unsigned /\ [HNext]_hvars => Unsigned'
<1> SUFFICES ASSUME HIInv, Unsigned, [HNext]_hvars, NEW r \in Requests
             PROVE  rpc'[r].pc \in {"idle", "received"} => rpc'[r].signedIn = 0
  BY DEF Unsigned
<1>1. rpc \in [Requests -> RpcState] /\ (rpc[r].pc \in {"idle", "received"} => rpc[r].signedIn = 0)
  BY DEF HIInv, HTypeOK, Unsigned
<1>2. ASSUME NEW q \in Requests, CallInvalid(q) \/ Handle(q) \/ \E v \in Values : Call(q, v)
      PROVE  \/ rpc'[r] = rpc[r]
             \/ rpc'[r].pc \in {"signed", "replied"}
             \/ rpc'[r].signedIn = 0
  BY <1>1, <1>2 DEF CallInvalid, Reply, Call, Handle, RefuseNoSession, RefuseExpired,
       RefuseOverLimit, RefuseInternal, Refuse, Signed, ReadAddress, Entry
<1>3. CASE Signal \/ Shutdown \/ ServeFails \/ Owner \/ Clock \/ UNCHANGED hvars
  BY <1>1, <1>3 DEF Signal, Shutdown, ShutdownDestroy, BeginGracefulStop, FinishGracefulStop,
       ServeFails, Owner, Clock, hvars
<1> QED
  BY <1>1, <1>2, <1>3 DEF HNext

(* A session destroyed by the shutdown signs nothing any more, although    *)
(* requests are still in flight and new ones may arrive before the drain.  *)
THEOREM DestroyRevokes == HSpec => NoSignatureAfterDestroy
<1>1. HInit => Revoked /\ Unsigned
  BY DEF HInit, Revoked, Unsigned, NotCalled, Entry
<1>2. HIInv /\ Revoked /\ Unsigned /\ [HNext]_hvars =>
        [\A r \in Requests :
           main \in {"destroyed", "draining"} /\ rpc'[r].signedIn # rpc[r].signedIn
             => rpc'[r].signedIn > atShutdown]_hvars
  <2> SUFFICES ASSUME HIInv, Revoked, Unsigned, HNext, NEW r \in Requests,
                      main \in {"destroyed", "draining"}, rpc'[r].signedIn # rpc[r].signedIn
               PROVE  rpc'[r].signedIn > atShutdown
    BY DEF hvars
  <2>1. rpc \in [Requests -> RpcState] /\ (rpc[r].pc \in {"idle", "received"} => rpc[r].signedIn = 0)
    BY DEF HIInv, HTypeOK, Unsigned
  <2>2. ASSUME Signed(r) PROVE rpc'[r].signedIn = Len(grants) /\ enclave # NoKey
    BY <2>1, <2>2 DEF Signed, SignOK, Admitted, Entry, Current
  <2>3. ASSUME NEW q \in Requests, CallInvalid(q) \/ \E v \in Values : Call(q, v)
        PROVE  FALSE
    BY <2>1, <2>3 DEF CallInvalid, Reply, Call, Entry
  <2>4. ASSUME NEW q \in Requests, Handle(q), ~(q = r /\ Signed(r)) PROVE FALSE
    BY <2>1, <2>4 DEF Handle, RefuseNoSession, RefuseExpired, RefuseOverLimit, RefuseInternal,
         Refuse, Reply, Signed, ReadAddress, Entry
  <2>5. ~(Signal \/ Shutdown \/ ServeFails \/ Owner \/ Clock)
    BY DEF Signal, Shutdown, ShutdownDestroy, BeginGracefulStop, FinishGracefulStop,
         ServeFails, Owner, Clock
  <2>6. Signed(r)
    BY <2>3, <2>4, <2>5 DEF HNext
  <2>7. atShutdown \in Nat /\ Len(grants) \in Nat
    BY LenProperties DEF HIInv, HTypeOK, IInv, TypeOK
  <2> QED
    BY <2>2, <2>6, <2>7 DEF Revoked, Current
<1> QED
  BY InitHIInv, NextHIInv, NextRevoked, NextUnsigned, <1>1, <1>2, PTL DEF HSpec, NoSignatureAfterDestroy

-----------------------------------------------------------------------------
(* Sums over finite sets of requests.  MapThenSumSet takes the elements in *)
(* the order of CHOOSE; that the sum does not depend on it, and grows by   *)
(* what is added, is shown here for the values in a function of records.   *)
Least(s) == CHOOSE x \in s : TRUE
Adds(g, S, F) ==
  g = [s \in SUBSET S |-> IF s = {} THEN 0 ELSE F[Least(s)].value + g[s \ {Least(s)}]]
Adder(F, S) == CHOOSE g : Adds(g, S, F)
Total(F, S) == Adder(F, S)[S]

(* Among finite sets there is one with no smaller one below it.            *)
LEMMA MinimalSet ==
  ASSUME NEW S, IsFiniteSet(S), NEW B, B \subseteq SUBSET S, B # {}
  PROVE  \E m \in B : \A T \in B : T \subseteq m => T = m
<1>1. IsWellFoundedOn(StrictSubsetOrdering(S), SUBSET S)
  BY FS_StrictSubsetOrderingWellFounded, FS_FiniteSubsetsOfFinite
<1>2. PICK m \in B : \A T \in B : ~(<<T, m>> \in StrictSubsetOrdering(S))
  BY <1>1, WFMin
<1> QED
  BY <1>2 DEF StrictSubsetOrdering

LEMMA Unfold ==
  ASSUME NEW F, NEW S, NEW g, Adds(g, S, F), NEW T, T \subseteq S
  PROVE  /\ T = {} => g[T] = 0
         /\ T # {} => /\ Least(T) \in T /\ g[T] = F[Least(T)].value + g[T \ {Least(T)}]
<1>1. g[T] = IF T = {} THEN 0 ELSE F[Least(T)].value + g[T \ {Least(T)}]
  BY DEF Adds
<1>2. T # {} => Least(T) \in T
  BY DEF Least
<1> QED
  BY <1>1, <1>2

LEMMA AdderUnique ==
  ASSUME NEW F, NEW S, NEW g, Adds(g, S, F), NEW T, NEW h, Adds(h, T, F),
         NEW U, U \subseteq S, U \subseteq T, IsFiniteSet(U)
  PROVE  g[U] = h[U]
<1> DEFINE B == {V \in SUBSET U : g[V] # h[V]}
<1>1. SUFFICES ASSUME B # {} PROVE FALSE
  OBVIOUS
<1>2. PICK m \in B : \A V \in B : V \subseteq m => V = m
  <2>1. B \subseteq SUBSET U
    OBVIOUS
  <2> HIDE DEF B
  <2> QED
    BY <1>1, <2>1, MinimalSet
<1>3. m \subseteq S /\ m \subseteq T /\ m \subseteq U /\ g[m] # h[m]
  BY <1>2
<1>4. m # {} /\ Least(m) \in m
  BY <1>3, Unfold
<1>5. g[m \ {Least(m)}] = h[m \ {Least(m)}]
  BY <1>2, <1>3, <1>4
<1> QED
  BY <1>3, <1>4, <1>5, Unfold

LEMMA AdderExists ==
  ASSUME NEW F, NEW S, IsFiniteSet(S)
  PROVE  Adds(Adder(F, S), S, F)
<1> DEFINE B == {V \in SUBSET S : ~Adds(Adder(F, V), V, F)}
<1>1. SUFFICES ASSUME B # {} PROVE FALSE
  OBVIOUS
<1>2. PICK m \in B : \A V \in B : V \subseteq m => V = m
  <2>1. B \subseteq SUBSET S
    OBVIOUS
  <2> HIDE DEF B
  <2> QED
    BY <1>1, <2>1, MinimalSet
<1>3. m \subseteq S /\ ~Adds(Adder(F, m), m, F)
  BY <1>2
<1>4. ASSUME NEW V, V \subseteq m, V # m PROVE Adds(Adder(F, V), V, F) /\ IsFiniteSet(V)
  BY <1>2, <1>3, <1>4, FS_Subset
<1> DEFINE h == [s \in SUBSET m |-> IF s = {} THEN 0 ELSE F[Least(s)].value + Total(F, s \ {Least(s)})]
<1>5. ASSUME NEW U, U \subseteq m, U # m PROVE h[U] = Total(F, U)
  <2>1. Adds(Adder(F, U), U, F)
    BY <1>4, <1>5
  <2>2. CASE U = {}
    <3>1. Adder(F, U)[U] = 0
      BY <2>1, <2>2, Unfold
    <3> QED
      BY <2>2, <3>1 DEF Total
  <2>3. CASE U # {}
    <3> PICK W : W = U \ {Least(U)}
      OBVIOUS
    <3>1. /\ Least(U) \in U /\ Adder(F, U)[U] = F[Least(U)].value + Adder(F, U)[W]
      BY <2>1, <2>3, Unfold
    <3>2. W \subseteq m /\ W # m /\ W \subseteq U
      BY <1>5
    <3>3. Adder(F, U)[W] = Adder(F, W)[W]
      BY <2>1, <3>2, <1>4, AdderUnique
    <3>4. h[U] = F[Least(U)].value + Total(F, W)
      BY <1>5, <2>3
    <3> QED
      BY <3>1, <3>3, <3>4 DEF Total
  <2> QED
    BY <2>2, <2>3
<1>6. Adds(h, m, F)
  <2>1. ASSUME NEW s \in SUBSET m
        PROVE  h[s] = IF s = {} THEN 0 ELSE F[Least(s)].value + h[s \ {Least(s)}]
    <3>1. CASE s = {}
      BY <3>1
    <3>2. CASE s # {}
      <4>1. Least(s) \in s
        BY <3>2 DEF Least
      <4>2. h[s \ {Least(s)}] = Total(F, s \ {Least(s)})
        BY <4>1, <1>5
      <4>3. h[s] = F[Least(s)].value + Total(F, s \ {Least(s)})
        BY <3>2
      <4> QED
        BY <3>2, <4>2, <4>3
    <3> QED
      BY <3>1, <3>2
  <2>2. h = [s \in SUBSET m |-> h[s]]
    OBVIOUS
  <2> HIDE DEF h
  <2> QED
    BY <2>1, <2>2 DEF Adds
<1> HIDE DEF h
<1>7. Adds(Adder(F, m), m, F)
  BY <1>6 DEF Adder
<1> QED
  BY <1>3, <1>7

LEMMA TotalUnfold ==
  ASSUME NEW F, NEW S, IsFiniteSet(S)
  PROVE  /\ S = {} => Total(F, S) = 0
         /\ S # {} => /\ Least(S) \in S
                      /\ Total(F, S) = F[Least(S)].value + Total(F, S \ {Least(S)})
<1>1. Adds(Adder(F, S), S, F)
  BY AdderExists
<1>2. CASE S = {}
  BY <1>1, <1>2, Unfold DEF Total
<1>3. CASE S # {}
  <2> PICK W : W = S \ {Least(S)}
    OBVIOUS
  <2>1. Least(S) \in S /\ Adder(F, S)[S] = F[Least(S)].value + Adder(F, S)[W]
    BY <1>1, <1>3, Unfold
  <2>2. W \subseteq S /\ IsFiniteSet(W) /\ Adds(Adder(F, W), W, F)
    BY FS_Subset, AdderExists
  <2>3. Adder(F, S)[W] = Adder(F, W)[W]
    BY <1>1, <2>2, AdderUnique
  <2> QED
    BY <1>3, <2>1, <2>3 DEF Total
<1> QED
  BY <1>2, <1>3

LEMMA TotalType ==
  ASSUME NEW F, NEW S, IsFiniteSet(S), \A r \in S : F[r].value \in Int
  PROVE  Total(F, S) \in Int
<1> DEFINE B == {V \in SUBSET S : Total(F, V) \notin Int}
<1>1. SUFFICES ASSUME B # {} PROVE FALSE
  OBVIOUS
<1>2. PICK m \in B : \A V \in B : V \subseteq m => V = m
  <2>1. B \subseteq SUBSET S
    OBVIOUS
  <2> HIDE DEF B
  <2> QED
    BY <1>1, <2>1, MinimalSet
<1>3. m \subseteq S /\ Total(F, m) \notin Int /\ IsFiniteSet(m)
  BY <1>2, FS_Subset
<1>4. m # {} /\ Least(m) \in m /\ Total(F, m) = F[Least(m)].value + Total(F, m \ {Least(m)})
  BY <1>3, TotalUnfold
<1>5. Total(F, m \ {Least(m)}) \in Int
  BY <1>2, <1>3, <1>4
<1> QED
  BY <1>3, <1>4, <1>5

(* Any element may be taken out of a sum, not only the one CHOOSE takes.   *)
LEMMA TotalRemove ==
  ASSUME NEW F, NEW S, IsFiniteSet(S), \A r \in S : F[r].value \in Int, NEW x \in S
  PROVE  Total(F, S) = F[x].value + Total(F, S \ {x})
<1> DEFINE Any(V) == \A r \in V : Total(F, V) = F[r].value + Total(F, V \ {r})
           B == {V \in SUBSET S : ~Any(V)}
<1>1. SUFFICES ASSUME B # {} PROVE FALSE
  OBVIOUS
<1>2. PICK m \in B : \A V \in B : V \subseteq m => V = m
  <2>1. B \subseteq SUBSET S
    OBVIOUS
  <2> HIDE DEF B
  <2> QED
    BY <1>1, <2>1, MinimalSet
<1>3. m \subseteq S /\ ~Any(m) /\ IsFiniteSet(m)
  BY <1>2, FS_Subset
<1>4. ASSUME NEW V, V \subseteq m, V # m PROVE Any(V)
  BY <1>2, <1>3, <1>4
<1>5. PICK r \in m : Total(F, m) # F[r].value + Total(F, m \ {r})
  BY <1>3
<1> PICK y : y = Least(m)
  OBVIOUS
<1>6. y \in m /\ Total(F, m) = F[y].value + Total(F, m \ {y}) /\ y # r
  BY <1>3, <1>5, TotalUnfold
<1> PICK W : W = (m \ {y}) \ {r}
  OBVIOUS
<1>7. W = (m \ {r}) \ {y} /\ W \subseteq S /\ IsFiniteSet(W)
  BY <1>3, FS_Subset
<1>8. Total(F, m \ {y}) = F[r].value + Total(F, W)
  BY <1>4, <1>6
<1>9. Total(F, m \ {r}) = F[y].value + Total(F, W)
  BY <1>4, <1>6, <1>7
<1>10. F[y].value \in Int /\ F[r].value \in Int /\ Total(F, W) \in Int
  BY <1>3, <1>6, <1>7, TotalType
<1> HIDE DEF Any, B
<1> QED
  BY <1>5, <1>6, <1>8, <1>9, <1>10

LEMMA TotalSame ==
  ASSUME NEW F, NEW G, NEW S, IsFiniteSet(S), \A r \in S : F[r].value = G[r].value
  PROVE  Total(F, S) = Total(G, S)
<1> DEFINE B == {V \in SUBSET S : Total(F, V) # Total(G, V)}
<1>1. SUFFICES ASSUME B # {} PROVE FALSE
  OBVIOUS
<1>2. PICK m \in B : \A V \in B : V \subseteq m => V = m
  <2>1. B \subseteq SUBSET S
    OBVIOUS
  <2> HIDE DEF B
  <2> QED
    BY <1>1, <2>1, MinimalSet
<1>3. m \subseteq S /\ Total(F, m) # Total(G, m) /\ IsFiniteSet(m)
  BY <1>2, FS_Subset
<1>4. m # {} /\ Least(m) \in m
  BY <1>3, TotalUnfold
<1>5. Total(F, m \ {Least(m)}) = Total(G, m \ {Least(m)})
  BY <1>2, <1>3, <1>4
<1> QED
  BY <1>3, <1>4, <1>5, TotalUnfold

-----------------------------------------------------------------------------
(* What the session charged, as such a total.                              *)
LEMMA ChargedTotal ==
  ChargedOncePerSignature <=> (enclave # NoKey => valueUsed = Total(rpc, SignedUnder(Current)))
BY DEF ChargedOncePerSignature, MapThenSumSet, MapThenFoldSet, Total, Adder, Adds, Least

LEMMA ChargedTotalNext ==
  ChargedOncePerSignature' <=> (enclave' # NoKey => valueUsed' = Total(rpc', SignedUnder(Current)'))
BY DEF ChargedOncePerSignature, MapThenSumSet, MapThenFoldSet, Total, Adder, Adds, Least

(* A step that neither grants nor signs.                                   *)
LEMMA QuietCharges ==
  ASSUME ChargeInv, Len(grants') = Len(grants),
         \A r \in Requests :
           /\ rpc'[r].signedIn = rpc[r].signedIn
           /\ rpc[r].signedIn # 0 => rpc'[r].value = rpc[r].value,
         enclave' # NoKey => enclave # NoKey /\ valueUsed' = valueUsed
  PROVE  Attributed' /\ ChargedOncePerSignature'
<1> PICK S : S = SignedUnder(Current)
  OBVIOUS
<1>1. SignedUnder(Current)' = S
  BY DEF SignedUnder, Current
<1>2. Len(grants) \in Nat
  BY LenProperties DEF ChargeInv, HIInv, IInv, TypeOK
<1>3. Attributed'
  <2>1. \A r \in Requests : rpc'[r].signedIn <= Len(grants')
    BY DEF ChargeInv, Attributed, Current
  <2>2. Len(grants') > 0 => IsFiniteSet(S)
    BY DEF ChargeInv, Attributed, Current
  <2> QED
    BY <1>1, <2>1, <2>2 DEF Attributed, Current
<1>4. ASSUME enclave' # NoKey PROVE valueUsed' = Total(rpc', S)
  <2>1. Len(grants) > 0 /\ IsFiniteSet(S)
    BY <1>2, <1>4 DEF ChargeInv, HIInv, IInv, LedgerAgrees, Attributed, Current
  <2>2. \A r \in S : rpc[r].value = rpc'[r].value
    BY <1>2, <2>1 DEF SignedUnder, Current
  <2>3. Total(rpc, S) = Total(rpc', S)
    BY <2>1, <2>2, TotalSame
  <2>4. valueUsed = Total(rpc, S)
    BY <1>4, ChargedTotal DEF ChargeInv
  <2> QED
    BY <1>4, <2>3, <2>4
<1> QED
  BY <1>1, <1>3, <1>4, ChargedTotalNext

(* A new activation has charged nothing, and nobody has signed under it.   *)
LEMMA GrantCharges ==
  ASSUME ChargeInv, NEW k \in Keys, NEW lim \in Limits, Activate(k, lim), UNCHANGED rpc
  PROVE  Attributed' /\ ChargedOncePerSignature'
<1>1. Len(grants') = Len(grants) + 1 /\ Len(grants) \in Nat
  <2>1. NewGrant(k, lim) \in Grant
    BY AmountAssumption, TimeAssumption DEF Grant, NewGrant, ChargeInv, HIInv, IInv, TypeOK
  <2> QED
    BY <2>1, GrantAppends, LenProperties DEF Activate, ChargeInv, HIInv, IInv, TypeOK
<1>2. \A r \in Requests : rpc[r].signedIn <= Len(grants) /\ rpc[r].signedIn \in Nat
  BY DEF ChargeInv, Attributed, Current, HIInv, HTypeOK, RpcState
<1>3. SignedUnder(Current)' = {}
  BY <1>1, <1>2 DEF SignedUnder, Current
<1>4. \A r \in Requests : rpc'[r].signedIn <= Len(grants')
  BY <1>1, <1>2
<1>5. IsFiniteSet({}) /\ Total(rpc', {}) = 0
  BY FS_EmptySet, TotalUnfold
<1>6. valueUsed' = 0
  BY DEF Activate
<1> QED
  BY <1>3, <1>4, <1>5, <1>6, ChargedTotalNext DEF Attributed, Current

(* A signature adds its value and its request.                             *)
LEMMA SignedCharges ==
  ASSUME ChargeInv, NEW r \in Requests, Signed(r)
  PROVE  Attributed' /\ ChargedOncePerSignature'
<1> PICK S : S = SignedUnder(Current)
  OBVIOUS
<1> PICK v : v = rpc[r].value
  OBVIOUS
<1>1. /\ rpc \in [Requests -> RpcState] /\ Len(grants) \in Nat /\ grants \in Seq(Grant)
      /\ \A q \in Requests : rpc[q].value \in Int /\ rpc[q].signedIn <= Len(grants)
  BY LenProperties DEF ChargeInv, HIInv, HTypeOK, IInv, TypeOK, Attributed, Current, RpcState
<1>2. enclave # NoKey /\ Len(grants) > 0 /\ IsFiniteSet(S) /\ valueUsed = Total(rpc, S)
  BY ChargedTotal DEF Signed, SignOK, Admitted, ChargeInv, HIInv, IInv, LedgerAgrees, Attributed, Current
<1>3. valueUsed' = valueUsed + v /\ Len(grants') = Len(grants)
  BY <1>1 DEF Signed, SignOK, Current
<1>4. /\ rpc'[r].signedIn = Len(grants) /\ rpc'[r].value = v
      /\ \A q \in Requests : q # r => rpc'[q] = rpc[q]
  BY <1>1 DEF Signed, Entry, Current
<1>5. r \notin S /\ SignedUnder(Current)' = S \cup {r}
  <2>1. rpc[r].signedIn = 0
    BY DEF Signed, ChargeInv, Unsigned
  <2> QED
    BY <1>2, <1>3, <1>4, <2>1 DEF SignedUnder, Current
<1> PICK W : W = S \cup {r}
  OBVIOUS
<1>6. IsFiniteSet(W) /\ W \ {r} = S /\ W \subseteq Requests
  BY <1>2, <1>5, FS_AddElement DEF SignedUnder
<1>7. Total(rpc', W) = v + Total(rpc', S)
  <2>1. \A q \in W : rpc'[q].value \in Int
    BY <1>1, <1>4, <1>6
  <2>2. Total(rpc', W) = rpc'[r].value + Total(rpc', W \ {r})
    BY <1>6, <2>1, TotalRemove
  <2> QED
    BY <1>4, <1>6, <2>2
<1>8. Total(rpc, S) = Total(rpc', S) /\ Total(rpc, S) \in Int
  <2>1. \A q \in S : rpc[q].value = rpc'[q].value /\ rpc[q].value \in Int
    BY <1>1, <1>4, <1>5 DEF SignedUnder
  <2> QED
    BY <1>2, <2>1, TotalSame, TotalType
<1>9. v \in Int
  BY <1>1
<1>10. valueUsed' = Total(rpc', W)
  BY <1>2, <1>3, <1>7, <1>8, <1>9
<1>11. \A q \in Requests : rpc'[q].signedIn <= Len(grants')
  BY <1>1, <1>3, <1>4
<1> QED
  BY <1>5, <1>6, <1>10, <1>11, ChargedTotalNext DEF Attributed, Current

LEMMA NextCharge == ChargeInv /\ [HNext]_hvars => ChargeInv'
<1> SUFFICES ASSUME ChargeInv, [HNext]_hvars PROVE Attributed' /\ ChargedOncePerSignature'
  BY NextHIInv, NextUnsigned DEF ChargeInv
<1>1. /\ rpc \in [Requests -> RpcState]
      /\ \A r \in Requests : rpc[r].pc \in {"idle", "received"} => rpc[r].signedIn = 0
  BY DEF ChargeInv, HIInv, HTypeOK, Unsigned
<1>2. ASSUME NEW r \in Requests, CallInvalid(r) \/ Handle(r) \/ (\E v \in Values : Call(r, v)), ~Signed(r)
      PROVE  Attributed' /\ ChargedOncePerSignature'
  <2>1. \A q \in Requests : q # r => rpc'[q] = rpc[q]
    BY <1>1, <1>2 DEF CallInvalid, Reply, Call, Handle, RefuseNoSession, RefuseExpired,
         RefuseOverLimit, RefuseInternal, Refuse, ReadAddress
  <2>2. rpc'[r].signedIn = rpc[r].signedIn /\ (rpc[r].signedIn # 0 => rpc'[r].value = rpc[r].value)
    BY <1>1, <1>2 DEF CallInvalid, Reply, Call, Handle, RefuseNoSession, RefuseExpired,
         RefuseOverLimit, RefuseInternal, Refuse, ReadAddress, Entry
  <2>3. grants' = grants /\ (enclave' # NoKey => enclave # NoKey /\ valueUsed' = valueUsed)
    BY <1>2 DEF CallInvalid, Call, Handle, RefuseNoSession, RefuseExpired, RefuseOverLimit,
         RefuseInternal, Refuse, ReadAddress, SignNoSession, SignExpired, SignOverLimit,
         SignFails, DestroyLocked, vars
  <2> QED
    BY <2>1, <2>2, <2>3, QuietCharges
<1>3. ASSUME NEW k \in Keys, NEW lim \in Limits, Activate(k, lim), UNCHANGED rpc
      PROVE  Attributed' /\ ChargedOncePerSignature'
  BY <1>3, GrantCharges
<1>4. ASSUME UNCHANGED <<rpc, grants>>, enclave' # NoKey => enclave' = enclave /\ valueUsed' = valueUsed
      PROVE  Attributed' /\ ChargedOncePerSignature'
  BY <1>4, QuietCharges
<1>5. CASE Signal \/ Shutdown \/ ServeFails \/ Clock \/ UNCHANGED hvars
  BY <1>4, <1>5 DEF Signal, Shutdown, ShutdownDestroy, BeginGracefulStop, FinishGracefulStop,
       ServeFails, Clock, Tick, Destroy, DestroyLocked, session, hvars, vars
<1>6. CASE Owner
  BY <1>3, <1>4, <1>6 DEF Owner, ActivateInvalid, vars
<1> QED
  BY <1>2, <1>5, <1>6, SignedCharges DEF HNext

(* However the requests interleave, and whatever is refused, failed or     *)
(* activated between, the live session has charged each request that it    *)
(* signed for once, with the maker_amount as parsed (handler.go:39), and   *)
(* no other.                                                               *)
THEOREM ChargesExactly == HSpec => []ChargedOncePerSignature
<1>1. HInit => Unsigned /\ Attributed /\ ChargedOncePerSignature
  <2>1. HInit => Unsigned /\ enclave = NoKey
    BY DEF HInit, Init, Unsigned, NotCalled, Entry
  <2>2. HInit => Attributed
    BY DEF HInit, Init, Attributed, Current, NotCalled, Entry
  <2> QED
    BY <2>1, <2>2, ChargedTotal
<1>2. HInit => ChargeInv
  BY <1>1, InitHIInv DEF ChargeInv
<1>3. ChargeInv => ChargedOncePerSignature
  BY DEF ChargeInv
<1> QED
  BY NextCharge, <1>2, <1>3, PTL DEF HSpec
=============================================================================
