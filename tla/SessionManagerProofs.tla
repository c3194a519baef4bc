------------------------ MODULE SessionManagerProofs ------------------------
(***************************************************************************)
(* The session manager keeps its budget for every set of keys, limits and  *)
(* order values, and implements SigningBudget.                             *)
(***************************************************************************)
EXTENDS SessionManager, SequenceTheorems, TLAPS

(* The amount signed is the value charged and twice what it credits.       *)
LEMMA SignedIsCharged ==
  ASSUME NEW v \in Int
  PROVE  /\ SignedAmount(v) \in Nat /\ Credit(v) \in Nat
         /\ SignedAmount(v) = v + 2 * Credit(v)
  BY DEF SignedAmount, Credit

(* What entering a signed order does to a grant.                           *)
LEMMA EnterFields ==
  ASSUME NEW m \in Grant, NEW v \in Int
  PROVE  /\ Enter(m, v) \in Grant
         /\ Enter(m, v).signed = m.signed + SignedAmount(v)
         /\ Enter(m, v).credit = m.credit + Credit(v)
         /\ Enter(m, v).key = m.key /\ Enter(m, v).limit = m.limit
         /\ Enter(m, v).deadline = m.deadline
<1>1. m.signed \in Nat /\ m.credit \in Nat
  BY DEF Grant
<1>2. SignedAmount(v) \in Nat /\ Credit(v) \in Nat
  BY SignedIsCharged
<1>3. m.signed + SignedAmount(v) \in Nat /\ m.credit + Credit(v) \in Nat
  BY <1>1, <1>2
<1> QED
  BY <1>3 DEF Grant, Enter

(* Entering a signed order: signed less twice credited grows by the charge.*)
LEMMA EnterArithmetic ==
  ASSUME NEW m \in Grant, NEW v \in Int
  PROVE  LET e == Enter(m, v)
         IN  /\ e.signed \in Nat /\ e.credit \in Nat
             /\ e.signed - 2 * e.credit = (m.signed - 2 * m.credit) + v
<1> DEFINE e == Enter(m, v)
<1>1. m.signed \in Nat /\ m.credit \in Nat /\ e.signed \in Nat /\ e.credit \in Nat
  BY EnterFields DEF Grant
<1>2. e.signed = m.signed + SignedAmount(v) /\ e.credit = m.credit + Credit(v)
  BY EnterFields
<1>3. /\ SignedAmount(v) \in Nat /\ Credit(v) \in Nat
      /\ SignedAmount(v) = v + 2 * Credit(v)
  BY SignedIsCharged
<1> HIDE DEF e
<1>4. e.signed - 2 * e.credit = (m.signed - 2 * m.credit) + v
  BY <1>1, <1>2, <1>3
<1> QED
  BY <1>1, <1>4 DEF e

(* Signing under the latest grant changes that grant's totals and no other *)
(* grant (the update of the history in SignOK).                            *)
LEMMA EnterUpdatesLast ==
  ASSUME NEW g \in Seq(Grant), Len(g) > 0, NEW v \in Int
  PROVE  LET h == [g EXCEPT ![Len(g)] = Enter(@, v)]
         IN  /\ h \in Seq(Grant) /\ Len(h) = Len(g) /\ g[Len(g)] \in Grant
             /\ h[Len(g)] = Enter(g[Len(g)], v)
             /\ \A i \in 1 .. Len(g) : i # Len(g) => h[i] = g[i]
<1> DEFINE n == Len(g)
<1>1. n \in 1 .. Len(g)
  BY LenProperties
<1>2. g[n] \in Grant
  BY <1>1, ElementOfSeq
<1>3. Enter(g[n], v) \in Grant
  BY <1>2, EnterFields
<1> QED
  BY <1>1, <1>2, <1>3, ExceptSeq

(* A new activation appends a fresh grant and leaves the earlier ones      *)
(* (the update of the history in Activate).                                *)
LEMMA GrantAppends ==
  ASSUME NEW g \in Seq(Grant), NEW e \in Grant
  PROVE  LET h == Append(g, e)
         IN  /\ h \in Seq(Grant) /\ Len(h) = Len(g) + 1 /\ h[Len(g) + 1] = e
             /\ \A i \in 1 .. Len(g) : h[i] = g[i]
  BY AppendProperties

-----------------------------------------------------------------------------
LEMMA InitIInv == Init => IInv
<1> SUFFICES ASSUME Init PROVE IInv
  OBVIOUS
<1>1. DOMAIN grants = {}
  BY DEF Init
<1>2. grants \in Seq(Grant)
  BY EmptySeq DEF Init
<1> QED
  BY <1>1, <1>2 DEF Init, IInv, TypeOK, BudgetRespected, LedgerAgrees

(* Every operation of the manager preserves the inductive invariant; only  *)
(* Activate and a successful Sign touch the history.                       *)
LEMMA NextIInv == IInv /\ [Next]_vars => IInv'
<1> SUFFICES ASSUME IInv, [Next]_vars PROVE IInv'
  OBVIOUS
<1> USE KeysAssumption, AmountAssumption, TimeAssumption
<1>0. /\ Len(grants) \in Nat /\ DOMAIN grants = 1 .. Len(grants)
      /\ \A i \in 1 .. Len(grants) : grants[i] \in Grant
  BY LenProperties, ElementOfSeq DEF IInv, TypeOK
<1>1. ASSUME NEW k \in Keys, NEW lim \in Limits, Activate(k, lim) PROVE IInv'
  <2> DEFINE e == NewGrant(k, lim)
  <2>1. /\ e \in Grant /\ e.signed = 0 /\ e.credit = 0
        /\ e.key = k /\ e.limit = lim /\ e.deadline = now + TTL
    BY DEF Grant, NewGrant, IInv, TypeOK
  <2>2. /\ grants' \in Seq(Grant) /\ Len(grants') = Len(grants) + 1
        /\ grants'[Len(grants) + 1] = e
        /\ \A i \in 1 .. Len(grants) : grants'[i] = grants[i]
    BY <1>1, <2>1, GrantAppends DEF Activate, NewDeadline, IInv, TypeOK
  <2>3. TypeOK'
    BY <1>1, <2>2 DEF Activate, NewDeadline, IInv, TypeOK
  <2>4. DOMAIN grants' = 1 .. (Len(grants) + 1)
    BY <2>2, LenProperties
  <2>5. BudgetRespected'
    <3> SUFFICES ASSUME NEW i \in 1 .. (Len(grants) + 1)
                 PROVE  grants'[i].signed <= grants'[i].limit + 2 * grants'[i].credit
      BY <2>4 DEF BudgetRespected
    <3>1. CASE i = Len(grants) + 1
      BY <3>1, <2>1, <2>2
    <3>2. CASE i \in 1 .. Len(grants)
      BY <3>2, <2>2, <1>0 DEF IInv, BudgetRespected
    <3> QED
      BY <3>1, <3>2, <1>0
  <2>6. LedgerAgrees'
    BY <1>1, <2>1, <2>2, <1>0 DEF Activate, NewDeadline, LedgerAgrees, Current
  <2> QED
    BY <2>3, <2>5, <2>6 DEF IInv
<1>2. ASSUME NEW v \in Values, SignOK(v) PROVE IInv'
  <2> DEFINE m == grants[Len(grants)]
  <2>1. /\ Len(grants) > 0
        /\ m.signed - 2 * m.credit = valueUsed
        /\ grants[Len(grants)].limit = maxValueLimit
        /\ grants[Len(grants)].key = enclave /\ address = enclave
        /\ grants[Len(grants)].deadline = expiresAt
        /\ valueUsed + v <= maxValueLimit
    BY <1>2 DEF SignOK, Admitted, IInv, LedgerAgrees, Current
  <2>2. /\ grants' \in Seq(Grant) /\ Len(grants') = Len(grants)
        /\ grants'[Len(grants)] = Enter(m, v) /\ m \in Grant
        /\ \A i \in 1 .. Len(grants) : i # Len(grants) => grants'[i] = grants[i]
    BY <1>2, <2>1, EnterUpdatesLast DEF SignOK, Current, IInv, TypeOK
  <2>3. /\ grants'[Len(grants)].signed - 2 * grants'[Len(grants)].credit = valueUsed + v
        /\ grants'[Len(grants)].signed \in Nat /\ grants'[Len(grants)].credit \in Nat
        /\ grants'[Len(grants)].limit = maxValueLimit
        /\ grants'[Len(grants)].key = enclave
        /\ grants'[Len(grants)].deadline = expiresAt
    <3> DEFINE e == Enter(m, v)
    <3>1. m \in Grant /\ v \in Int /\ grants'[Len(grants)] = e
      BY <2>2
    <3>2. /\ e.signed = m.signed + SignedAmount(v) /\ e.credit = m.credit + Credit(v)
          /\ e.limit = m.limit /\ e.key = m.key /\ e.deadline = m.deadline
      BY <3>1, EnterFields
    <3>3. /\ e.signed \in Nat /\ e.credit \in Nat
          /\ e.signed - 2 * e.credit = (m.signed - 2 * m.credit) + v
      BY <3>1, EnterArithmetic
    <3> HIDE DEF e
    <3> QED
      BY <2>1, <3>1, <3>2, <3>3
  <2> HIDE DEF m
  <2>4. TypeOK'
    <3>1. grants' \in Seq(Grant) /\ valueUsed' = valueUsed + v /\ v \in Int
      BY <1>2, <2>2 DEF SignOK
    <3> QED
      BY <1>2, <3>1 DEF SignOK, IInv, TypeOK
  <2>5. DOMAIN grants' = 1 .. Len(grants)
    BY <2>2, LenProperties
  <2>6. BudgetRespected'
    <3> SUFFICES ASSUME NEW i \in 1 .. Len(grants)
                 PROVE  grants'[i].signed <= grants'[i].limit + 2 * grants'[i].credit
      BY <2>5 DEF BudgetRespected
    <3>1. CASE i = Len(grants)
      <4> DEFINE h == grants'[i]
      <4>1. valueUsed \in Int /\ v \in Int /\ maxValueLimit \in Nat
        BY DEF IInv, TypeOK
      <4>2. /\ h.signed \in Nat /\ h.credit \in Nat /\ h.limit = maxValueLimit
            /\ h.signed - 2 * h.credit = valueUsed + v
        BY <3>1, <2>3
      <4> HIDE DEF h
      <4>3. h.signed <= h.limit + 2 * h.credit
        BY <4>1, <4>2, <2>1
      <4> QED
        BY <4>3 DEF h
    <3>2. CASE i # Len(grants)
      BY <3>2, <2>2, <1>0 DEF IInv, BudgetRespected
    <3> QED
      BY <3>1, <3>2
  <2>7. LedgerAgrees'
    BY <1>2, <2>1, <2>2, <2>3 DEF SignOK, LedgerAgrees, Current
  <2> QED
    BY <2>4, <2>6, <2>7 DEF IInv
<1>3. CASE SignExpired \/ Destroy
  <2>1. TypeOK'
    BY <1>3 DEF SignExpired, Destroy, DestroyLocked, IInv, TypeOK
  <2>2. BudgetRespected'
    BY <1>3 DEF SignExpired, Destroy, IInv, BudgetRespected
  <2>3. LedgerAgrees'
    BY <1>3 DEF SignExpired, Destroy, DestroyLocked, LedgerAgrees
  <2> QED
    BY <2>1, <2>2, <2>3 DEF IInv
<1>4. CASE Tick
  BY <1>4 DEF Tick, session, IInv, TypeOK, BudgetRespected, LedgerAgrees, Current
<1>5. CASE UNCHANGED vars
  BY <1>5 DEF vars, IInv, TypeOK, BudgetRespected, LedgerAgrees, Current
<1>6. ASSUME NEW v \in Values, SignOverLimit(v) \/ SignFails(v) PROVE UNCHANGED vars
  BY <1>6 DEF SignOverLimit, SignFails
<1> QED
  BY <1>1, <1>2, <1>3, <1>4, <1>5, <1>6 DEF Next, ActivateInvalid, SignNoSession

(* The history only grows, and the key of an activation never changes.     *)
LEMMA HistoryKept ==
  IInv /\ [Next]_vars =>
    /\ Len(grants) \in Nat /\ Len(grants') \in Nat /\ Len(grants) <= Len(grants')
    /\ \A i \in 1 .. Len(grants) : grants'[i].key = grants[i].key
<1> SUFFICES ASSUME IInv, [Next]_vars
             PROVE  /\ Len(grants) \in Nat /\ Len(grants') \in Nat /\ Len(grants) <= Len(grants')
                    /\ \A i \in 1 .. Len(grants) : grants'[i].key = grants[i].key
  OBVIOUS
<1> USE KeysAssumption, AmountAssumption, TimeAssumption
<1>0. /\ Len(grants) \in Nat
      /\ \A i \in 1 .. Len(grants) : grants[i] \in Grant
  BY LenProperties, ElementOfSeq DEF IInv, TypeOK
<1>1. ASSUME NEW k \in Keys, NEW lim \in Limits, Activate(k, lim)
      PROVE  /\ Len(grants') = Len(grants) + 1
             /\ \A i \in 1 .. Len(grants) : grants'[i] = grants[i]
  <2>1. NewGrant(k, lim) \in Grant
    BY DEF Grant, NewGrant, IInv, TypeOK
  <2> QED
    BY <1>1, <2>1, GrantAppends DEF Activate, NewDeadline, IInv, TypeOK
<1>2. ASSUME NEW v \in Values, SignOK(v)
      PROVE  /\ Len(grants') = Len(grants)
             /\ \A i \in 1 .. Len(grants) : grants'[i].key = grants[i].key
  <2>1. Len(grants) > 0
    BY <1>2 DEF SignOK, Admitted, IInv, LedgerAgrees, Current
  <2>2. /\ Len(grants') = Len(grants)
        /\ grants'[Len(grants)] = Enter(grants[Len(grants)], v) /\ grants[Len(grants)] \in Grant
        /\ \A i \in 1 .. Len(grants) : i # Len(grants) => grants'[i] = grants[i]
    BY <1>2, <2>1, EnterUpdatesLast DEF SignOK, Current, IInv, TypeOK
  <2>3. grants'[Len(grants)].key = grants[Len(grants)].key
    BY <2>2, EnterFields
  <2> QED
    BY <2>2, <2>3
<1>3. CASE UNCHANGED grants
  BY <1>3, <1>0
<1> QED
  BY <1>0, <1>1, <1>2, <1>3
     DEF Next, vars, ActivateInvalid, SignNoSession, SignExpired, SignOverLimit, SignFails, Destroy, Tick

-----------------------------------------------------------------------------
(* The fields of the manager keep their types (session.go, SessionManager).*)
THEOREM TypeCorrect == Spec => []TypeOK
<1>1. IInv => TypeOK
  BY DEF IInv
<1> QED
  BY InitIInv, NextIInv, <1>1, PTL DEF Spec

(* What Sign signs beyond the limit given to Activate is bounded, in any   *)
(* activation, by what its orders with a negative maker_amount credited.   *)
THEOREM BudgetHolds == Spec => []BudgetRespected
<1>1. IInv => BudgetRespected
  BY DEF IInv
<1> QED
  BY InitIInv, NextIInv, <1>1, PTL DEF Spec

(* Asked for amounts only that are not negative, Sign never signs beyond   *)
(* the limit given to Activate: the promise of the service holds then.     *)
THEOREM LimitHolds ==
  ASSUME Values \subseteq Nat
  PROVE  Spec => []SignedWithinLimit
<1> DEFINE NoCredit == \A i \in DOMAIN grants : grants[i].credit = 0
<1>1. Init => NoCredit
  BY DEF Init
<1>2. IInv /\ NoCredit /\ [Next]_vars => NoCredit'
  <2> SUFFICES ASSUME IInv, NoCredit, [Next]_vars PROVE NoCredit'
    OBVIOUS
  <2>0. /\ Len(grants) \in Nat /\ DOMAIN grants = 1 .. Len(grants)
        /\ \A i \in 1 .. Len(grants) : grants[i] \in Grant
    BY LenProperties, ElementOfSeq DEF IInv, TypeOK
  <2>1. ASSUME NEW k \in Keys, NEW lim \in Limits, Activate(k, lim) PROVE NoCredit'
    <3>1. NewGrant(k, lim) \in Grant /\ NewGrant(k, lim).credit = 0
      BY AmountAssumption, TimeAssumption DEF Grant, NewGrant, IInv, TypeOK
    <3>2. /\ grants' \in Seq(Grant) /\ Len(grants') = Len(grants) + 1
          /\ grants'[Len(grants) + 1].credit = 0
          /\ \A i \in 1 .. Len(grants) : grants'[i] = grants[i]
      BY <2>1, <3>1, GrantAppends DEF Activate, IInv, TypeOK
    <3>3. DOMAIN grants' = 1 .. (Len(grants) + 1)
      BY <3>2, LenProperties
    <3> QED
      BY <2>0, <3>2, <3>3
  <2>2. ASSUME NEW v \in Values, SignOK(v) PROVE NoCredit'
    <3>1. Len(grants) > 0 /\ v \in Int /\ Credit(v) = 0
      BY <2>2 DEF SignOK, Admitted, IInv, LedgerAgrees, Current, Credit
    <3>2. /\ grants' \in Seq(Grant) /\ Len(grants') = Len(grants)
          /\ grants'[Len(grants)] = Enter(grants[Len(grants)], v) /\ grants[Len(grants)] \in Grant
          /\ \A i \in 1 .. Len(grants) : i # Len(grants) => grants'[i] = grants[i]
      BY <2>2, <3>1, EnterUpdatesLast DEF SignOK, Current, IInv, TypeOK
    <3>3. grants[Len(grants)].credit = 0
      BY <2>0, <3>1
    <3>4. grants'[Len(grants)].credit = 0
      <4>1. Enter(grants[Len(grants)], v).credit = grants[Len(grants)].credit + Credit(v)
        BY <3>1, <3>2, EnterFields
      <4> QED
        BY <3>1, <3>2, <3>3, <4>1
    <3>5. DOMAIN grants' = 1 .. Len(grants)
      BY <3>2, LenProperties
    <3>6. ASSUME NEW i \in 1 .. Len(grants) PROVE grants'[i].credit = 0
      <4>1. CASE i = Len(grants)
        BY <3>4, <4>1
      <4>2. CASE i # Len(grants)
        BY <2>0, <3>2, <4>2
      <4> QED
        BY <4>1, <4>2
    <3> QED
      BY <3>5, <3>6
  <2>3. CASE UNCHANGED grants
    BY <2>3
  <2> QED
    BY <2>1, <2>2, <2>3
       DEF Next, vars, ActivateInvalid, SignNoSession, SignExpired, SignOverLimit, SignFails, Destroy, Tick
<1>3. IInv /\ NoCredit => SignedWithinLimit
  <2> SUFFICES ASSUME IInv, NoCredit, NEW i \in DOMAIN grants
               PROVE  grants[i].signed <= grants[i].limit
    BY DEF SignedWithinLimit
  <2>1. grants[i] \in Grant
    BY LenProperties, ElementOfSeq DEF IInv, TypeOK
  <2> QED
    BY <2>1 DEF IInv, BudgetRespected, Grant
<1> QED
  BY InitIInv, NextIInv, <1>1, <1>2, <1>3, PTL DEF Spec

(* The manager's limit, deadline and address are always those of the       *)
(* activation whose key it holds, and its counter is what was signed under *)
(* it, less twice the amounts of the negative orders.                      *)
THEOREM LedgerHolds == Spec => []LedgerAgrees
<1>1. IInv => LedgerAgrees
  BY DEF IInv
<1> QED
  BY InitIInv, NextIInv, <1>1, PTL DEF Spec

(* Every step of the manager is a step of SigningBudget, or none: a        *)
(* signature spends its amount, one for a negative maker_amount is a       *)
(* Reverse.                                                                *)
THEOREM Refinement == Spec => ImplementsBudget
<1>1. Init => Budget!Init
  BY DEF Init, Budget!Init
<1>2. IInv /\ [Next]_vars => [Budget!Next]_(Budget!vars)
  <2> SUFFICES ASSUME IInv, [Next]_vars PROVE [Budget!Next]_(Budget!vars)
    OBVIOUS
  <2> USE KeysAssumption DEF Budget!vars
  <2>1. ASSUME NEW k \in Keys, NEW lim \in Limits, Activate(k, lim)
        PROVE  Budget!Grant(k, lim)
    BY <2>1 DEF Activate, NewGrant, Budget!Grant
  <2>2. ASSUME NEW v \in Values, SignOK(v) PROVE Budget!Spend(v) \/ Budget!Reverse(v)
    <3> DEFINE n == Len(grants)
               m == grants[n]
    <3>1. /\ n > 0 /\ enclave # NoKey /\ now <= m.deadline
          /\ m.signed - 2 * m.credit + v <= m.limit
          /\ UNCHANGED <<enclave, now>> /\ v \in Int /\ n \in Nat /\ n \in DOMAIN grants
          /\ grants' = [grants EXCEPT ![n] = Enter(@, v)]
      BY <2>2, AmountAssumption, LenProperties
         DEF SignOK, Admitted, IsExpired, Current, IInv, TypeOK, LedgerAgrees
    <3>2. m \in Grant
      BY <3>1, LenProperties, ElementOfSeq DEF IInv, TypeOK
    <3>3. /\ m.signed \in Nat /\ m.credit \in Nat /\ m.limit \in Nat
          /\ Enter(m, v) = [m EXCEPT !.signed = m.signed + SignedAmount(v),
                                     !.credit = m.credit + Credit(v)]
      BY <3>2 DEF Grant, Enter
    <3>4. CASE v >= 0
      <4>1. SignedAmount(v) = v /\ m.credit + Credit(v) = m.credit
        BY <3>1, <3>3, <3>4 DEF SignedAmount, Credit
      <4>2. Enter(m, v) = [m EXCEPT !.signed = m.signed + v]
        BY <3>2, <3>3, <4>1 DEF Grant
      <4>3. grants' = [grants EXCEPT ![n].signed = @ + v]
        BY <3>1, <4>2
      <4>4. m.signed + v <= m.limit + 2 * m.credit
        BY <3>1, <3>3
      <4> QED
        BY <3>1, <3>4, <4>3, <4>4 DEF Budget!Spend, Budget!Live, Budget!Last
    <3>5. CASE v < 0
      <4>1. m.signed + SignedAmount(v) = m.signed - v /\ m.credit + Credit(v) = m.credit - v
        BY <3>1, <3>3, <3>5 DEF SignedAmount, Credit
      <4>2. Enter(m, v) = [m EXCEPT !.signed = m.signed - v, !.credit = m.credit - v]
        BY <3>3, <4>1
      <4>3. grants' = [grants EXCEPT ![n].signed = @ - v, ![n].credit = @ - v]
        BY <3>1, <3>2, <4>2 DEF Grant
      <4> QED
        BY <3>1, <3>5, <4>3 DEF Budget!Reverse, Budget!Live, Budget!Last
    <3> QED
      BY <3>1, <3>4, <3>5
  <2>3. CASE SignExpired \/ Destroy
    BY <2>3 DEF SignExpired, Destroy, DestroyLocked, Budget!Next, Budget!Revoke
  <2>4. CASE Tick
    BY <2>4 DEF Tick, session, Budget!Next, Budget!Tick
  <2>5. CASE UNCHANGED vars
    BY <2>5 DEF vars
  <2>6. ASSUME NEW v \in Values, SignOverLimit(v) \/ SignFails(v) PROVE UNCHANGED vars
    BY <2>6 DEF SignOverLimit, SignFails
  <2> QED
    BY <2>1, <2>2, <2>3, <2>4, <2>5, <2>6 DEF Next, ActivateInvalid, SignNoSession, Budget!Next
<1> QED
  BY InitIInv, NextIInv, <1>1, <1>2, PTL DEF Spec, ImplementsBudget, Budget!Spec
=============================================================================
