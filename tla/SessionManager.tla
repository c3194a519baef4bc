--------------------------- MODULE SessionManager ---------------------------
(***************************************************************************)
(* internal/signer/session.go.  Every method holds sm.mu from its first    *)
(* statement to its return, so a call is one action; the method's early    *)
(* returns are actions of their own.  `grants' is a history variable: the  *)
(* amounts of the orders signed under each activation, which the code does *)
(* not record; its counter has the maker amounts with their signs.         *)
(***************************************************************************)
EXTENDS Integers, Sequences

CONSTANTS Keys,          \* private keys; a key stands for its address too
          NoKey,         \* nil enclave, empty address
          Limits,        \* value limits passed to Activate
          Values,        \* order values passed to Sign: big.Ints, whatever their sign
          TTL,           \* sm.ttl
          MaxTime,       \* bound: the clock stops here
          MaxSessions    \* bound: number of successful activations

ASSUME KeysAssumption   == NoKey \notin Keys
ASSUME AmountAssumption == Limits \subseteq Nat /\ Values \subseteq Int
ASSUME TimeAssumption   == TTL \in Nat /\ MaxTime \in Nat /\ MaxSessions \in Nat

VARIABLES enclave,         \* the sealed key
          address,         \* address derived from it
          expiresAt,
          maxValueLimit,   \* 0 when the code holds nil: unread without a key
          valueUsed,
          now,             \* time.Now()
          grants           \* history: one record per activation

vars == <<enclave, address, expiresAt, maxValueLimit, valueUsed, now, grants>>
session == <<enclave, address, expiresAt, maxValueLimit, valueUsed>>

Current == Len(grants)     \* the latest activation

Init ==
  /\ enclave = NoKey /\ address = NoKey
  /\ expiresAt = 0 /\ maxValueLimit = 0 /\ valueUsed = 0
  /\ now = 0
  /\ grants = << >>

(* After is strict: a call in the very tick of the deadline is in time.    *)
MutIsExpired == now > expiresAt + 1
IsExpired == now > expiresAt

(* expiresAt is left as it is.                                             *)
DestroyLocked ==
  /\ enclave' = NoKey /\ address' = NoKey
  /\ valueUsed' = 0 /\ maxValueLimit' = 0
  /\ UNCHANGED expiresAt

Destroy == DestroyLocked /\ UNCHANGED <<now, grants>>

NewDeadline == now + TTL
NewGrant(k, lim) == [key |-> k, limit |-> lim, deadline |-> now + TTL, signed |-> 0, credit |-> 0]

MutActivateAddress(k, lim) ==
  /\ Current < MaxSessions
  /\ enclave' = k /\ address' = IF address = NoKey THEN k ELSE address
  /\ expiresAt' = NewDeadline
  /\ maxValueLimit' = lim
  /\ valueUsed' = 0
  /\ grants' = Append(grants, NewGrant(k, lim))
  /\ UNCHANGED now
Activate(k, lim) ==
  /\ Current < MaxSessions
  /\ enclave' = k /\ address' = k
  /\ expiresAt' = NewDeadline
  /\ maxValueLimit' = lim
  /\ valueUsed' = 0
  /\ grants' = Append(grants, NewGrant(k, lim))
  /\ UNCHANGED now

(* ToECDSA rejects the bytes before anything is cleared.                   *)
MutActivateInvalid == enclave' = NoKey /\ UNCHANGED <<address, expiresAt, maxValueLimit, valueUsed, now, grants>>
ActivateInvalid == UNCHANGED vars

(* Sign, one action per way out of it.                                     *)
SignNoSession == enclave = NoKey /\ UNCHANGED vars

SignExpired ==
  /\ enclave # NoKey /\ IsExpired
  /\ DestroyLocked
  /\ UNCHANGED <<now, grants>>

Admitted(v) == enclave # NoKey /\ ~IsExpired /\ valueUsed + v <= maxValueLimit

SignOverLimit(v) ==
  /\ enclave # NoKey /\ ~IsExpired
  /\ valueUsed + v > maxValueLimit
  /\ UNCHANGED vars

(* enclave.Open, ToECDSA or crypto.Sign fails: nothing has been charged.   *)
MutSignFails(v) == Admitted(v) /\ valueUsed' = valueUsed + v
                   /\ UNCHANGED <<enclave, address, expiresAt, maxValueLimit, now, grants>>
SignFails(v) == Admitted(v) /\ UNCHANGED vars

(* What hashOrder puts under the signature: big.Int.Bytes() drops the sign *)
(* of MakerAmount.  Credit is what such an order takes off the counter.    *)
SignedAmount(v) == IF v < 0 THEN -v ELSE v
Credit(v) == IF v < 0 THEN -v ELSE 0
Enter(g, v) == [g EXCEPT !.signed = @ + SignedAmount(v), !.credit = @ + Credit(v)]

MutSignOK(v) ==
  /\ Admitted(v)
  /\ grants' = [grants EXCEPT ![Current] = Enter(@, v)]
  /\ UNCHANGED <<enclave, address, expiresAt, maxValueLimit, valueUsed, now>>
SignOK(v) ==
  /\ Admitted(v)
  /\ valueUsed' = valueUsed + v
  /\ grants' = [grants EXCEPT ![Current] = Enter(@, v)]
  /\ UNCHANGED <<enclave, address, expiresAt, maxValueLimit, now>>

(* The address Status reports: empty once the session is gone or expired.  *)
StatusAddress == IF enclave = NoKey \/ IsExpired THEN NoKey ELSE address

Tick == now < MaxTime /\ now' = now + 1 /\ UNCHANGED <<session, grants>>

Next ==
  \/ \E k \in Keys, lim \in Limits : Activate(k, lim)
  \/ ActivateInvalid
  \/ SignNoSession
  \/ SignExpired
  \/ \E v \in Values : SignOverLimit(v) \/ SignFails(v) \/ SignOK(v)
  \/ Destroy
  \/ Tick

Spec == Init /\ [][Next]_vars

-----------------------------------------------------------------------------
Grant == [key : Keys, limit : Nat, deadline : Nat, signed : Nat, credit : Nat]

(* Type invariant of the session fields, the clock and the history.        *)
TypeOK ==
  /\ enclave \in Keys \cup {NoKey} /\ address \in Keys \cup {NoKey}
  /\ expiresAt \in Nat /\ maxValueLimit \in Nat /\ valueUsed \in Int
  /\ now \in Nat
  /\ grants \in Seq(Grant)

(* Whatever the order of activations, refusals, failures and expiries, the *)
(* amounts signed under one activation exceed its limit by no more than    *)
(* twice the amounts of its orders with a negative maker_amount; without   *)
(* such orders they stay within it.                                        *)
BudgetRespected == \A i \in DOMAIN grants : grants[i].signed <= grants[i].limit + 2 * grants[i].credit

(* What the service says of the limit: the "Maximum cumulative value (in   *)
(* USDC raw units) the session key is permitted to sign".                  *)
SignedWithinLimit == \A i \in DOMAIN grants : grants[i].signed <= grants[i].limit

(* While a key is held the manager's own fields describe the activation    *)
(* the key came from: the right key, address and deadline, and a counter   *)
(* that is short of what was signed by twice the negative orders' amounts, *)
(* which lowered it when they should have raised it, and by nothing else.  *)
LedgerAgrees ==
  enclave # NoKey =>
    /\ Current > 0
    /\ grants[Current].key = enclave /\ address = enclave
    /\ grants[Current].deadline = expiresAt
    /\ grants[Current].limit = maxValueLimit
    /\ grants[Current].signed - 2 * grants[Current].credit = valueUsed

(* The inductive invariant: the history alone does not bound what the next *)
(* signature may add; the agreement of the counter with it does.           *)
IInv == TypeOK /\ BudgetRespected /\ LedgerAgrees

(* The manager implements SigningBudget: signing maps to spending from the *)
(* open grant, or to Reverse for a negative amount, refusals and failures  *)
(* to nothing at all.                                                      *)
Budget == INSTANCE SigningBudget WITH open <- enclave # NoKey
ImplementsBudget == Budget!Spec
=============================================================================
