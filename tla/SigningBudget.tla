--------------------------- MODULE SigningBudget ---------------------------
(***************************************************************************)
(* What the signer promises the owner of a session key: every grant (one   *)
(* activation of a key, with a value limit and a deadline) is spent only   *)
(* while it is the open one, never past its deadline and never beyond its  *)
(* limit, except for what orders with a negative maker amount let through: *)
(* such an order is signed for the absolute value and gives as much back.  *)
(* There is no counter, key or lock here: only the grants and what has     *)
(* been signed under each of them.                                         *)
(***************************************************************************)
EXTENDS Integers, Sequences

CONSTANTS Keys,        \* the session keys
          Limits,      \* the value limits a grant may carry
          Values,      \* the maker amounts of orders
          TTL          \* life time of a grant

VARIABLES grants,      \* the grants made so far, oldest first
          open,        \* is the last grant open?
          now          \* time

vars == <<grants, open, now>>

Last == Len(grants)

Init == grants = << >> /\ open = FALSE /\ now = 0

Grant(k, lim) ==
  /\ grants' = Append(grants, [key |-> k, limit |-> lim, deadline |-> now + TTL, signed |-> 0, credit |-> 0])
  /\ open' = TRUE
  /\ UNCHANGED now

Revoke == open /\ open' = FALSE /\ UNCHANGED <<grants, now>>

Live == open /\ now <= grants[Last].deadline

Spend(v) ==
  /\ Live /\ v >= 0
  /\ grants[Last].signed + v <= grants[Last].limit + 2 * grants[Last].credit
  /\ grants' = [grants EXCEPT ![Last].signed = @ + v]
  /\ UNCHANGED <<open, now>>

(* An order for -v: v is signed, and v more may be signed on top of that.  *)
Reverse(v) ==
  /\ Live /\ v < 0
  /\ grants' = [grants EXCEPT ![Last].signed = @ - v, ![Last].credit = @ - v]
  /\ UNCHANGED <<open, now>>

Tick == now' = now + 1 /\ UNCHANGED <<grants, open>>

Next ==
  \/ \E k \in Keys, lim \in Limits : Grant(k, lim)
  \/ Revoke
  \/ \E v \in Values : Spend(v) \/ Reverse(v)
  \/ Tick

Spec == Init /\ [][Next]_vars
=============================================================================
