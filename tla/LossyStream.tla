---------------------------- MODULE LossyStream ----------------------------
(***************************************************************************)
(* What a broadcast of market updates promises its subscribers.  The       *)
(* updates of a market are numbered; a subscriber is offered every one of  *)
(* its markets from its own starting point on, each once and in order, and *)
(* an offer is lost only to a channel that is full.  There are no sources, *)
(* goroutines, lists or locks here.                                        *)
(***************************************************************************)
EXTENDS Naturals, Sequences

CONSTANTS Keys,            \* the markets
          Subs,
          Wants,           \* the markets of each subscriber
          Capacity         \* of each subscriber's channel

VARIABLES made,            \* updates made of each market
          joined,          \* who has subscribed
          next,            \* of each subscriber and market: the last number it was offered
          channel          \* what each subscriber has yet to receive

vars == <<made, joined, next, channel>>

Init ==
  /\ made = [k \in Keys |-> 0]
  /\ joined \subseteq Subs
  /\ next = [s \in Subs |-> [k \in Keys |-> 0]]
  /\ channel = [s \in Subs |-> << >>]

Make(k) ==
  /\ made' = [made EXCEPT ![k] = @ + 1]
  /\ UNCHANGED <<joined, next, channel>>

(* The updates made so far may have passed a new subscriber by.            *)
Starts(s) ==
  {f \in [Keys -> UNION {0 .. made[k] : k \in Keys}] :
     \A k \in Keys : IF k \in Wants[s] THEN f[k] <= made[k] ELSE f[k] = 0}

Join(s) ==
  /\ s \notin joined /\ joined' = joined \cup {s}
  /\ \E f \in Starts(s) : next' = [next EXCEPT ![s] = f]
  /\ UNCHANGED <<made, channel>>

Offer(s, k) ==
  /\ s \in joined /\ k \in Wants[s] /\ next[s][k] < made[k]
  /\ next' = [next EXCEPT ![s][k] = @ + 1]
  /\ channel' = IF Len(channel[s]) < Capacity[s]
                THEN [channel EXCEPT ![s] = Append(@, [key |-> k, n |-> next[s][k] + 1])]
                ELSE channel
  /\ UNCHANGED <<made, joined>>

Take(s) ==
  /\ channel[s] # << >> /\ channel' = [channel EXCEPT ![s] = Tail(@)]
  /\ UNCHANGED <<made, joined, next>>

Next ==
  \/ \E k \in Keys : Make(k) \/ \E s \in Subs : Offer(s, k)
  \/ \E s \in Subs : Join(s) \/ Take(s)

Spec == Init /\ [][Next]_vars
=============================================================================
