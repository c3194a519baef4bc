-------------------------- MODULE RedisWriterProofs --------------------------
(***************************************************************************)
(* The Broadcaster offers every update once and in order to everybody it   *)
(* owes it to, for any sources, markets, subscribers and capacities, and   *)
(* so implements LossyStream; the Redis writer on top of it never leaves   *)
(* an old price standing that it was not told of by a drop or a failure.   *)
(***************************************************************************)
EXTENDS RedisWriter, FiniteSetTheorems, SequenceTheorems, TLAPS

USE SourceAssumption, SubAssumption, CapacityAssumption, BoundAssumption

(* Sequences as the channels use them.                                     *)
LEMMA Elements ==
  ASSUME NEW E, NEW q \in Seq(E)
  PROVE  Len(q) \in Nat /\ DOMAIN q = 1 .. Len(q) /\ \A i \in DOMAIN q : q[i] \in E
OBVIOUS

LEMMA Appended ==
  ASSUME NEW E, NEW q \in Seq(E), NEW e \in E
  PROVE  /\ Append(q, e) \in Seq(E) /\ Len(Append(q, e)) = Len(q) + 1
         /\ DOMAIN Append(q, e) = DOMAIN q \cup {Len(q) + 1}
         /\ \A i \in DOMAIN q : Append(q, e)[i] = q[i]
         /\ Append(q, e)[Len(q) + 1] = e
OBVIOUS

LEMMA Removed ==
  ASSUME NEW E, NEW q \in Seq(E), q # << >>
  PROVE  /\ 1 \in DOMAIN q /\ Head(q) = q[1] /\ Head(q) \in E
         /\ Tail(q) \in Seq(E) /\ Len(Tail(q)) = Len(q) - 1
         /\ \A i \in DOMAIN Tail(q) : i + 1 \in DOMAIN q /\ Tail(q)[i] = q[i + 1]
         /\ \A i \in DOMAIN q : i # 1 => i - 1 \in DOMAIN Tail(q)
OBVIOUS

(* A market's numbers lie among all the numbers.                           *)
LEMMA SmallNumbers ==
  ASSUME NEW k \in Keys, NEW n \in Nat, n <= MaxUpdates[k]
  PROVE  n \in Numbers
<1>1. n \in 0 .. MaxUpdates[k]
  OBVIOUS
<1> QED
  BY <1>1 DEF Numbers

LEMMA NumbersAreNat == Numbers \subseteq Nat
BY DEF Numbers

(* What a channel holds of a market after an append, and before a receive. *)
LEMMA NumbersAppended ==
  ASSUME NEW q \in Seq(Update), NEW u \in Update, NEW k \in Keys
  PROVE  /\ u.key = k => NumbersOf(k, Append(q, u)) = NumbersOf(k, q) \cup {u.n}
         /\ u.key # k => NumbersOf(k, Append(q, u)) = NumbersOf(k, q)
<1> DEFINE r == Append(q, u)
<1>1. /\ DOMAIN r = DOMAIN q \cup {Len(q) + 1} /\ Len(q) + 1 \notin DOMAIN q
      /\ \A i \in DOMAIN q : r[i] = q[i]
      /\ r[Len(q) + 1] = u
  BY Appended, Elements
<1> HIDE DEF r
<1> QED
  BY <1>1 DEF NumbersOf, r

LEMMA NumbersRemoved ==
  ASSUME NEW q \in Seq(Update), q # << >>, NEW k \in Keys
  PROVE  /\ Head(q).key = k => NumbersOf(k, q) = NumbersOf(k, Tail(q)) \cup {Head(q).n}
         /\ Head(q).key # k => NumbersOf(k, q) = NumbersOf(k, Tail(q))
<1> DEFINE r == Tail(q)
<1>1. /\ 1 \in DOMAIN q /\ Head(q) = q[1]
      /\ \A i \in DOMAIN r : i + 1 \in DOMAIN q /\ r[i] = q[i + 1]
      /\ \A i \in DOMAIN q : i # 1 => i - 1 \in DOMAIN r /\ r[i - 1] = q[i]
  BY Removed, Elements
<1> HIDE DEF r
<1>2. NumbersOf(k, r) \subseteq NumbersOf(k, q)
  BY <1>1 DEF NumbersOf
<1>3. ASSUME NEW i \in DOMAIN q, q[i].key = k, i # 1
      PROVE  q[i].n \in NumbersOf(k, r)
  BY <1>1, <1>3 DEF NumbersOf
<1>4. Head(q).key = k => Head(q).n \in NumbersOf(k, q)
  BY <1>1 DEF NumbersOf
<1>5. ASSUME NEW n \in NumbersOf(k, q)
      PROVE  n \in NumbersOf(k, r) \cup IF Head(q).key = k THEN {Head(q).n} ELSE {}
  <2>1. PICK i \in DOMAIN q : q[i].key = k /\ n = q[i].n
    BY DEF NumbersOf
  <2> QED
    BY <2>1, <1>1, <1>3
<1> QED
  BY <1>2, <1>4, <1>5 DEF r

LEMMA IncreasingAppended ==
  ASSUME NEW q \in Seq(Update), NEW u \in Update, Increasing(q),
         \A n \in NumbersOf(u.key, q) : n < u.n
  PROVE  Increasing(Append(q, u))
<1> DEFINE r == Append(q, u)
<1>1. /\ DOMAIN r = DOMAIN q \cup {Len(q) + 1} /\ DOMAIN q = 1 .. Len(q) /\ Len(q) \in Nat
      /\ \A i \in DOMAIN q : r[i] = q[i]
      /\ r[Len(q) + 1] = u
  BY Appended, Elements
<1>2. \A i \in DOMAIN q : q[i].key = u.key => q[i].n < u.n
  BY DEF NumbersOf
<1> HIDE DEF r
<1>3. ASSUME NEW i \in DOMAIN r, NEW j \in DOMAIN r, i < j, r[i].key = r[j].key
      PROVE  r[i].n < r[j].n
  <2>1. i \in DOMAIN q
    BY <1>1, <1>3
  <2>2. CASE j \in DOMAIN q
    BY <1>1, <1>3, <2>1, <2>2 DEF Increasing
  <2>3. CASE j = Len(q) + 1
    BY <1>1, <1>2, <1>3, <2>1, <2>3
  <2> QED
    BY <1>1, <2>2, <2>3
<1> QED
  BY <1>3 DEF Increasing, r

LEMMA IncreasingRemoved ==
  ASSUME NEW q \in Seq(Update), q # << >>, Increasing(q)
  PROVE  /\ Increasing(Tail(q))
         /\ \A n \in NumbersOf(Head(q).key, Tail(q)) : Head(q).n < n
<1> DEFINE r == Tail(q)
<1>1. /\ 1 \in DOMAIN q /\ Head(q) = q[1] /\ r \in Seq(Update) /\ DOMAIN r \subseteq Nat \ {0}
      /\ \A i \in DOMAIN r : i + 1 \in DOMAIN q /\ r[i] = q[i + 1]
  BY Removed, Elements
<1> HIDE DEF r
<1>2. ASSUME NEW i \in DOMAIN r, NEW j \in DOMAIN r, i < j, r[i].key = r[j].key
      PROVE  r[i].n < r[j].n
  <2>1. i + 1 < j + 1
    BY <1>1, <1>2
  <2>2. i + 1 \in DOMAIN q /\ j + 1 \in DOMAIN q /\ q[i + 1].key = q[j + 1].key
    BY <1>1, <1>2
  <2>3. q[i + 1].n < q[j + 1].n
    BY <2>1, <2>2 DEF Increasing
  <2> QED
    BY <1>1, <2>3
<1>3. ASSUME NEW i \in DOMAIN r, r[i].key = q[1].key
      PROVE  q[1].n < r[i].n
  <2>1. 1 < i + 1
    BY <1>1
  <2> QED
    BY <1>1, <1>3, <2>1 DEF Increasing
<1> QED
  BY <1>1, <1>2, <1>3 DEF Increasing, NumbersOf, r

(* What waits without a gap is counted by its first number.                *)
LEMMA CountOfInterval ==
  ASSUME NEW m \in Nat, NEW t \in Nat, t <= m, NEW W, W = t + 1 .. m
  PROVE  m - Cardinality(W) = t
<1>1. Cardinality(t + 1 .. m) = IF t + 1 > m THEN 0 ELSE m - (t + 1) + 1
  BY FS_Interval
<1> QED
  BY <1>1

LEMMA TakenNext ==
  ASSUME NEW k \in Keys, made'[k] \in Nat, NEW t \in Nat, t <= made'[k],
         Waiting(k)' = t + 1 .. made'[k]
  PROVE  Taken(k)' = t
<1> DEFINE W == Waiting(k)'
           m == made'[k]
<1>1. m \in Nat /\ t <= m /\ W = t + 1 .. m
  OBVIOUS
<1>2. Taken(k)' = m - Cardinality(W)
  BY DEF Taken
<1> HIDE DEF W, m
<1> QED
  BY <1>1, <1>2, CountOfInterval

-----------------------------------------------------------------------------
(* The counts of the channels, as each kind of step leaves them.           *)
LEMMA CountsStay ==
  ASSUME UNCHANGED adapters
  PROVE  \A k \in Keys : Waiting(k)' = Waiting(k) /\ Taken(k)' = Taken(k)
BY DEF adapters, Waiting, Taken

LEMMA EmitCounts ==
  ASSUME BInv, NEW k \in Keys, NEW p \in PricesOf[k], Emit(k, p)
  PROVE  /\ InOrder' /\ NoGap' /\ \A l \in Keys : Taken(l)' = Taken(l)
         /\ made' \in [Keys -> Numbers] /\ \A l \in Keys : made'[l] <= MaxUpdates[l]
         /\ source' \in [Sources -> Seq(Update)]
         /\ \A a \in Sources : Len(source'[a]) <= SourceCap
<1> DEFINE b == SourceOf[k]
           u == [key |-> k, price |-> p, n |-> made[k] + 1]
           q == source[b]
<1>1. /\ made \in [Keys -> Numbers] /\ \A l \in Keys : made[l] \in Nat /\ made[l] <= MaxUpdates[l]
      /\ source \in [Sources -> Seq(Update)] /\ b \in Sources /\ q \in Seq(Update)
  BY NumbersAreNat DEF BInv, BTypeOK
<1>2. made[k] + 1 \in Numbers
  BY <1>1, SmallNumbers DEF Emit
<1>3. u \in Update
  BY <1>2 DEF Update
<1>4. source' = [source EXCEPT ![b] = Append(q, u)] /\ Len(q) < SourceCap
  BY DEF Emit
<1>5. made' = [made EXCEPT ![k] = made[k] + 1] /\ made[k] < MaxUpdates[k]
  BY DEF Emit
<1> HIDE DEF u
<1>6. /\ source'[b] = Append(q, u)
      /\ \A a \in Sources : a # b => source'[a] = source[a]
  BY <1>1, <1>4
<1>7. /\ Append(q, u) \in Seq(Update) /\ Len(Append(q, u)) = Len(q) + 1 /\ Len(q) \in Nat
      /\ DOMAIN Append(q, u) = DOMAIN q \cup {Len(q) + 1} /\ DOMAIN q = 1 .. Len(q)
      /\ \A i \in DOMAIN q : Append(q, u)[i] = q[i]
      /\ Append(q, u)[Len(q) + 1] = u
  BY <1>1, <1>3, Appended, Elements
<1>8. u.key = k /\ u.n = made[k] + 1
  BY DEF u
<1>9. Waiting(k)' = Waiting(k) \cup {made[k] + 1}
  BY <1>1, <1>3, <1>6, <1>8, NumbersAppended DEF Waiting
<1>10. ASSUME NEW l \in Keys, l # k PROVE Waiting(l)' = Waiting(l) /\ Taken(l)' = Taken(l)
  <2>1. Waiting(l)' = Waiting(l)
    <3>1. SourceOf[l] \in Sources
      OBVIOUS
    <3>2. CASE SourceOf[l] = b
      <4>1. NumbersOf(l, Append(q, u)) = NumbersOf(l, q)
        BY <1>1, <1>3, <1>8, <1>10, NumbersAppended
      <4>2. Waiting(l) = NumbersOf(l, q) /\ Waiting(l)' = NumbersOf(l, source'[b])
        BY <3>2 DEF Waiting
      <4> QED
        BY <4>1, <4>2, <1>6
    <3>3. CASE SourceOf[l] # b
      BY <1>6, <3>1, <3>3 DEF Waiting
    <3> QED
      BY <3>2, <3>3
  <2>2. made'[l] = made[l]
    BY <1>1, <1>5, <1>10
  <2> QED
    BY <2>1, <2>2 DEF Taken
<1>11. Taken(k) \in 0 .. made[k] /\ Waiting(k) = Taken(k) + 1 .. made[k]
  BY DEF BInv, NoGap
<1>12. Waiting(k)' = Taken(k) + 1 .. made[k] + 1
  BY <1>1, <1>9, <1>11
<1>13. Taken(k)' = Taken(k)
  <2> DEFINE t == Taken(k)
  <2>1. made'[k] = made[k] + 1 /\ made'[k] \in Nat
    BY <1>1, <1>5
  <2>2. t \in Nat /\ t <= made'[k]
    BY <1>1, <1>11, <2>1
  <2>3. Waiting(k)' = t + 1 .. made'[k]
    BY <1>12, <2>1
  <2> HIDE DEF t
  <2>4. Taken(k)' = t
    BY <2>1, <2>2, <2>3, TakenNext
  <2> QED
    BY <2>4 DEF t
<1>14. NoGap'
  <2>1. Taken(k)' \in 0 .. made'[k] /\ Waiting(k)' = Taken(k)' + 1 .. made'[k]
    BY <1>1, <1>5, <1>11, <1>12, <1>13
  <2>2. ASSUME NEW l \in Keys, l # k
        PROVE  Taken(l)' \in 0 .. made'[l] /\ Waiting(l)' = Taken(l)' + 1 .. made'[l]
    <3>1. made'[l] = made[l]
      BY <1>1, <1>5, <2>2
    <3>2. Taken(l) \in 0 .. made[l] /\ Waiting(l) = Taken(l) + 1 .. made[l]
      BY DEF BInv, NoGap
    <3> QED
      BY <1>10, <2>2, <3>1, <3>2
  <2> QED
    BY <2>1, <2>2 DEF NoGap
<1>15. \A n \in NumbersOf(k, q) : n < made[k] + 1
  BY <1>1, <1>11 DEF Waiting
<1>16. InOrder'
  <2> SUFFICES ASSUME NEW a \in Sources
               PROVE  /\ \A i \in DOMAIN source'[a] : SourceOf[source'[a][i].key] = a
                      /\ Increasing(source'[a])
    BY DEF InOrder
  <2>1. CASE a # b
    BY <2>1, <1>6 DEF BInv, InOrder
  <2>2. CASE a = b
    <3>1. \A i \in DOMAIN source'[a] : SourceOf[source'[a][i].key] = a
      BY <2>2, <1>6, <1>7, <1>8 DEF BInv, InOrder
    <3>2. Increasing(source'[a])
      BY <2>2, <1>1, <1>3, <1>6, <1>8, <1>15, IncreasingAppended DEF BInv, InOrder
    <3> QED
      BY <3>1, <3>2
  <2> QED
    BY <2>1, <2>2
<1>17. made' \in [Keys -> Numbers] /\ \A l \in Keys : made'[l] <= MaxUpdates[l]
  BY <1>1, <1>2, <1>5
<1>18. source' \in [Sources -> Seq(Update)] /\ \A a \in Sources : Len(source'[a]) <= SourceCap
  <2>1. source' \in [Sources -> Seq(Update)]
    BY <1>1, <1>4, <1>7
  <2>2. ASSUME NEW a \in Sources PROVE Len(source'[a]) <= SourceCap
    BY <1>4, <1>6, <1>7 DEF BInv, BTypeOK
  <2> QED
    BY <2>1, <2>2
<1> QED
  BY <1>10, <1>13, <1>14, <1>16, <1>17, <1>18
LEMMA ReceiveCounts ==
  ASSUME BInv, NEW a \in Sources, Receive(a), NEW u, u = Head(source[a]), NEW k, k = u.key
  PROVE  /\ InOrder' /\ NoGap' /\ u \in Update /\ SourceOf[k] = a
         /\ u.n = Taken(k)' /\ Taken(k)' = Taken(k) + 1 /\ Taken(k) \in Nat
         /\ \A l \in Keys : l # k => Taken(l)' = Taken(l)
         /\ source' \in [Sources -> Seq(Update)]
         /\ \A b \in Sources : Len(source'[b]) <= SourceCap
<1> DEFINE q == source[a]
           t == Taken(k)
<1>1. /\ made \in [Keys -> Numbers] /\ \A l \in Keys : made[l] \in Nat
      /\ source \in [Sources -> Seq(Update)] /\ q \in Seq(Update) /\ q # << >>
  BY NumbersAreNat DEF BInv, BTypeOK, Receive
<1>2. made' = made /\ source' = [source EXCEPT ![a] = Tail(q)]
  BY DEF Receive
<1>3. source'[a] = Tail(q) /\ \A b \in Sources : b # a => source'[b] = source[b]
  BY <1>1, <1>2
<1>0. u = Head(q) /\ k = u.key
  OBVIOUS
<1>4. /\ 1 \in DOMAIN q /\ u = q[1] /\ u \in Update /\ Tail(q) \in Seq(Update)
      /\ Len(Tail(q)) = Len(q) - 1 /\ Len(q) \in Nat
      /\ \A i \in DOMAIN Tail(q) : i + 1 \in DOMAIN q /\ Tail(q)[i] = q[i + 1]
  BY <1>0, <1>1, Removed, Elements
<1>5. SourceOf[k] = a /\ Increasing(q) /\ k \in Keys /\ u.n \in Nat
  <2>1. k \in Keys /\ u.n \in Nat
    BY <1>0, <1>4, NumbersAreNat DEF Update
  <2>2. Increasing(q) /\ \A i \in DOMAIN q : SourceOf[q[i].key] = a
    BY DEF BInv, InOrder
  <2> QED
    BY <2>1, <2>2, <1>0, <1>4
<1>6. t \in 0 .. made[k] /\ Waiting(k) = t + 1 .. made[k]
  BY <1>5 DEF BInv, NoGap
<1>7. Waiting(k) = NumbersOf(k, q) /\ Waiting(k)' = NumbersOf(k, Tail(q))
  BY <1>3, <1>5 DEF Waiting
<1>8. Waiting(k) = Waiting(k)' \cup {u.n}
  BY <1>0, <1>1, <1>5, <1>7, NumbersRemoved
<1>9. \A n \in Waiting(k)' : u.n < n
  <2>1. \A n \in NumbersOf(Head(q).key, Tail(q)) : Head(q).n < n
    BY <1>1, <1>5, IncreasingRemoved
  <2> QED
    BY <1>0, <1>7, <2>1
<1> HIDE DEF t, q
<1>10. u.n = t + 1 /\ t + 1 <= made[k] /\ Waiting(k)' = t + 2 .. made[k]
  <2> DEFINE W == Waiting(k)'
             m == made[k]
  <2>1. t \in Nat /\ m \in Nat /\ t <= m /\ W \cup {u.n} = t + 1 .. m
    BY <1>1, <1>5, <1>6, <1>8
  <2>2. \A n \in W : u.n < n
    BY <1>9
  <2> HIDE DEF W, m
  <2>3. u.n = t + 1 /\ t + 1 <= m
    <3>1. u.n \in t + 1 .. m
      BY <2>1
    <3>2. t + 1 \in W \cup {u.n}
      BY <2>1, <3>1
    <3> QED
      BY <2>1, <2>2, <3>1, <3>2
  <2>4. W = t + 2 .. m
    <3>1. ASSUME NEW n \in W PROVE n \in t + 2 .. m
      <4>1. n \in t + 1 .. m /\ u.n < n
        BY <2>1, <2>2
      <4> QED
        BY <2>1, <2>3, <4>1
    <3>2. ASSUME NEW n \in t + 2 .. m PROVE n \in W
      <4>1. n \in t + 1 .. m /\ n # t + 1
        BY <2>1
      <4> QED
        BY <2>1, <2>3, <4>1
    <3> QED
      BY <3>1, <3>2
  <2> QED
    BY <2>3, <2>4 DEF W, m
<1>11. Taken(k)' = t + 1
  <2> DEFINE v == t + 1
  <2>1. v \in Nat /\ v <= made'[k] /\ made'[k] \in Nat /\ Waiting(k)' = v + 1 .. made'[k]
    BY <1>1, <1>2, <1>5, <1>6, <1>10
  <2> HIDE DEF v
  <2>2. Taken(k)' = v
    BY <1>5, <2>1, TakenNext
  <2> QED
    BY <2>2 DEF v
<1>12. ASSUME NEW l \in Keys, l # k PROVE Waiting(l)' = Waiting(l) /\ Taken(l)' = Taken(l)
  <2>1. Waiting(l)' = Waiting(l)
    <3>1. CASE SourceOf[l] = a
      <4>1. NumbersOf(l, q) = NumbersOf(l, Tail(q))
        BY <1>0, <1>1, <1>12, NumbersRemoved DEF q
      <4>2. Waiting(l) = NumbersOf(l, q) /\ Waiting(l)' = NumbersOf(l, source'[a])
        BY <3>1 DEF Waiting, q
      <4> QED
        BY <4>1, <4>2, <1>3
    <3>2. CASE SourceOf[l] # a
      <4>1. SourceOf[l] \in Sources
        OBVIOUS
      <4> QED
        BY <3>2, <4>1, <1>3 DEF Waiting
    <3> QED
      BY <3>1, <3>2
  <2> QED
    BY <2>1, <1>2 DEF Taken
<1>13. NoGap'
  <2>1. Taken(k)' \in 0 .. made'[k] /\ Waiting(k)' = Taken(k)' + 1 .. made'[k]
    BY <1>1, <1>2, <1>5, <1>6, <1>10, <1>11
  <2>2. ASSUME NEW l \in Keys, l # k
        PROVE  Taken(l)' \in 0 .. made'[l] /\ Waiting(l)' = Taken(l)' + 1 .. made'[l]
    BY <1>2, <1>12, <2>2 DEF BInv, NoGap
  <2> QED
    BY <2>1, <2>2 DEF NoGap
<1>14. InOrder'
  <2> SUFFICES ASSUME NEW b \in Sources
               PROVE  /\ \A i \in DOMAIN source'[b] : SourceOf[source'[b][i].key] = b
                      /\ Increasing(source'[b])
    BY DEF InOrder
  <2>1. CASE b # a
    BY <2>1, <1>3 DEF BInv, InOrder
  <2>2. CASE b = a
    <3>1. \A i \in DOMAIN q : SourceOf[q[i].key] = a
      BY DEF BInv, InOrder, q
    <3>2. \A i \in DOMAIN source'[b] : SourceOf[source'[b][i].key] = b
      BY <2>2, <3>1, <1>3, <1>4
    <3>3. Increasing(source'[b])
      BY <2>2, <1>1, <1>3, <1>5, IncreasingRemoved
    <3> QED
      BY <3>2, <3>3
  <2> QED
    BY <2>1, <2>2
<1>15. source' \in [Sources -> Seq(Update)] /\ \A b \in Sources : Len(source'[b]) <= SourceCap
  <2>1. \A b \in Sources : Len(source[b]) <= SourceCap
    BY DEF BInv, BTypeOK
  <2>2. Len(q) <= SourceCap
    BY <2>1 DEF q
  <2> QED
    BY <1>1, <1>2, <1>3, <1>4, <2>1, <2>2
<1>16. u.n = Taken(k)' /\ Taken(k)' = Taken(k) + 1 /\ Taken(k) \in Nat
  <2>1. t \in Nat
    BY <1>1, <1>5, <1>6
  <2> QED
    BY <2>1, <1>10, <1>11 DEF t
<1> QED
  BY <1>4, <1>5, <1>12, <1>13, <1>14, <1>15, <1>16
LEMMA AdaptersStay ==
  ASSUME BInv, UNCHANGED adapters
  PROVE  InOrder' /\ NoGap' /\ \A k \in Keys : Taken(k)' = Taken(k)
<1>1. UNCHANGED <<made, source>>
  BY DEF adapters
<1>2. InOrder'
  BY <1>1 DEF BInv, InOrder, Increasing
<1>3. NoGap'
  <2> SUFFICES ASSUME NEW k \in Keys
               PROVE  Taken(k)' \in 0 .. made'[k] /\ Waiting(k)' = Taken(k)' + 1 .. made'[k]
    BY DEF NoGap
  <2>1. Waiting(k)' = Waiting(k) /\ Taken(k)' = Taken(k)
    BY CountsStay
  <2> QED
    BY <1>1, <2>1 DEF BInv, NoGap
<1> QED
  BY <1>2, <1>3, CountsStay

-----------------------------------------------------------------------------
(* What a goroutine owes moves from the first list to the second, and ends *)
(* with the offer; a new subscriber is owed what is still to come to it.   *)
LEMMA EmitKeeps ==
  ASSUME BInv, NEW k \in Keys, NEW p \in PricesOf[k], Emit(k, p)
  PROVE  BInv'
<1> USE DEF inbox, workers
<1>1. /\ InOrder' /\ NoGap' /\ \A l \in Keys : Taken(l)' = Taken(l)
      /\ UNCHANGED <<subscribed, queue, offered, stage, update, left, cancelled>>
  BY EmitCounts DEF Emit
<1>2. BTypeOK'
  BY <1>1, EmitCounts DEF BInv, BTypeOK
<1>3. InHand'
  <2> SUFFICES ASSUME NEW a \in Sources
               PROVE  /\ Busy(a) => /\ update[a] \in Update /\ SourceOf[update[a].key] = a
                                    /\ update[a].n = Taken(update[a].key)' /\ update[a].n > 0
                      /\ left[a] \subseteq CASE stage[a] = "keyed" -> Matching(update[a].key)
                                           [] stage[a] = "all"   -> subscribed \cap Unified
                                           [] OTHER              -> {}
    BY <1>1 DEF InHand, Busy, Matching
  <2>1. update[a] \in Update => update[a].key \in Keys
    BY DEF Update
  <2> QED
    BY <1>1, <2>1 DEF BInv, InHand
<1>4. NoneMissed'
  BY <1>1 DEF BInv, NoneMissed, Owed, Busy, MarketsOf
<1> QED
  BY <1>1, <1>2, <1>3, <1>4 DEF BInv

LEMMA SubscribeKeeps ==
  ASSUME BInv, NEW s \in Subs, Subscribe(s)
  PROVE  BInv' /\ \A k \in Keys : offered'[s][k] \in 0 .. made[k]
<1> USE DEF adapters, workers
<1>1. /\ InOrder' /\ NoGap' /\ (\A k \in Keys : Taken(k)' = Taken(k))
      /\ UNCHANGED <<made, source, queue, stage, update, left, cancelled>>
      /\ subscribed' = subscribed \cup {s} /\ s \notin subscribed /\ ListFree(s)
  BY AdaptersStay DEF Subscribe
<1>2. \A k \in Keys : Taken(k) \in 0 .. made[k] /\ made[k] \in Nat /\ made[k] <= MaxUpdates[k]
  BY NumbersAreNat DEF BInv, BTypeOK, NoGap
<1>3. ASSUME NEW k \in Keys
      PROVE  /\ Pending(s, k) <=> s \in Unified /\ stage[SourceOf[k]] = "keyed" /\ update[SourceOf[k]].key = k
             /\ Pending(s, k) => Taken(k) > 0
  <2>1. SourceOf[k] \in Sources
    OBVIOUS
  <2>2. \A a \in Sources : stage[a] = "keyed" /\ update[a].key = k =>
          a = SourceOf[k] /\ Taken(k) > 0
    BY DEF BInv, InHand, Busy
  <2> QED
    BY <2>1, <2>2 DEF Pending
<1>4. ASSUME NEW k \in Keys
      PROVE  (IF Pending(s, k) THEN Taken(k) - 1 ELSE Taken(k)) \in Numbers
  <2> DEFINE n == IF Pending(s, k) THEN Taken(k) - 1 ELSE Taken(k)
  <2>1. n \in Nat /\ n <= MaxUpdates[k]
    BY <1>2, <1>3
  <2> HIDE DEF n
  <2>2. n \in Numbers
    BY <2>1, SmallNumbers
  <2> QED
    BY <2>2 DEF n
<1>5. /\ offered' \in [Subs -> [Keys -> Numbers]]
      /\ \A k \in Keys : offered'[s][k] = IF Pending(s, k) THEN Taken(k) - 1 ELSE Taken(k)
      /\ \A r \in Subs : r # s => offered'[r] = offered[r]
  <2> DEFINE f == [k \in Keys |-> IF Pending(s, k) THEN Taken(k) - 1 ELSE Taken(k)]
  <2>1. f \in [Keys -> Numbers]
    BY <1>4
  <2>2. offered' = [offered EXCEPT ![s] = f]
    BY DEF Subscribe
  <2>3. \A k \in Keys : f[k] = IF Pending(s, k) THEN Taken(k) - 1 ELSE Taken(k)
    OBVIOUS
  <2> HIDE DEF f
  <2> QED
    BY <2>1, <2>2, <2>3 DEF BInv, BTypeOK
<1>6. BTypeOK'
  BY <1>1, <1>5 DEF BInv, BTypeOK
<1>7. InHand'
  <2> SUFFICES ASSUME NEW a \in Sources
               PROVE  /\ Busy(a) => /\ update[a] \in Update /\ SourceOf[update[a].key] = a
                                    /\ update[a].n = Taken(update[a].key)' /\ update[a].n > 0
                      /\ left[a] \subseteq CASE stage[a] = "keyed" -> Matching(update[a].key)'
                                           [] stage[a] = "all"   -> subscribed' \cap Unified
                                           [] OTHER              -> {}
    BY <1>1 DEF InHand, Busy, Matching
  <2>1. update[a] \in Update => update[a].key \in Keys
    BY DEF Update
  <2>2. Matching(update[a].key) \subseteq Matching(update[a].key)'
    BY <1>1 DEF Matching
  <2> QED
    BY <1>1, <2>1, <2>2 DEF BInv, InHand
<1>8. NoneMissed'
  <2> SUFFICES ASSUME NEW k \in Keys, NEW r \in subscribed', k \in MarketsOf(r)
               PROVE  offered'[r][k] = IF Owed(r, k) THEN Taken(k) - 1 ELSE Taken(k)
    BY <1>1 DEF NoneMissed, Owed, Busy, MarketsOf
  <2>1. CASE r = s
    <3>1. SourceOf[k] \in Sources
      OBVIOUS
    <3>2. left[SourceOf[k]] \subseteq subscribed
      BY <3>1 DEF BInv, InHand, Matching
    <3>3. Owed(s, k) <=> Pending(s, k)
      BY <1>1, <1>3, <3>1, <3>2 DEF Owed, Busy, ListFree
    <3> QED
      BY <2>1, <3>3, <1>5
  <2>2. CASE r # s
    <3>1. r \in subscribed /\ r \in Subs
      BY <2>2, <1>1 DEF BInv, BTypeOK
    <3> QED
      BY <2>2, <3>1, <1>5 DEF BInv, NoneMissed
  <2> QED
    BY <2>1, <2>2
<1>9. ASSUME NEW k \in Keys PROVE offered'[s][k] \in 0 .. made[k]
  BY <1>2, <1>3, <1>5
<1> QED
  BY <1>1, <1>6, <1>7, <1>8, <1>9 DEF BInv
LEMMA ReceiveKeeps ==
  ASSUME BInv, NEW a \in Sources, Receive(a)
  PROVE  BInv'
<1> USE DEF inbox
<1> PICK u : u = Head(source[a])
  OBVIOUS
<1> PICK k : k = u.key
  OBVIOUS
<1>1. /\ InOrder' /\ NoGap' /\ u \in Update /\ SourceOf[k] = a
      /\ u.n = Taken(k)' /\ Taken(k)' = Taken(k) + 1 /\ Taken(k) \in Nat
      /\ \A l \in Keys : l # k => Taken(l)' = Taken(l)
      /\ source' \in [Sources -> Seq(Update)]
      /\ \A b \in Sources : Len(source'[b]) <= SourceCap
  BY ReceiveCounts
<1>2. /\ k \in Keys /\ u.n \in Nat /\ u.n > 0
      /\ UNCHANGED <<made, subscribed, queue, offered, cancelled>>
  BY <1>1 DEF Update, Receive
<1>3. /\ update' = [update EXCEPT ![a] = u] /\ stage' = [stage EXCEPT ![a] = "keyed"]
      /\ left' = [left EXCEPT ![a] = Matching(k)] /\ stage[a] = "select"
  BY DEF Receive, Goto
<1>4. Matching(k) \subseteq subscribed \cap Filtered /\ Matching(k) \subseteq Subs
  BY DEF Matching, Subs
<1>5. /\ update' \in [Sources -> Update \cup {NoUpdate}] /\ left' \in [Sources -> SUBSET Subs]
      /\ stage' \in [Sources -> {"select", "keyed", "all", "exit"}]
      /\ update'[a] = u /\ stage'[a] = "keyed" /\ left'[a] = Matching(k)
      /\ \A b \in Sources : b # a =>
           update'[b] = update[b] /\ stage'[b] = stage[b] /\ left'[b] = left[b]
  BY <1>1, <1>3, <1>4 DEF BInv, BTypeOK
<1>6. BTypeOK'
  BY <1>1, <1>2, <1>5 DEF BInv, BTypeOK
<1>7. InHand'
  <2> SUFFICES ASSUME NEW b \in Sources
               PROVE  /\ Busy(b)' => /\ update'[b] \in Update /\ SourceOf[update'[b].key] = b
                                     /\ update'[b].n = Taken(update[b].key)' /\ update'[b].n > 0
                      /\ left'[b] \subseteq CASE stage'[b] = "keyed" -> Matching(update[b].key)'
                                            [] stage'[b] = "all"   -> subscribed \cap Unified
                                            [] OTHER              -> {}
    BY <1>2 DEF InHand
  <2>1. CASE b = a
    <3>1. Matching(update[a].key)' = Matching(k) /\ Taken(update[a].key)' = Taken(k)'
      BY <1>2, <1>5 DEF Matching, Taken, Waiting
    <3> QED
      BY <2>1, <3>1, <1>1, <1>2, <1>5
  <2>2. CASE b # a
    <3>1. update[b] \in Update /\ SourceOf[update[b].key] = b =>
            update[b].key \in Keys /\ update[b].key # k
      BY <2>2, <1>1 DEF Update
    <3> PICK l : l = update[b].key
      OBVIOUS
    <3>2. Matching(update[b].key)' = Matching(l) /\ Taken(update[b].key)' = Taken(l)'
      BY <2>2, <1>2, <1>5 DEF Matching, Taken, Waiting
    <3>3. /\ Busy(b) => /\ update[b] \in Update /\ SourceOf[l] = b
                        /\ update[b].n = Taken(l) /\ update[b].n > 0
          /\ left[b] \subseteq CASE stage[b] = "keyed" -> Matching(l)
                               [] stage[b] = "all"   -> subscribed \cap Unified
                               [] OTHER              -> {}
      BY DEF BInv, InHand
    <3>4. Busy(b)' <=> Busy(b)
      BY <2>2, <1>5 DEF Busy
    <3>5. Busy(b) => Taken(l)' = Taken(l)
      BY <3>1, <3>3, <1>1
    <3> QED
      BY <2>2, <3>2, <3>3, <3>4, <3>5, <1>5
  <2> QED
    BY <2>1, <2>2
<1>8. NoneMissed'
  <2> SUFFICES ASSUME NEW l \in Keys, NEW s \in subscribed, l \in MarketsOf(s)
               PROVE  offered[s][l] = IF Owed(s, l)' THEN Taken(l)' - 1 ELSE Taken(l)'
    BY <1>2 DEF NoneMissed, MarketsOf
  <2>1. SourceOf[l] \in Sources /\ s \in Filtered \cup Unified
    BY DEF BInv, BTypeOK, Subs
  <2>2. CASE l = k
    <3>1. Owed(s, k)'
      <4>1. s \in Filtered => s \in Matching(k)
        BY <2>2 DEF Matching, MarketsOf
      <4> QED
        BY <2>1, <4>1, <1>1, <1>5 DEF Owed, Busy
    <3>2. ~Owed(s, k) /\ offered[s][k] = Taken(k)
      BY <1>1, <1>3, <2>2 DEF Owed, Busy, BInv, NoneMissed
    <3>3. offered[s][k] = IF Owed(s, k)' THEN Taken(k)' - 1 ELSE Taken(k)'
      BY <3>1, <3>2, <1>1
    <3> QED
      BY <2>2, <3>3
  <2>3. CASE l # k
    <3>1. Taken(l)' = Taken(l)
      BY <2>3, <1>1
    <3>2. Owed(s, l)' <=> Owed(s, l)
      <4>1. CASE SourceOf[l] # a
        BY <4>1, <2>1, <1>5 DEF Owed, Busy
      <4>2. CASE SourceOf[l] = a
        BY <4>2, <2>3, <1>2, <1>3, <1>5 DEF Owed, Busy
      <4> QED
        BY <4>1, <4>2
    <3> QED
      BY <3>1, <3>2 DEF BInv, NoneMissed
  <2> QED
    BY <2>2, <2>3
<1> QED
  BY <1>1, <1>6, <1>7, <1>8 DEF BInv

LEMMA OfferKeeps ==
  ASSUME BInv, NEW a \in Sources, NEW s \in Subs, Offer(a, s)
  PROVE  /\ BInv'
         /\ update[a] \in Update /\ SourceOf[update[a].key] = a /\ s \in subscribed
         /\ update[a].key \in MarketsOf(s)
         /\ offered[s][update[a].key] = update[a].n - 1 /\ update[a].n <= made[update[a].key]
<1> USE DEF adapters
<1> PICK u : u = update[a]
  OBVIOUS
<1>1. /\ InOrder' /\ NoGap' /\ (\A k \in Keys : Taken(k)' = Taken(k))
      /\ UNCHANGED <<made, source, subscribed, stage, update, cancelled>>
      /\ s \in left[a] /\ left' = [left EXCEPT ![a] = left[a] \ {s}]
      /\ offered' = [offered EXCEPT ![s][u.key] = u.n]
      /\ queue' = IF Len(queue[s]) < Cap(s) THEN [queue EXCEPT ![s] = Append(queue[s], u)] ELSE queue
  BY AdaptersStay DEF Offer
<1>2. Busy(a)
  BY <1>1 DEF BInv, InHand, Busy
<1>3. /\ u \in Update /\ SourceOf[u.key] = a /\ u.n = Taken(u.key) /\ u.n > 0
      /\ u.key \in Keys /\ u.n \in Numbers
  BY <1>2 DEF BInv, InHand, Update
<1>4. s \in subscribed /\ u.key \in MarketsOf(s) /\ (stage[a] = "keyed" => s \notin Unified)
  BY <1>1, <1>2, <1>3 DEF BInv, InHand, Busy, Matching, MarketsOf
<1>5. Owed(s, u.key)
  BY <1>1, <1>2, <1>3 DEF Owed
<1>6. offered[s][u.key] = u.n - 1 /\ u.n <= made[u.key]
  <2>1. offered[s][u.key] = Taken(u.key) - 1
    BY <1>3, <1>4, <1>5 DEF BInv, NoneMissed
  <2>2. Taken(u.key) \in 0 .. made[u.key] /\ made[u.key] \in Nat
    BY <1>3, NumbersAreNat DEF BInv, NoGap, BTypeOK
  <2> QED
    BY <2>1, <2>2, <1>3
<1>7. /\ offered' \in [Subs -> [Keys -> Numbers]] /\ offered'[s][u.key] = u.n
      /\ \A r \in Subs, k \in Keys : r # s \/ k # u.key => offered'[r][k] = offered[r][k]
  BY <1>1, <1>3 DEF BInv, BTypeOK
<1>8. /\ left' \in [Sources -> SUBSET Subs] /\ left'[a] = left[a] \ {s}
      /\ \A b \in Sources : b # a => left'[b] = left[b]
  BY <1>1 DEF BInv, BTypeOK
<1>9. /\ queue' \in [Subs -> Seq(Update)] /\ \A r \in Subs : Len(queue'[r]) <= Cap(r)
  <2>1. queue \in [Subs -> Seq(Update)] /\ \A r \in Subs : Len(queue[r]) <= Cap(r)
    BY DEF BInv, BTypeOK
  <2>2. Append(queue[s], u) \in Seq(Update) /\ Len(Append(queue[s], u)) = Len(queue[s]) + 1
        /\ Len(queue[s]) \in Nat
    BY <2>1, <1>3, Appended, Elements
  <2>3. Cap(s) \in Nat
    BY DEF Cap
  <2> QED
    BY <2>1, <2>2, <2>3, <1>1
<1>10. BTypeOK'
  BY <1>1, <1>7, <1>8, <1>9 DEF BInv, BTypeOK
<1>11. InHand'
  <2> SUFFICES ASSUME NEW b \in Sources
               PROVE  /\ Busy(b) => /\ update[b] \in Update /\ SourceOf[update[b].key] = b
                                    /\ update[b].n = Taken(update[b].key)' /\ update[b].n > 0
                      /\ left'[b] \subseteq CASE stage[b] = "keyed" -> Matching(update[b].key)
                                            [] stage[b] = "all"   -> subscribed \cap Unified
                                            [] OTHER              -> {}
    BY <1>1 DEF InHand, Busy, Matching
  <2>1. update[b] \in Update => update[b].key \in Keys
    BY DEF Update
  <2>2. left'[b] \subseteq left[b]
    BY <1>8
  <2> QED
    BY <1>1, <2>1, <2>2 DEF BInv, InHand
<1>12. NoneMissed'
  <2> SUFFICES ASSUME NEW k \in Keys, NEW r \in subscribed, k \in MarketsOf(r)
               PROVE  offered'[r][k] = IF Owed(r, k)' THEN Taken(k) - 1 ELSE Taken(k)
    BY <1>1 DEF NoneMissed, MarketsOf
  <2>1. SourceOf[k] \in Sources /\ r \in Subs
    BY DEF BInv, BTypeOK
  <2>2. CASE r = s /\ k = u.key
    <3>1. ~Owed(s, k)'
      BY <2>2, <1>1, <1>3, <1>4, <1>8 DEF Owed, Busy
    <3> QED
      BY <2>2, <3>1, <1>3, <1>7
  <2>3. CASE r # s \/ k # u.key
    <3>1. Owed(r, k)' <=> Owed(r, k)
      BY <2>1, <2>3, <1>1, <1>8 DEF Owed, Busy
    <3> QED
      BY <2>1, <2>3, <3>1, <1>7 DEF BInv, NoneMissed
  <2> QED
    BY <2>2, <2>3
<1> QED
  BY <1>1, <1>3, <1>4, <1>6, <1>10, <1>11, <1>12 DEF BInv
LEMMA KeyedDoneKeeps ==
  ASSUME BInv, NEW a \in Sources, KeyedDone(a)
  PROVE  BInv'
<1> USE DEF adapters, inbox
<1>1. /\ InOrder' /\ NoGap' /\ (\A k \in Keys : Taken(k)' = Taken(k))
      /\ UNCHANGED <<made, source, subscribed, queue, offered, update, cancelled>>
      /\ stage[a] = "keyed" /\ left[a] = {}
      /\ stage' = [stage EXCEPT ![a] = "all"]
      /\ left' = [left EXCEPT ![a] = subscribed \cap Unified]
  BY AdaptersStay DEF KeyedDone, Goto
<1>2. /\ stage' \in [Sources -> {"select", "keyed", "all", "exit"}]
      /\ left' \in [Sources -> SUBSET Subs]
      /\ stage'[a] = "all" /\ left'[a] = subscribed \cap Unified
      /\ \A b \in Sources : b # a => stage'[b] = stage[b] /\ left'[b] = left[b]
  BY <1>1 DEF BInv, BTypeOK, Subs
<1>3. BTypeOK'
  BY <1>1, <1>2 DEF BInv, BTypeOK
<1>4. InHand'
  <2> SUFFICES ASSUME NEW b \in Sources
               PROVE  /\ Busy(b)' => /\ update[b] \in Update /\ SourceOf[update[b].key] = b
                                     /\ update[b].n = Taken(update[b].key)' /\ update[b].n > 0
                      /\ left'[b] \subseteq CASE stage'[b] = "keyed" -> Matching(update[b].key)
                                            [] stage'[b] = "all"   -> subscribed \cap Unified
                                            [] OTHER              -> {}
    BY <1>1 DEF InHand, Matching
  <2>1. update[b] \in Update => update[b].key \in Keys
    BY DEF Update
  <2>2. Busy(b)' => Busy(b)
    BY <1>1, <1>2 DEF Busy
  <2>3. Busy(b)' => /\ update[b] \in Update /\ SourceOf[update[b].key] = b
                    /\ update[b].n = Taken(update[b].key)' /\ update[b].n > 0
    BY <1>1, <2>1, <2>2 DEF BInv, InHand
  <2>4. CASE b = a
    BY <2>3, <2>4, <1>2
  <2>5. CASE b # a
    BY <2>3, <2>5, <1>2 DEF BInv, InHand
  <2> QED
    BY <2>4, <2>5
<1>5. NoneMissed'
  <2> SUFFICES ASSUME NEW k \in Keys, NEW s \in subscribed, k \in MarketsOf(s)
               PROVE  offered[s][k] = IF Owed(s, k)' THEN Taken(k) - 1 ELSE Taken(k)
    BY <1>1 DEF NoneMissed, MarketsOf
  <2>1. SourceOf[k] \in Sources
    OBVIOUS
  <2>2. Owed(s, k)' <=> Owed(s, k)
    BY <2>1, <1>1, <1>2 DEF Owed, Busy
  <2> QED
    BY <2>2 DEF BInv, NoneMissed
<1> QED
  BY <1>1, <1>3, <1>4, <1>5 DEF BInv

(* A goroutine at its select, or gone, owes nothing.                       *)
LEMMA RestKeeps ==
  ASSUME BInv, NEW a \in Sources, AllDone(a) \/ WorkerStops(a)
  PROVE  BInv'
<1> USE DEF adapters, inbox
<1> PICK l : l = IF AllDone(a) THEN "select" ELSE "exit"
  OBVIOUS
<1> PICK v : v = IF AllDone(a) THEN NoUpdate ELSE update[a]
  OBVIOUS
<1>1. /\ InOrder' /\ NoGap' /\ (\A k \in Keys : Taken(k)' = Taken(k))
      /\ UNCHANGED <<made, source, subscribed, queue, offered, cancelled>>
      /\ l \in {"select", "exit"} /\ left[a] = {} /\ stage[a] \in {"select", "all"}
      /\ stage' = [stage EXCEPT ![a] = l] /\ left' = [left EXCEPT ![a] = {}]
  BY AdaptersStay DEF AllDone, WorkerStops, Goto, BInv, InHand
<1>2. update' = [update EXCEPT ![a] = v] /\ v \in Update \cup {NoUpdate}
  BY DEF AllDone, WorkerStops, Goto, BInv, BTypeOK
<1>3. /\ stage' \in [Sources -> {"select", "keyed", "all", "exit"}]
      /\ left' \in [Sources -> SUBSET Subs]
      /\ update' \in [Sources -> Update \cup {NoUpdate}]
      /\ stage'[a] = l /\ left'[a] = {}
      /\ \A b \in Sources : b # a =>
           stage'[b] = stage[b] /\ left'[b] = left[b] /\ update'[b] = update[b]
  BY <1>1, <1>2 DEF BInv, BTypeOK
<1>4. BTypeOK'
  BY <1>1, <1>3 DEF BInv, BTypeOK
<1>5. InHand'
  <2> SUFFICES ASSUME NEW b \in Sources
               PROVE  /\ Busy(b)' => /\ update'[b] \in Update /\ SourceOf[update'[b].key] = b
                                     /\ update'[b].n = Taken(update[b].key)' /\ update'[b].n > 0
                      /\ left'[b] \subseteq CASE stage'[b] = "keyed" -> Matching(update[b].key)'
                                            [] stage'[b] = "all"   -> subscribed \cap Unified
                                            [] OTHER              -> {}
    BY <1>1 DEF InHand
  <2>1. CASE b = a
    BY <2>1, <1>1, <1>3 DEF Busy
  <2>2. CASE b # a
    <3> PICK k : k = update[b].key
      OBVIOUS
    <3>1. Matching(update[b].key)' = Matching(k) /\ Taken(update[b].key)' = Taken(k)'
      BY <2>2, <1>1, <1>3 DEF Matching, Taken, Waiting
    <3>2. /\ Busy(b) => /\ update[b] \in Update /\ SourceOf[k] = b
                        /\ update[b].n = Taken(k) /\ update[b].n > 0
          /\ left[b] \subseteq CASE stage[b] = "keyed" -> Matching(k)
                               [] stage[b] = "all"   -> subscribed \cap Unified
                               [] OTHER              -> {}
      BY DEF BInv, InHand
    <3>3. Busy(b)' <=> Busy(b)
      BY <2>2, <1>3 DEF Busy
    <3>4. Busy(b) => Taken(k)' = Taken(k)
      BY <3>2, <1>1 DEF Update
    <3> QED
      BY <2>2, <3>1, <3>2, <3>3, <3>4, <1>3
  <2> QED
    BY <2>1, <2>2
<1>6. NoneMissed'
  <2> SUFFICES ASSUME NEW k \in Keys, NEW s \in subscribed, k \in MarketsOf(s)
               PROVE  offered[s][k] = IF Owed(s, k)' THEN Taken(k) - 1 ELSE Taken(k)
    BY <1>1 DEF NoneMissed, MarketsOf
  <2>1. SourceOf[k] \in Sources
    OBVIOUS
  <2>2. Owed(s, k)' <=> Owed(s, k)
    BY <2>1, <1>1, <1>3 DEF Owed, Busy
  <2> QED
    BY <2>2 DEF BInv, NoneMissed
<1> QED
  BY <1>1, <1>4, <1>5, <1>6 DEF BInv

(* Neither the context nor a consumer touches the goroutines.              *)
LEMMA ConsumeKeeps ==
  ASSUME BInv, Cancel \/ \E s \in Subs : Consume(s)
  PROVE  BInv'
<1> USE DEF adapters, inbox, workers
<1>1. /\ InOrder' /\ NoGap' /\ (\A k \in Keys : Taken(k)' = Taken(k))
      /\ UNCHANGED <<made, source, subscribed, stage, update, left, offered>>
  BY AdaptersStay DEF Cancel, Consume
<1>2. cancelled' \in BOOLEAN
  BY DEF Cancel, Consume, BInv, BTypeOK
<1>3. /\ queue' \in [Subs -> Seq(Update)] /\ \A r \in Subs : Len(queue'[r]) <= Cap(r)
  <2>1. queue \in [Subs -> Seq(Update)] /\ \A r \in Subs : Len(queue[r]) <= Cap(r)
    BY DEF BInv, BTypeOK
  <2>2. CASE Cancel
    BY <2>1, <2>2 DEF Cancel
  <2>3. ASSUME NEW s \in Subs, Consume(s)
        PROVE  /\ queue' \in [Subs -> Seq(Update)] /\ \A r \in Subs : Len(queue'[r]) <= Cap(r)
    <3>1. Tail(queue[s]) \in Seq(Update) /\ Len(Tail(queue[s])) = Len(queue[s]) - 1
          /\ Len(queue[s]) \in Nat
      BY <2>1, <2>3, Removed, Elements DEF Consume
    <3>2. Cap(s) \in Nat
      BY DEF Cap
    <3> QED
      BY <2>1, <2>3, <3>1, <3>2 DEF Consume
  <2> QED
    BY <2>2, <2>3
<1>4. BTypeOK'
  BY <1>1, <1>2, <1>3 DEF BInv, BTypeOK
<1>5. InHand'
  <2> SUFFICES ASSUME NEW b \in Sources
               PROVE  /\ Busy(b) => /\ update[b] \in Update /\ SourceOf[update[b].key] = b
                                    /\ update[b].n = Taken(update[b].key)' /\ update[b].n > 0
                      /\ left[b] \subseteq CASE stage[b] = "keyed" -> Matching(update[b].key)
                                           [] stage[b] = "all"   -> subscribed \cap Unified
                                           [] OTHER              -> {}
    BY <1>1 DEF InHand, Busy, Matching
  <2>1. update[b] \in Update => update[b].key \in Keys
    BY DEF Update
  <2> QED
    BY <1>1, <2>1 DEF BInv, InHand
<1>6. NoneMissed'
  BY <1>1 DEF BInv, NoneMissed, Owed, Busy, MarketsOf
<1> QED
  BY <1>1, <1>4, <1>5, <1>6 DEF BInv

(* Every step of the Broadcaster and of its consumers keeps BInv.          *)
LEMMA BroadcastKeeps ==
  ASSUME BInv, BNext \/ (\E s \in Subs : Consume(s)) \/ UNCHANGED bvars
  PROVE  BInv'
<1>1. CASE UNCHANGED bvars
  <2>1. UNCHANGED <<made, source, subscribed, queue, offered, stage, update, left, cancelled>>
    BY <1>1 DEF bvars, adapters, inbox, workers
  <2> QED
    BY <2>1 DEF BInv, BTypeOK, InOrder, Increasing, NoGap, Taken, Waiting, InHand, Busy, Matching,
                NoneMissed, Owed, MarketsOf
<1>2. ASSUME NEW a \in Sources, Distribute(a) PROVE BInv'
  BY <1>2, OfferKeeps, KeyedDoneKeeps, RestKeeps DEF Distribute
<1> QED
  BY <1>1, <1>2, EmitKeeps, SubscribeKeeps, ReceiveKeeps, RestKeeps, ConsumeKeeps DEF BNext
LEMMA InitBInv == BInit => BInv
<1> SUFFICES ASSUME BInit PROVE BInv
  OBVIOUS
<1>1. \A k \in Keys : 0 \in Numbers
  BY SmallNumbers
<1>2. << >> \in Seq(Update) /\ Len(<< >>) = 0
  OBVIOUS
<1>3. \A s \in Subs : Cap(s) \in Nat
  BY DEF Cap
<1>4. BTypeOK
  <2>1. /\ made \in [Keys -> Numbers] /\ \A k \in Keys : made[k] <= MaxUpdates[k]
        /\ offered \in [Subs -> [Keys -> Numbers]]
    BY <1>1 DEF BInit
  <2>2. /\ source \in [Sources -> Seq(Update)] /\ \A a \in Sources : Len(source[a]) <= SourceCap
        /\ queue \in [Subs -> Seq(Update)] /\ \A s \in Subs : Len(queue[s]) <= Cap(s)
    BY <1>2, <1>3 DEF BInit
  <2>3. /\ subscribed \subseteq Subs /\ cancelled \in BOOLEAN
        /\ stage \in [Sources -> {"select", "keyed", "all", "exit"}]
        /\ update \in [Sources -> Update \cup {NoUpdate}] /\ left \in [Sources -> SUBSET Subs]
    BY DEF BInit, Subs
  <2> QED
    BY <2>1, <2>2, <2>3 DEF BTypeOK
<1>5. InOrder
  BY DEF BInit, InOrder, Increasing
<1>6. ASSUME NEW k \in Keys PROVE Taken(k) = 0 /\ Waiting(k) = {} /\ made[k] = 0
  <2>1. Waiting(k) = {} /\ made[k] = 0
    BY DEF BInit, Waiting, NumbersOf
  <2> QED
    BY <2>1, FS_EmptySet DEF Taken
<1>7. NoGap
  <2>1. ASSUME NEW k \in Keys
        PROVE  Taken(k) \in 0 .. made[k] /\ Waiting(k) = Taken(k) + 1 .. made[k]
    <3>1. 0 \in 0 .. 0 /\ 0 + 1 .. 0 = {}
      OBVIOUS
    <3> QED
      BY <3>1, <1>6
  <2> QED
    BY <2>1 DEF NoGap
<1>8. InHand /\ NoneMissed
  <2>1. \A s \in Early : s \in Subs
    BY DEF Subs
  <2> QED
    BY <1>6, <2>1 DEF BInit, InHand, NoneMissed, Owed, Busy
<1> QED
  BY <1>4, <1>5, <1>7, <1>8 DEF BInv

LEMMA NextBInv == BInv /\ [Next]_vars => BInv'
<1> SUFFICES ASSUME BInv, [Next]_vars PROVE BInv'
  OBVIOUS
<1>1. CASE Others
  BY <1>1, BroadcastKeeps DEF Others
<1>2. CASE Ingest
  <2>1. feed \in Subs
    BY FeedAssumption DEF Subs
  <2> QED
    BY <1>2, <2>1, BroadcastKeeps DEF Ingest
<1>3. CASE UNCHANGED bvars
  BY <1>3, BroadcastKeeps
<1> QED
  BY <1>1, <1>2, <1>3 DEF Next, vars, Store, IngestStops, Flush, HSet, HSetFails, FlushStops

-----------------------------------------------------------------------------
(* The Broadcaster's channels as the abstract stream sees them.            *)
Item == [key : Keys, n : Numbers]

LEMMA SentSeq ==
  ASSUME NEW q \in Seq(Update)
  PROVE  /\ Sent(q) \in Seq(Item) /\ Len(Sent(q)) = Len(q)
         /\ \A i \in 1 .. Len(q) : Sent(q)[i] = [key |-> q[i].key, n |-> q[i].n]
<1>1. Len(q) \in Nat /\ DOMAIN q = 1 .. Len(q) /\ \A i \in DOMAIN q : q[i] \in Update
  BY Elements
<1>2. Sent(q) \in [1 .. Len(q) -> Item]
  BY <1>1 DEF Sent, Item, Update
<1>3. Sent(q) \in Seq(Item) /\ Len(Sent(q)) = Len(q)
  <2> DEFINE w == Sent(q)
             m == Len(q)
  <2>1. m \in Nat /\ w \in [1 .. m -> Item]
    BY <1>1, <1>2
  <2> HIDE DEF w, m
  <2>2. w \in Seq(Item)
    BY <2>1, SeqDef
  <2>3. Len(w) = m
    BY <2>1, <2>2, LenProperties
  <2> QED
    BY <2>2, <2>3 DEF w, m
<1> QED
  BY <1>1, <1>3 DEF Sent

LEMMA SentAppended ==
  ASSUME NEW q \in Seq(Update), NEW u \in Update
  PROVE  Sent(Append(q, u)) = Append(Sent(q), [key |-> u.key, n |-> u.n])
<1> DEFINE e == [key |-> u.key, n |-> u.n]
           r == Append(q, u)
<1>1. e \in Item
  BY DEF Item, Update
<1>2. /\ r \in Seq(Update) /\ Len(r) = Len(q) + 1 /\ Len(q) \in Nat /\ r[Len(q) + 1] = u
      /\ \A i \in 1 .. Len(q) : r[i] = q[i]
  BY Appended, Elements
<1> HIDE DEF e, r
<1>3. /\ Sent(r) \in Seq(Item) /\ Len(Sent(r)) = Len(q) + 1
      /\ \A i \in 1 .. Len(q) + 1 : Sent(r)[i] = [key |-> r[i].key, n |-> r[i].n]
  BY <1>2, SentSeq
<1>4. /\ Sent(q) \in Seq(Item) /\ Len(Sent(q)) = Len(q)
      /\ \A i \in 1 .. Len(q) : Sent(q)[i] = [key |-> q[i].key, n |-> q[i].n]
  BY SentSeq
<1>5. /\ Append(Sent(q), e) \in Seq(Item) /\ Len(Append(Sent(q), e)) = Len(q) + 1
      /\ \A i \in 1 .. Len(q) : Append(Sent(q), e)[i] = Sent(q)[i]
      /\ Append(Sent(q), e)[Len(q) + 1] = e
  BY <1>1, <1>4, Appended, Elements
<1>6. ASSUME NEW i \in 1 .. Len(q) + 1 PROVE Sent(r)[i] = Append(Sent(q), e)[i]
  <2>1. CASE i \in 1 .. Len(q)
    BY <2>1, <1>2, <1>3, <1>4, <1>5
  <2>2. CASE i = Len(q) + 1
    BY <2>2, <1>2, <1>3, <1>5 DEF e
  <2>3. i \in 1 .. Len(q) \/ i = Len(q) + 1
    <3>1. \A m \in Nat : \A j \in 1 .. m + 1 : j \in 1 .. m \/ j = m + 1
      OBVIOUS
    <3>2. Len(q) \in Nat
      BY <1>2
    <3> QED
      BY <3>1, <3>2
  <2> QED
    BY <2>1, <2>2, <2>3
<1> QED
  BY <1>3, <1>5, <1>6, SeqEqual DEF r, e

LEMMA SentRemoved ==
  ASSUME NEW q \in Seq(Update), q # << >>
  PROVE  Sent(q) # << >> /\ Sent(Tail(q)) = Tail(Sent(q))
<1> DEFINE r == Tail(q)
           w == Sent(q)
<1>1. /\ r \in Seq(Update) /\ Len(r) = Len(q) - 1 /\ Len(q) \in Nat /\ Len(q) > 0
      /\ \A i \in 1 .. Len(r) : r[i] = q[i + 1]
  BY Removed, Elements
<1> HIDE DEF r
<1>2. /\ Sent(r) \in Seq(Item) /\ Len(Sent(r)) = Len(q) - 1
      /\ \A i \in 1 .. Len(q) - 1 : Sent(r)[i] = [key |-> r[i].key, n |-> r[i].n]
  BY <1>1, SentSeq
<1>3. /\ w \in Seq(Item) /\ Len(w) = Len(q)
      /\ \A i \in 1 .. Len(q) : w[i] = [key |-> q[i].key, n |-> q[i].n]
  BY SentSeq
<1> HIDE DEF w
<1>4. /\ w # << >> /\ Tail(w) \in Seq(Item) /\ Len(Tail(w)) = Len(q) - 1
      /\ \A i \in 1 .. Len(q) - 1 : Tail(w)[i] = w[i + 1]
  BY <1>1, <1>3, Removed, Elements
<1>5. ASSUME NEW i \in 1 .. Len(q) - 1 PROVE Sent(r)[i] = Tail(w)[i]
  <2>1. i + 1 \in 1 .. Len(q) /\ i \in 1 .. Len(r)
    BY <1>1
  <2> QED
    BY <2>1, <1>1, <1>2, <1>3, <1>4
<1> QED
  BY <1>2, <1>4, <1>5, SeqEqual DEF r, w
LEMMA SameFunction ==
  ASSUME NEW S, NEW g, NEW h, g = [x \in S |-> g[x]], h = [x \in S |-> h[x]],
         NEW y \in S, NEW v, \A x \in S : h[x] = IF x = y THEN v ELSE g[x]
  PROVE  h = [g EXCEPT ![y] = v]
OBVIOUS

(* Each step of the Broadcaster on the stream's variables.                 *)
LEMMA SubscribeJoins ==
  ASSUME BInv, NEW s \in Subs, Subscribe(s)
  PROVE  Stream!Join(s)
<1> PICK f : f = LastOffered'[s]
  OBVIOUS
<1>1. /\ UNCHANGED <<made, queue>> /\ s \notin subscribed /\ subscribed' = subscribed \cup {s}
      /\ \A r \in Subs : r # s => offered'[r] = offered[r]
  BY DEF Subscribe, adapters, BInv, BTypeOK
<1>2. \A k \in Keys : offered'[s][k] \in 0 .. made[k] /\ made[k] \in Nat
  BY SubscribeKeeps, NumbersAreNat DEF BInv, BTypeOK
<1>3. /\ DOMAIN f = Keys /\ f = [k \in Keys |-> f[k]]
      /\ \A k \in Keys : f[k] = IF k \in MarketsOf(s) THEN offered'[s][k] ELSE 0
  BY DEF LastOffered, MarketsOf
<1>4. f \in Stream!Starts(s)
  <2>1. \A k \in Keys : f[k] \in 0 .. made[k]
    BY <1>2, <1>3
  <2>2. f \in [Keys -> UNION {0 .. made[k] : k \in Keys}]
    BY <1>3, <2>1
  <2>3. \A k \in Keys : IF k \in Wanted[s] THEN f[k] <= made[k] ELSE f[k] = 0
    BY <1>2, <1>3, <2>1 DEF Wanted
  <2> QED
    BY <2>2, <2>3 DEF Stream!Starts
<1>5. LastOffered' = [LastOffered EXCEPT ![s] = f]
  <2>1. \A r \in Subs : LastOffered'[r] = IF r = s THEN f ELSE LastOffered[r]
    <3>1. \A r \in Subs : r # s => LastOffered'[r] = LastOffered[r]
      BY <1>1 DEF LastOffered, MarketsOf
    <3> QED
      BY <3>1
  <2> QED
    BY <2>1, SameFunction DEF LastOffered
<1>6. Channels' = Channels
  BY <1>1 DEF Channels
<1> QED
  BY <1>1, <1>4, <1>5, <1>6 DEF Stream!Join

LEMMA OfferOffers ==
  ASSUME BInv, NEW a \in Sources, NEW s \in Subs, Offer(a, s)
  PROVE  update[a].key \in Keys /\ Stream!Offer(s, update[a].key)
<1> PICK u : u = update[a]
  OBVIOUS
<1> PICK k : k = u.key
  OBVIOUS
<1>1. /\ u \in Update /\ k \in Keys /\ k \in MarketsOf(s) /\ s \in subscribed
      /\ offered[s][k] = u.n - 1 /\ u.n <= made[k] /\ u.n \in Nat
  BY OfferKeeps, NumbersAreNat DEF Update
<1>2. /\ queue \in [Subs -> Seq(Update)] /\ offered \in [Subs -> [Keys -> Numbers]]
      /\ made \in [Keys -> Numbers] /\ made[k] \in Nat
  BY <1>1, NumbersAreNat DEF BInv, BTypeOK
<1>3. /\ UNCHANGED <<made, subscribed>> /\ offered' = [offered EXCEPT ![s][k] = u.n]
      /\ queue' = IF Len(queue[s]) < Cap(s) THEN [queue EXCEPT ![s] = Append(queue[s], u)] ELSE queue
  BY DEF Offer, adapters
<1>4. LastOffered[s][k] = u.n - 1 /\ u.n - 1 < made[k] /\ u.n - 1 + 1 = u.n /\ k \in Wanted[s]
  <2>1. LastOffered[s][k] = offered[s][k] /\ k \in Wanted[s]
    BY <1>1 DEF LastOffered, Wanted
  <2>2. u.n - 1 < made[k] /\ u.n - 1 + 1 = u.n
    <3> PICK n, m : n = u.n /\ m = made[k]
      OBVIOUS
    <3>1. n \in Nat /\ m \in Nat /\ n <= m
      BY <1>1, <1>2
    <3>2. n - 1 < m /\ n - 1 + 1 = n
      BY <3>1
    <3> QED
      BY <3>2
  <2> QED
    BY <2>1, <2>2, <1>1
<1>5. LastOffered' = [LastOffered EXCEPT ![s][k] = u.n]
  <2>1. \A r \in Subs, l \in Keys :
          offered'[r][l] = IF r = s /\ l = k THEN u.n ELSE offered[r][l]
    <3> DEFINE n == u.n
    <3>1. offered' = [offered EXCEPT ![s][k] = n] /\ offered \in [Subs -> [Keys -> Numbers]]
      BY <1>2, <1>3
    <3> HIDE DEF n
    <3>2. \A r \in Subs, l \in Keys :
            offered'[r][l] = IF r = s /\ l = k THEN n ELSE offered[r][l]
      BY <1>1, <3>1
    <3> QED
      BY <3>2 DEF n
  <2>2. \A r \in Subs : r # s => LastOffered'[r] = LastOffered[r]
    BY <2>1 DEF LastOffered, MarketsOf
  <2>3. LastOffered'[s] = [LastOffered[s] EXCEPT ![k] = u.n]
    <3>1. \A l \in Keys : LastOffered'[s][l] = IF l = k THEN u.n ELSE LastOffered[s][l]
      BY <1>1, <2>1 DEF LastOffered, MarketsOf
    <3>2. /\ LastOffered[s] = [l \in Keys |-> LastOffered[s][l]]
          /\ LastOffered'[s] = [l \in Keys |-> LastOffered'[s][l]]
      BY DEF LastOffered
    <3> QED
      BY <3>1, <3>2, SameFunction
  <2>4. \A r \in Subs :
          LastOffered'[r] = IF r = s THEN [LastOffered[s] EXCEPT ![k] = u.n] ELSE LastOffered[r]
    BY <2>2, <2>3
  <2>5. LastOffered' = [LastOffered EXCEPT ![s] = [LastOffered[s] EXCEPT ![k] = u.n]]
    BY <2>4, SameFunction DEF LastOffered
  <2> QED
    BY <2>5
<1>6. Channels[s] = Sent(queue[s]) /\ Len(Channels[s]) = Len(queue[s]) /\ Capacities[s] = Cap(s)
  BY <1>2, SentSeq DEF Channels, Capacities
<1>7. CASE Len(queue[s]) < Cap(s)
  <2>1. /\ queue'[s] = Append(queue[s], u) /\ \A r \in Subs : r # s => queue'[r] = queue[r]
    BY <1>2, <1>3, <1>7
  <2>2. Sent(queue'[s]) = Append(Channels[s], [key |-> k, n |-> u.n])
    BY <1>1, <1>2, <1>6, <2>1, SentAppended
  <2>3. Channels' = [Channels EXCEPT ![s] = Append(Channels[s], [key |-> k, n |-> u.n])]
    BY <2>1, <2>2 DEF Channels
  <2> QED
    BY <1>1, <1>3, <1>4, <1>5, <1>6, <1>7, <2>3 DEF Stream!Offer
<1>8. CASE ~(Len(queue[s]) < Cap(s))
  <2>1. Channels' = Channels
    BY <1>3, <1>8 DEF Channels
  <2> QED
    BY <1>1, <1>3, <1>4, <1>5, <1>6, <1>8, <2>1 DEF Stream!Offer
<1> QED
  BY <1>1, <1>7, <1>8

LEMMA ConsumeTakes ==
  ASSUME BInv, NEW s \in Subs, Consume(s)
  PROVE  Stream!Take(s)
<1>1. /\ queue \in [Subs -> Seq(Update)] /\ queue[s] # << >>
      /\ queue'[s] = Tail(queue[s]) /\ \A r \in Subs : r # s => queue'[r] = queue[r]
  BY DEF Consume, BInv, BTypeOK
<1>2. Channels[s] # << >> /\ Sent(queue'[s]) = Tail(Channels[s])
  BY <1>1, SentRemoved DEF Channels
<1>3. Channels' = [Channels EXCEPT ![s] = Tail(Channels[s])]
  BY <1>1, <1>2 DEF Channels
<1>4. UNCHANGED <<made, subscribed, LastOffered>>
  BY DEF Consume, adapters, LastOffered, MarketsOf
<1> QED
  BY <1>2, <1>3, <1>4 DEF Stream!Take

LEMMA OthersStutter ==
  ASSUME UNCHANGED <<made, inbox>>
  PROVE  UNCHANGED Stream!vars
BY DEF inbox, Stream!vars, Channels, LastOffered, MarketsOf

LEMMA EmitMakes ==
  ASSUME BInv, NEW k \in Keys, NEW p \in PricesOf[k], Emit(k, p)
  PROVE  Stream!Make(k)
BY DEF Emit, inbox, Stream!Make, Channels, LastOffered, MarketsOf

(* Every subscriber sees a lossy stream: every step is one of the stream's *)
(* or leaves it as it is, whatever the goroutines do between two offers.   *)
THEOREM SubscribersSeeTheStream == Spec => ImplementsStream
<1>1. Init => Stream!Init
  <2> SUFFICES ASSUME Init PROVE Stream!Init
    OBVIOUS
  <2>1. Sent(<< >>) = << >>
    BY DEF Sent
  <2>2. Early \subseteq Subs
    BY DEF Subs
  <2> QED
    BY <2>1, <2>2 DEF Init, BInit, Stream!Init, Channels, LastOffered
<1>2. BInv /\ [Next]_vars => [Stream!Next]_(Stream!vars)
  <2> SUFFICES ASSUME BInv, [Next]_vars PROVE Stream!Next \/ UNCHANGED Stream!vars
    OBVIOUS
  <2>1. ASSUME NEW s \in Subs, Consume(s) PROVE Stream!Next
    BY <2>1, ConsumeTakes DEF Stream!Next
  <2>2. CASE BNext
    <3>1. ASSUME NEW k \in Keys, NEW p \in PricesOf[k], Emit(k, p) PROVE Stream!Next
      BY <3>1, EmitMakes DEF Stream!Next
    <3>2. ASSUME NEW s \in Subs, Subscribe(s) PROVE Stream!Next
      BY <3>2, SubscribeJoins DEF Stream!Next
    <3>3. ASSUME NEW a \in Sources, NEW s \in Subs, Offer(a, s) PROVE Stream!Next
      BY <3>3, OfferOffers DEF Stream!Next
    <3>4. ASSUME NEW a \in Sources, Receive(a) \/ KeyedDone(a) \/ AllDone(a) \/ WorkerStops(a)
          PROVE  UNCHANGED Stream!vars
      BY <3>4, OthersStutter DEF Receive, KeyedDone, AllDone, WorkerStops, adapters
    <3>5. CASE Cancel
      BY <3>5, OthersStutter DEF Cancel, adapters
    <3> QED
      BY <2>2, <3>1, <3>2, <3>3, <3>4, <3>5 DEF BNext, Distribute
  <2>3. CASE Ingest
    <3>1. feed \in Subs
      BY FeedAssumption DEF Subs
    <3> QED
      BY <2>1, <2>3, <3>1 DEF Ingest
  <2>4. CASE UNCHANGED bvars
    BY <2>4, OthersStutter DEF bvars, adapters
  <2> QED
    BY <2>1, <2>2, <2>3, <2>4 DEF Next, Others, vars, Store, IngestStops, Flush, HSet, HSetFails, FlushStops
<1>3. Init => BInv
  BY InitBInv DEF Init
<1> QED
  BY NextBInv, <1>1, <1>2, <1>3, PTL DEF Spec, ImplementsStream, Stream!Spec

(* Loss happens only at a full channel: when no goroutine is in the middle *)
(* of an update, all who had subscribed in time were offered the last one. *)
THEOREM NobodyIsPassedBy == Spec => []EverybodyOffered
<1>1. BInv => EverybodyOffered
  BY DEF BInv, NoneMissed, Owed, Busy, EverybodyOffered
<1>2. Init => BInv
  BY InitBInv DEF Init
<1> QED
  BY NextBInv, <1>1, <1>2, PTL DEF Spec

-----------------------------------------------------------------------------
(* What an append and a receive do to a channel in order.                  *)
InOrderUpTo(q, f) == Increasing(q) /\ \A i \in DOMAIN q : q[i].n <= f[q[i].key]

LEMMA OrderAppended ==
  ASSUME NEW q \in Seq(Update), NEW u \in Update, NEW f \in [Keys -> Numbers],
         InOrderUpTo(q, f), f[u.key] = u.n - 1
  PROVE  InOrderUpTo(Append(q, u), [f EXCEPT ![u.key] = u.n])
<1> DEFINE r == Append(q, u)
           h == [f EXCEPT ![u.key] = u.n]
<1>1. /\ DOMAIN r = DOMAIN q \cup {Len(q) + 1} /\ r[Len(q) + 1] = u
      /\ \A i \in DOMAIN q : r[i] = q[i] /\ q[i] \in Update
  BY Appended, Elements
<1>2. \A x \in Update : x.key \in Keys /\ x.n \in Nat
  BY NumbersAreNat DEF Update
<1>3. h[u.key] = u.n /\ \A k \in Keys : k # u.key => h[k] = f[k]
  BY <1>2
<1>4. \A i \in DOMAIN q : q[i].key = u.key => q[i].n < u.n
  BY <1>1, <1>2 DEF InOrderUpTo
<1>5. Increasing(r)
  BY <1>4, IncreasingAppended DEF InOrderUpTo, NumbersOf
<1> HIDE DEF r, h
<1>6. ASSUME NEW i \in DOMAIN r PROVE r[i].n <= h[r[i].key]
  <2>1. CASE i \in DOMAIN q /\ q[i].key = u.key
    BY <2>1, <1>1, <1>2, <1>3, <1>4
  <2>2. CASE i \in DOMAIN q /\ q[i].key # u.key
    BY <2>2, <1>1, <1>2, <1>3 DEF InOrderUpTo
  <2>3. CASE i = Len(q) + 1
    BY <2>3, <1>1, <1>2, <1>3
  <2> QED
    BY <1>1, <2>1, <2>2, <2>3
<1> QED
  BY <1>5, <1>6 DEF InOrderUpTo, r, h

LEMMA OrderRemoved ==
  ASSUME NEW q \in Seq(Update), q # << >>, NEW f, InOrderUpTo(q, f)
  PROVE  InOrderUpTo(Tail(q), f)
<1> PICK r : r = Tail(q)
  OBVIOUS
<1>1. Increasing(r) /\ \A i \in DOMAIN r : i + 1 \in DOMAIN q /\ r[i] = q[i + 1]
  BY Removed, IncreasingRemoved DEF InOrderUpTo
<1> QED
  BY <1>1 DEF InOrderUpTo

LEMMA NextOrderInv == OrderInv /\ [Next]_vars => OrderInv'
<1> SUFFICES ASSUME OrderInv, [Next]_vars PROVE OrderInv'
  OBVIOUS
<1> DEFINE Good(s) == InOrderUpTo(queue[s], offered[s]) /\ (s \notin subscribed => queue[s] = << >>)
<1>0. BInv /\ BInv' /\ \A s \in Subs : Good(s)
  BY NextBInv DEF OrderInv, ReceivedInOrder, InOrderUpTo
<1>1. SUFFICES \A s \in Subs : Good(s)'
  BY <1>0 DEF OrderInv, ReceivedInOrder, InOrderUpTo
<1>2. /\ queue \in [Subs -> Seq(Update)] /\ offered \in [Subs -> [Keys -> Numbers]]
  BY <1>0 DEF BInv, BTypeOK
<1>3. CASE UNCHANGED inbox
  BY <1>0, <1>3 DEF inbox
<1>4. ASSUME NEW s \in Subs, Consume(s) PROVE \A r \in Subs : Good(r)'
  <2>1. /\ queue[s] # << >> /\ queue'[s] = Tail(queue[s]) /\ UNCHANGED <<offered, subscribed>>
        /\ \A r \in Subs : r # s => queue'[r] = queue[r]
    BY <1>2, <1>4 DEF Consume
  <2>2. Good(s)'
    BY <1>0, <1>2, <2>1, OrderRemoved
  <2> QED
    BY <1>0, <2>1, <2>2
<1>5. ASSUME NEW s \in Subs, Subscribe(s) PROVE \A r \in Subs : Good(r)'
  <2>1. /\ UNCHANGED queue /\ s \notin subscribed /\ subscribed' = subscribed \cup {s}
        /\ \A r \in Subs : r # s => offered'[r] = offered[r]
    BY <1>2, <1>5 DEF Subscribe
  <2>2. queue[s] = << >>
    BY <1>0, <2>1
  <2>3. InOrderUpTo(<< >>, offered'[s])
    BY DEF InOrderUpTo, Increasing
  <2> QED
    BY <1>0, <2>1, <2>2, <2>3
<1>6. ASSUME NEW a \in Sources, NEW s \in Subs, Offer(a, s) PROVE \A r \in Subs : Good(r)'
  <2> PICK u : u = update[a]
    OBVIOUS
  <2>1. u \in Update /\ s \in subscribed /\ offered[s][u.key] = u.n - 1
    BY <1>0, <1>6, OfferKeeps
  <2>2. u.key \in Keys /\ u.n \in Nat
    BY <2>1, NumbersAreNat DEF Update
  <2>3. /\ offered' = [offered EXCEPT ![s][u.key] = u.n] /\ UNCHANGED subscribed
        /\ queue' = IF Len(queue[s]) < Cap(s) THEN [queue EXCEPT ![s] = Append(queue[s], u)] ELSE queue
    BY <1>6 DEF Offer
  <2>4. /\ offered'[s] = [offered[s] EXCEPT ![u.key] = u.n]
        /\ \A r \in Subs : r # s => offered'[r] = offered[r] /\ queue'[r] = queue[r]
        /\ queue'[s] = Append(queue[s], u) \/ queue'[s] = queue[s]
    BY <1>2, <2>3
  <2>5. InOrderUpTo(Append(queue[s], u), offered'[s])
    <3>1. /\ queue[s] \in Seq(Update) /\ offered[s] \in [Keys -> Numbers]
          /\ InOrderUpTo(queue[s], offered[s])
      BY <1>0, <1>2
    <3>2. InOrderUpTo(Append(queue[s], u), [offered[s] EXCEPT ![u.key] = u.n])
      BY <2>1, <3>1, OrderAppended
    <3> QED
      BY <2>4, <3>2
  <2>6. InOrderUpTo(queue[s], offered'[s])
    <3>1. ASSUME NEW i \in DOMAIN queue[s] PROVE queue[s][i].n <= offered'[s][queue[s][i].key]
      <4> PICK q : q = queue[s]
        OBVIOUS
      <4>1. q[i] = Append(q, u)[i] /\ i \in DOMAIN Append(q, u)
        BY <1>2, <2>1, Appended
      <4> QED
        BY <2>5, <4>1 DEF InOrderUpTo
    <3> QED
      BY <1>0, <3>1 DEF InOrderUpTo
  <2> QED
    BY <1>0, <2>1, <2>3, <2>4, <2>5, <2>6
<1>7. CASE BNext
  <2>1. ASSUME NEW k \in Keys, NEW p \in PricesOf[k], Emit(k, p) PROVE UNCHANGED inbox
    BY <2>1 DEF Emit
  <2>2. ASSUME NEW a \in Sources, Receive(a) \/ KeyedDone(a) \/ AllDone(a) \/ WorkerStops(a)
        PROVE  UNCHANGED inbox
    BY <2>2 DEF Receive, KeyedDone, AllDone, WorkerStops, inbox
  <2>3. Cancel => UNCHANGED inbox
    BY DEF Cancel
  <2> QED
    BY <1>3, <1>5, <1>6, <1>7, <2>1, <2>2, <2>3 DEF BNext, Distribute
<1>8. CASE Ingest
  <2>1. feed \in Subs
    BY FeedAssumption DEF Subs
  <2> QED
    BY <1>4, <1>8, <2>1 DEF Ingest
<1>9. CASE UNCHANGED bvars
  BY <1>3, <1>9 DEF bvars, inbox
<1> QED
  BY <1>4, <1>7, <1>8, <1>9 DEF Next, Others, vars, Store, IngestStops, Flush, HSet, HSetFails, FlushStops

(* A subscriber gets the updates of a market in order and none twice, from *)
(* whichever list and whenever it subscribed.                              *)
THEOREM DeliveredInOrder == Spec => []ReceivedInOrder
<1>1. Init => OrderInv
  <2>1. Init => BInv
    BY InitBInv DEF Init
  <2>2. Init => \A s \in Subs : queue[s] = << >>
    BY DEF Init, BInit
  <2>3. (\A s \in Subs : queue[s] = << >>) => ReceivedInOrder
    BY DEF ReceivedInOrder, Increasing
  <2> QED
    BY <2>1, <2>2, <2>3 DEF OrderInv
<1>2. OrderInv => ReceivedInOrder
  BY DEF OrderInv
<1> QED
  BY NextOrderInv, <1>1, <1>2, PTL DEF Spec

-----------------------------------------------------------------------------
(* The writer's buffer: the latest update of a market in it carries price  *)
(* x, or none is in it and x is what the flusher remembers, l.             *)
Latest(q, k, x, l) ==
  /\ \A i \in DOMAIN q :
       q[i].key = k /\ (\A j \in DOMAIN q : i < j => q[j].key # k) => q[i].price = x
  /\ (\A i \in DOMAIN q : q[i].key # k) => l = x

LEMMA LatestAppended ==
  ASSUME NEW q \in Seq(Update), NEW u \in Update, NEW k, NEW x, NEW l
  PROVE  /\ u.key = k => Latest(Append(q, u), k, u.price, l)
         /\ u.key # k /\ Latest(q, k, x, l) => Latest(Append(q, u), k, x, l)
<1> DEFINE r == Append(q, u)
           e == Len(q) + 1
<1>1. /\ DOMAIN r = DOMAIN q \cup {e} /\ \A i \in DOMAIN q : r[i] = q[i] /\ i < e
      /\ e \in DOMAIN r /\ r[e] = u /\ DOMAIN q \subseteq DOMAIN r
  BY Appended, Elements
<1> HIDE DEF r, e
<1>2. u.key = k => Latest(r, k, u.price, l)
  BY <1>1 DEF Latest
<1>3. ASSUME u.key # k, Latest(q, k, x, l) PROVE Latest(r, k, x, l)
  <2>1. ASSUME NEW i \in DOMAIN r, r[i].key = k, \A j \in DOMAIN r : i < j => r[j].key # k
        PROVE  r[i].price = x
    <3>1. i \in DOMAIN q
      BY <1>1, <1>3, <2>1
    <3>2. \A j \in DOMAIN q : i < j => q[j].key # k
      BY <1>1, <2>1
    <3> QED
      BY <1>1, <1>3, <2>1, <3>1, <3>2 DEF Latest
  <2>2. ASSUME \A i \in DOMAIN r : r[i].key # k PROVE l = x
    BY <1>1, <1>3, <2>2 DEF Latest
  <2> QED
    BY <2>1, <2>2 DEF Latest
<1> QED
  BY <1>2, <1>3 DEF r

LEMMA LatestRemoved ==
  ASSUME NEW q \in Seq(Update), q # << >>, NEW k, NEW x, NEW l, Latest(q, k, x, l)
  PROVE  /\ Head(q).key = k => Latest(Tail(q), k, x, Head(q).price)
         /\ Head(q).key # k => Latest(Tail(q), k, x, l)
<1> DEFINE r == Tail(q)
<1>1. /\ 1 \in DOMAIN q /\ Head(q) = q[1] /\ DOMAIN q \subseteq Nat \ {0} /\ DOMAIN r \subseteq Nat \ {0}
      /\ \A i \in DOMAIN r : i + 1 \in DOMAIN q /\ r[i] = q[i + 1]
      /\ \A i \in DOMAIN q : i # 1 => i - 1 \in DOMAIN r /\ r[i - 1] = q[i]
  BY Removed, Elements
<1> HIDE DEF r
<1>2. ASSUME NEW i \in DOMAIN r, r[i].key = k, \A j \in DOMAIN r : i < j => r[j].key # k
      PROVE  r[i].price = x
  <2>1. ASSUME NEW j \in DOMAIN q, i + 1 < j PROVE q[j].key # k
    <3>1. j # 1 /\ i < j - 1
      BY <1>1, <2>1
    <3> QED
      BY <1>1, <1>2, <3>1
  <2>2. i + 1 \in DOMAIN q /\ q[i + 1].key = k
    BY <1>1, <1>2
  <2>3. q[i + 1].price = x
    BY <2>1, <2>2 DEF Latest
  <2> QED
    BY <1>1, <2>3
<1>3. ASSUME \A i \in DOMAIN r : r[i].key # k
      PROVE  (q[1].key = k => q[1].price = x) /\ (q[1].key # k => l = x)
  <2>1. \A i \in DOMAIN q : i # 1 => q[i].key # k
    BY <1>1, <1>3
  <2>2. q[1].key = k => q[1].price = x
    <3>1. \A j \in DOMAIN q : 1 < j => q[j].key # k
      BY <1>1, <2>1
    <3> QED
      BY <1>1, <3>1 DEF Latest
  <2>3. q[1].key # k => l = x
    BY <2>1 DEF Latest
  <2> QED
    BY <2>2, <2>3
<1> QED
  BY <1>1, <1>2, <1>3 DEF Latest, r

LEMMA InitRWInv == Init => RWInv
<1> SUFFICES ASSUME Init PROVE RWInv
  OBVIOUS
<1>1. BInv
  BY InitBInv DEF Init
<1>2. \A k \in Keys : 0 \in Numbers
  BY SmallNumbers
<1>3. TypeOK
  <2>1. /\ ingest \in {"select", "holding", "exit"} /\ held \in Update \cup {NoUpdate}
        /\ (ingest = "holding" <=> held \in Update)
        /\ flush \in {"select", "writing", "exit"} /\ writing \in Update \cup {NoUpdate}
        /\ (flush = "writing" <=> writing \in Update)
    BY NoUpdateAssumption DEF Init
  <2>2. buf \in Seq(Update) /\ Len(buf) <= BufCap
    BY FeedAssumption DEF Init
  <2>3. /\ last \in [Keys -> Prices \cup {NoPrice}]
        /\ redis \in [Keys -> [price : Prices \cup {NoPrice}, n : Numbers]]
        /\ arrived \in [Keys -> Prices \cup {NoPrice}]
        /\ failed \in [Keys -> BOOLEAN] /\ dropped \in [Keys -> BOOLEAN]
    BY <1>2 DEF Init
  <2> QED
    BY <1>1, <2>1, <2>2, <2>3 DEF BInv, TypeOK
<1>4. Carried /\ Remembered
  BY DEF Init, Carried, LatestInBuf, Remembered
<1> QED
  BY <1>1, <1>3, <1>4 DEF RWInv

LEMMA BInvNext == ASSUME RWInv, [Next]_vars PROVE BInv' /\ BTypeOK'
BY NextBInv DEF RWInv, BInv

LEMMA IngestKeeps == RWInv /\ Ingest => RWInv'
<1> SUFFICES ASSUME RWInv, Ingest PROVE RWInv'
  OBVIOUS
<1>1. BInv' /\ BTypeOK'
  BY BInvNext DEF Next
<1> PICK u : u = Head(queue[feed])
  OBVIOUS
<1>2. u \in Update /\ u.key \in Keys /\ u.price \in Prices
  <2>1. feed \in Subs
    BY FeedAssumption DEF Subs
  <2>2. queue[feed] \in Seq(Update) /\ queue[feed] # << >>
    BY <2>1 DEF RWInv, TypeOK, BTypeOK, Ingest, Consume
  <2>3. u \in Update
    BY <2>2, Removed
  <2> QED
    BY <2>3 DEF Update
<1>3. /\ ingest = "select" /\ ingest' = "holding" /\ held' = u
      /\ arrived' = [arrived EXCEPT ![u.key] = u.price]
      /\ UNCHANGED <<buf, flush, writing, last, redis, failed, dropped>>
  BY DEF Ingest
<1>4. TypeOK'
  BY <1>1, <1>2, <1>3 DEF RWInv, TypeOK
<1>5. \A k \in Keys : arrived'[k] = IF k = u.key THEN u.price ELSE arrived[k]
  BY <1>2, <1>3 DEF RWInv, TypeOK
<1>6. Carried'
  BY <1>3, <1>5 DEF RWInv, Carried, LatestInBuf
<1>7. Remembered'
  BY <1>3 DEF RWInv, Remembered
<1> QED
  BY <1>1, <1>4, <1>6, <1>7 DEF RWInv

LEMMA StoreKeeps == RWInv /\ Store => RWInv'
<1> SUFFICES ASSUME RWInv, Store PROVE RWInv'
  OBVIOUS
<1>1. BInv' /\ BTypeOK'
  BY BInvNext DEF Next
<1> PICK room : room = (Len(buf) < BufCap)
  OBVIOUS
<1>2. /\ ingest = "holding" /\ ingest' = "select" /\ held' = NoUpdate
      /\ buf' = IF room THEN Append(buf, held) ELSE buf
      /\ UNCHANGED <<flush, writing, last, redis, arrived, failed>>
  BY DEF Store
<1>3. held \in Update /\ held.key \in Keys /\ buf \in Seq(Update) /\ Len(buf) <= BufCap /\ BufCap \in Nat
  BY <1>2, FeedAssumption DEF RWInv, TypeOK, Update
<1>4. /\ dropped' \in [Keys -> BOOLEAN]
      /\ \A k \in Keys : k # held.key => dropped'[k] = dropped[k]
      /\ dropped'[held.key] \/ room
  <2>1. dropped' = [dropped EXCEPT ![held.key] = Len(buf) >= BufCap] /\ dropped \in [Keys -> BOOLEAN]
    BY DEF Store, RWInv, TypeOK
  <2>2. /\ dropped' \in [Keys -> BOOLEAN] /\ dropped'[held.key] = (Len(buf) >= BufCap)
        /\ \A k \in Keys : k # held.key => dropped'[k] = dropped[k]
    BY <2>1, <1>3
  <2>3. Len(buf) >= BufCap \/ Len(buf) < BufCap
    BY <1>3, Elements
  <2> QED
    BY <2>2, <2>3
<1>5. buf' \in Seq(Update) /\ Len(buf') <= BufCap
  <2>1. /\ Append(buf, held) \in Seq(Update) /\ Len(Append(buf, held)) = Len(buf) + 1
        /\ Len(buf) \in Nat
    BY <1>3, Appended, Elements
  <2>2. CASE room
    <3>1. Len(buf) < BufCap /\ BufCap \in Nat
      BY <2>2, <1>3
    <3>2. Len(buf) + 1 <= BufCap
      BY <2>1, <3>1
    <3>3. buf' = Append(buf, held)
      BY <2>2, <1>2
    <3> QED
      BY <2>1, <3>2, <3>3
  <2>3. CASE ~room
    BY <2>3, <1>2, <1>3
  <2> QED
    BY <2>2, <2>3
<1>6. TypeOK'
  BY <1>1, <1>2, <1>4, <1>5, NoUpdateAssumption DEF RWInv, TypeOK
<1>7. Carried'
  <2> SUFFICES ASSUME NEW k \in Keys, ~dropped'[k] PROVE Latest(buf', k, arrived[k], last[k])
    BY <1>2 DEF Carried, LatestInBuf, Latest
  <2>1. CASE k = held.key
    <3>1. held.price = arrived[k]
      BY <2>1, <1>2 DEF RWInv, Carried
    <3> QED
      BY <2>1, <3>1, <1>2, <1>3, <1>4, LatestAppended
  <2>2. CASE k # held.key
    <3>1. Latest(buf, k, arrived[k], last[k])
      BY <2>2, <1>4 DEF RWInv, Carried, LatestInBuf, Latest
    <3> QED
      BY <2>2, <3>1, <1>2, <1>3, LatestAppended
  <2> QED
    BY <2>1, <2>2
<1>8. Remembered'
  BY <1>2 DEF RWInv, Remembered
<1> QED
  BY <1>1, <1>6, <1>7, <1>8 DEF RWInv

LEMMA FlushKeeps == RWInv /\ Flush => RWInv'
<1> SUFFICES ASSUME RWInv, Flush PROVE RWInv'
  OBVIOUS
<1>1. BInv' /\ BTypeOK'
  BY BInvNext DEF Next
<1> PICK u : u = Head(buf)
  OBVIOUS
<1>2. /\ flush = "select" /\ buf # << >> /\ buf' = Tail(buf)
      /\ UNCHANGED <<ingest, held, redis, arrived, failed, dropped>>
      /\ IF last[u.key] = u.price THEN UNCHANGED <<flush, writing, last>>
         ELSE flush' = "writing" /\ writing' = u /\ last' = [last EXCEPT ![u.key] = u.price]
  BY DEF Flush, Duplicate, Remember, hist
<1>3. /\ buf \in Seq(Update) /\ u \in Update /\ u.key \in Keys /\ u.price \in Prices
      /\ Tail(buf) \in Seq(Update) /\ Len(Tail(buf)) <= BufCap
  <2>1. buf \in Seq(Update) /\ Len(buf) <= BufCap
    BY DEF RWInv, TypeOK
  <2>2. u \in Update /\ Tail(buf) \in Seq(Update) /\ Len(Tail(buf)) = Len(buf) - 1 /\ Len(buf) \in Nat
    BY <2>1, <1>2, Removed, Elements
  <2> QED
    BY <2>1, <2>2, FeedAssumption DEF Update
<1>4. /\ last' \in [Keys -> Prices \cup {NoPrice}] /\ last'[u.key] = u.price
      /\ \A k \in Keys : k # u.key => last'[k] = last[k]
  BY <1>2, <1>3 DEF RWInv, TypeOK
<1>5. TypeOK'
  <2>1. /\ flush' \in {"select", "writing", "exit"} /\ writing' \in Update \cup {NoUpdate}
        /\ (flush' = "writing" <=> writing' \in Update)
    BY <1>2, <1>3 DEF RWInv, TypeOK
  <2> QED
    BY <1>1, <1>2, <1>3, <1>4, <2>1 DEF RWInv, TypeOK
<1>6. Carried'
  <2> SUFFICES ASSUME NEW k \in Keys, ~dropped[k], ~(ingest = "holding" /\ held.key = k)
               PROVE  Latest(buf', k, arrived[k], last'[k])
    BY <1>2 DEF Carried, LatestInBuf, Latest, RWInv
  <2>1. Latest(buf, k, arrived[k], last[k])
    BY DEF RWInv, Carried, LatestInBuf, Latest
  <2> QED
    BY <2>1, <1>2, <1>3, <1>4, LatestRemoved
<1>7. Remembered'
  BY <1>2, <1>3, <1>4 DEF RWInv, Remembered
<1> QED
  BY <1>1, <1>5, <1>6, <1>7 DEF RWInv

LEMMA WriteKeeps == RWInv /\ (HSet \/ HSetFails) => RWInv'
<1> SUFFICES ASSUME RWInv, HSet \/ HSetFails PROVE RWInv'
  OBVIOUS
<1>1. BInv' /\ BTypeOK'
  BY BInvNext DEF Next
<1>2. /\ flush = "writing" /\ flush' = "select" /\ writing' = NoUpdate
      /\ UNCHANGED <<ingest, held, buf, last, arrived, dropped>>
  BY DEF HSet, HSetFails
<1>3. writing \in Update /\ writing.key \in Keys /\ writing.price \in Prices /\ writing.n \in Numbers
  BY <1>2 DEF RWInv, TypeOK, Update
<1>4. /\ redis' \in [Keys -> [price : Prices \cup {NoPrice}, n : Numbers]]
      /\ failed' \in [Keys -> BOOLEAN]
      /\ \A k \in Keys : k # writing.key => redis'[k] = redis[k] /\ failed'[k] = failed[k]
      /\ failed'[writing.key] \/ redis'[writing.key].price = writing.price
  <2>1. /\ redis \in [Keys -> [price : Prices \cup {NoPrice}, n : Numbers]]
        /\ failed \in [Keys -> BOOLEAN]
    BY DEF RWInv, TypeOK
  <2>2. CASE HSet
    <3> DEFINE e == [price |-> writing.price, n |-> writing.n]
    <3>1. redis' = [redis EXCEPT ![writing.key] = e] /\ failed' = [failed EXCEPT ![writing.key] = FALSE]
      BY <2>2 DEF HSet
    <3>2. e \in [price : Prices \cup {NoPrice}, n : Numbers] /\ e.price = writing.price
      BY <1>3
    <3> HIDE DEF e
    <3>3. /\ redis' \in [Keys -> [price : Prices \cup {NoPrice}, n : Numbers]]
          /\ redis'[writing.key] = e
          /\ \A k \in Keys : k # writing.key => redis'[k] = redis[k]
      BY <1>3, <2>1, <3>1, <3>2
    <3>4. /\ failed' \in [Keys -> BOOLEAN]
          /\ \A k \in Keys : k # writing.key => failed'[k] = failed[k]
      BY <2>1, <3>1
    <3> QED
      BY <3>2, <3>3, <3>4
  <2>3. CASE HSetFails
    BY <1>3, <2>1, <2>3 DEF HSetFails
  <2> QED
    BY <2>2, <2>3
<1>5. TypeOK'
  BY <1>1, <1>2, <1>4, NoUpdateAssumption DEF RWInv, TypeOK
<1>6. Carried'
  BY <1>2 DEF RWInv, Carried, LatestInBuf
<1>7. Remembered'
  BY <1>2, <1>3, <1>4 DEF RWInv, Remembered
<1> QED
  BY <1>1, <1>5, <1>6, <1>7 DEF RWInv

LEMMA NextRWInv == RWInv /\ [Next]_vars => RWInv'
<1> SUFFICES ASSUME RWInv, [Next]_vars PROVE RWInv'
  OBVIOUS
<1>1. BInv' /\ BTypeOK'
  BY BInvNext
<1>2. ASSUME UNCHANGED <<held, buf, writing, last, redis, hist>>,
             ingest' = ingest \/ (ingest = "select" /\ ingest' = "exit"),
             flush' = flush \/ (flush = "select" /\ flush' = "exit")
      PROVE  RWInv'
  <2>1. UNCHANGED <<arrived, failed, dropped>>
    BY <1>2 DEF hist
  <2>2. (ingest' = "holding" <=> ingest = "holding") /\ (flush' = "writing" <=> flush = "writing")
    BY <1>2
  <2>3. TypeOK'
    BY <1>1, <1>2, <2>1, <2>2 DEF RWInv, TypeOK
  <2>4. Carried' /\ Remembered'
    BY <1>2, <2>1, <2>2 DEF RWInv, Carried, LatestInBuf, Remembered
  <2> QED
    BY <1>1, <2>3, <2>4 DEF RWInv
<1>3. CASE UNCHANGED writer
  BY <1>2, <1>3 DEF writer
<1>4. CASE IngestStops \/ FlushStops
  BY <1>2, <1>4 DEF IngestStops, FlushStops
<1> QED
  BY <1>3, <1>4, IngestKeeps, StoreKeeps, FlushKeeps, WriteKeeps DEF Next, vars

(* Broadcaster and writer keep their types: no channel or buffer holds     *)
(* more than its capacity, and a goroutine that holds nothing writes none. *)
THEOREM WriterTypeCorrect == Spec => []TypeOK
<1>1. RWInv => TypeOK
  BY DEF RWInv
<1> QED
  BY InitRWInv, NextRWInv, <1>1, PTL DEF Spec

(* Skipping what was written before never leaves an old price standing.    *)
THEOREM WriterSettles == Spec => []SettledIsLatest
<1>1. RWInv => SettledIsLatest
  BY DEF RWInv, Carried, LatestInBuf, Remembered, SettledIsLatest, Inside
<1> QED
  BY InitRWInv, NextRWInv, <1>1, PTL DEF Spec
=============================================================================
