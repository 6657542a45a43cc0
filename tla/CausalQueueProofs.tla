-------------------------- MODULE CausalQueueProofs --------------------------
(***************************************************************************)
(* Theorems about CausalQueue, for every set of books, prices, orders,     *)
(* events, quantities and for every bound.                                 *)
(*                                                                         *)
(*   A. the orders of a group in their order, and what stands before one   *)
(*   B. the inductive invariant: types, activation times that grow with    *)
(*      the order numbers, and own orders that fill oldest first           *)
(*   C. what a step does to the queue ahead of an order, and price-time    *)
(*      priority                                                           *)
(*   D. a trade's quantity is spent exactly once                           *)
(***************************************************************************)
EXTENDS CausalQueue, LedgerArithmeticProofs

\* Orders are numbered in the order of their activation: a later number has
\* no earlier time, and no order is from the future.
TimesOK ==
    /\ \A i \in DOMAIN orders : orders[i].activated <= lastTime
    /\ \A i, j \in DOMAIN orders : i < j => orders[i].activated <= orders[j].activated

\* The inductive invariant.
IInv == TypeOK /\ TimesOK /\ OldestFillsFirst

-----------------------------------------------------------------------------
(* A. What stands before an order.                                         *)

\* A book of own orders O, numbered up to n and by activation time.
OrdersOK(O, n) ==
    /\ n \in Nat
    /\ DOMAIN O \subseteq 1..n
    /\ \A i \in DOMAIN O : /\ O[i].remaining \in Nat /\ O[i].barrier \in Nat
                           /\ O[i].activated \in Nat
    /\ \A i, j \in DOMAIN O : i < j => O[i].activated <= O[j].activated

\* The orders of i's group with a smaller number.
Older(O, i) == {j \in DOMAIN O : O[j].key = O[i].key /\ j < i}

\* Of two orders of a group the one with the smaller number stands before the
\* other.
LEMMA OlderIsSmaller ==
    ASSUME NEW O, NEW n, OrdersOK(O, n), NEW i \in DOMAIN O
    PROVE  OlderThan(O, i) = Older(O, i)
<1>1. ASSUME NEW j \in DOMAIN O, O[j].key = O[i].key
      PROVE  j \in OlderThan(O, i) <=> j < i
    <2>1. /\ i \in Nat /\ j \in Nat /\ O[i].activated \in Nat /\ O[j].activated \in Nat
          /\ i < j => O[i].activated <= O[j].activated
          /\ j < i => O[j].activated <= O[i].activated
        BY DEF OrdersOK
    <2>2. j \in OlderThan(O, i) <=> (O[j].activated < O[i].activated \/ (O[j].activated = O[i].activated /\ j < i))
        <3>1. j \in At(O, O[i].key)
            BY <1>1 DEF At
        <3>2. QED BY <3>1 DEF OlderThan
    <2>3. i = j => O[i].activated = O[j].activated
        OBVIOUS
    <2>4. QED BY <2>1, <2>2, <2>3
<1>2. \A j \in OlderThan(O, i) : j \in DOMAIN O /\ O[j].key = O[i].key
    BY DEF OlderThan, At
<1>3. QED BY <1>1, <1>2 DEF Older

\* The amounts of a book are natural numbers.
LEMMA AmountsAreNat ==
    ASSUME NEW O, NEW n, OrdersOK(O, n)
    PROVE  \A i \in DOMAIN O : /\ RemainingOf(O)[i] = O[i].remaining /\ RemainingOf(O)[i] \in Nat
                               /\ BarrierOf(O)[i] = O[i].barrier /\ BarrierOf(O)[i] \in Nat
BY DEF OrdersOK, RemainingOf, BarrierOf

\* So are their totals over some of the orders.
LEMMA TotalsAreNat ==
    ASSUME NEW O, NEW n, OrdersOK(O, n), NEW S \in SUBSET DOMAIN O, MaxActivation \in Nat
    PROVE  TotalOf(S, RemainingOf(O)) \in Nat /\ TotalOf(S, BarrierOf(O)) \in Nat
<1>1. (\A i \in S : RemainingOf(O)[i] \in Nat) /\ (\A i \in S : BarrierOf(O)[i] \in Nat)
    BY AmountsAreNat
<1>2. QED BY <1>1, TotalNat DEF TotalOf

\* The queue ahead of an order.
LEMMA QueueAheadType ==
    ASSUME NEW O, NEW n, OrdersOK(O, n), NEW P, NEW i \in DOMAIN O, P[O[i].key] \in Nat,
           MaxActivation \in Nat
    PROVE  QueueAhead(P, O, i) \in Nat
<1>1. OlderThan(O, i) \in SUBSET DOMAIN O
    BY DEF OlderThan, At
<1>2. TotalOf(OlderThan(O, i), RemainingOf(O)) \in Nat /\ TotalOf(OlderThan(O, i), BarrierOf(O)) \in Nat
    BY <1>1, TotalsAreNat
<1>3. O[i].barrier \in Nat
    BY DEF OrdersOK
<1>4. QED BY <1>2, <1>3 DEF QueueAhead

\* The orders at a better level than i's, among those of the levels.
BetterThan(O, levels, i) == {j \in DOMAIN O : O[j].key \in levels /\ Better(O[j].key, O[i].key)}

\* The quantity before an order is a natural number.
LEMMA BeforeType ==
    ASSUME NEW n, OrdersOK(orders, n), NEW i \in DOMAIN orders, public[orders[i].key] \in Nat,
           MaxActivation \in Nat, NEW levels, NEW printed
    PROVE  Before(i, levels, printed) \in Nat
<1>1. OlderThan(orders, i) \in SUBSET DOMAIN orders /\ BetterThan(orders, levels, i) \in SUBSET DOMAIN orders
    BY DEF OlderThan, At, BetterThan
<1>2. /\ TotalOf(OlderThan(orders, i), RemainingOf(orders)) \in Nat
      /\ TotalOf(BetterThan(orders, levels, i), RemainingOf(orders)) \in Nat
    BY <1>1, TotalsAreNat
<1>3. QueueAhead(public, orders, i) \in Nat
    BY QueueAheadType
<1>4. QED BY <1>2, <1>3 DEF Before, BetterThan

-----------------------------------------------------------------------------
(* B. The inductive invariant.                                             *)

\* The types of a step's parameters, from the assumptions on the constants.
LEMMA Constants ==
    /\ MaxActivation \in Nat /\ MaxTime \in Nat
    /\ \A x \in OrderQuantity : x \in Nat /\ x > 0
    /\ \A x \in Observed : x \in Nat
    /\ \A x \in Traded : x \in Nat
BY QueueAssumption

\* Under the invariant the orders are a well-formed book.
LEMMA BookOK ==
    ASSUME TypeOK, TimesOK
    PROVE  OrdersOK(orders, sequence)
<1>1. sequence \in Nat /\ DOMAIN orders \subseteq 1..sequence
    BY Constants DEF TypeOK
<1>2. \A i \in DOMAIN orders : /\ orders[i].remaining \in Nat /\ orders[i].barrier \in Nat
                               /\ orders[i].activated \in Nat
    BY Constants DEF TypeOK, OwnQueueOrder, Time
<1>3. QED BY <1>1, <1>2 DEF OrdersOK, TimesOK

\* Every order's key is that of a group.
LEMMA KeyHasGroup ==
    ASSUME TypeOK, NEW i \in DOMAIN orders
    PROVE  orders[i].key \in DOMAIN public /\ public[orders[i].key] \in Nat
BY DEF TypeOK

\* A new estimator satisfies the invariant.
LEMMA InitIInv ==
    ASSUME Init
    PROVE  IInv
BY Constants DEF Init, IInv, TypeOK, TimesOK, OldestFillsFirst, Time

\* A sweep fills an order at its group and takes from its barrier: by at most
\* what is there.
LEMMA SweptOrder ==
    ASSUME TypeOK, TimesOK, NEW i \in DOMAIN orders, NEW levels, NEW printed, NEW quantity \in Traded
    PROVE  LET o == Swept(i, levels, printed, quantity)
           IN  /\ o \in OwnQueueOrder
               /\ o.key = orders[i].key /\ o.column = orders[i].column
               /\ o.quantity = orders[i].quantity /\ o.activated = orders[i].activated
               /\ o.remaining <= orders[i].remaining /\ o.barrier <= orders[i].barrier
               /\ orders[i].key \notin levels => o = orders[i]
<1> DEFINE o == orders[i]
           left == quantity - Before(i, levels, printed)
<1>1. o \in OwnQueueOrder
    BY DEF TypeOK
<1>2. left \in Int
    <2>1. Before(i, levels, printed) \in Nat
        BY BookOK, KeyHasGroup, BeforeType, Constants
    <2>2. QED BY <2>1, Constants
<1>3. o.remaining - Clamp(left, o.remaining) \in 0..o.remaining
    BY <1>1, <1>2 DEF OwnQueueOrder, Clamp
<1>4. o.barrier - Clamp(left + o.barrier, o.barrier) \in 0..o.barrier
    BY <1>1, <1>2 DEF OwnQueueOrder, Clamp
<1> HIDE DEF left
<1>5. CASE o.key \notin levels
    BY <1>1, <1>5 DEF Swept, OwnQueueOrder
<1>6. CASE o.key \in levels
    <2>1. PICK x \in 0..o.remaining, y \in 0..o.barrier :
              x = o.remaining - Clamp(left, o.remaining) /\ y = o.barrier - Clamp(left + o.barrier, o.barrier)
        BY <1>3, <1>4
    <2>2. PICK z \in 0..o.barrier : z = IF o.key = printed THEN y ELSE o.barrier
        BY <1>1, <2>1 DEF OwnQueueOrder
    <2>3. Swept(i, levels, printed, quantity) = [o EXCEPT !.remaining = x, !.barrier = z]
        BY <1>6, <2>1, <2>2 DEF Swept, left
    <2>4. x \in Nat /\ z \in Nat /\ x <= o.remaining /\ z <= o.barrier
        BY <1>1, <2>1, <2>2 DEF OwnQueueOrder
    <2>5. PICK r : r = [o EXCEPT !.remaining = x, !.barrier = z]
        OBVIOUS
    <2>6. /\ r \in OwnQueueOrder /\ r.remaining = x /\ r.barrier = z
          /\ r.key = o.key /\ r.column = o.column /\ r.quantity = o.quantity /\ r.activated = o.activated
        BY <1>1, <2>4, <2>5 DEF OwnQueueOrder
    <2>7. QED BY <1>6, <2>3, <2>4, <2>5, <2>6
<1>7. QED BY <1>5, <1>6

\* What stands before the older of two orders of a swept level, and the older
\* one itself, stands before the younger.
LEMMA OlderStandsBefore ==
    ASSUME TypeOK, TimesOK, NEW i \in DOMAIN orders, NEW j \in DOMAIN orders,
           orders[i].key = orders[j].key, i < j, NEW levels, NEW printed
    PROVE  Before(i, levels, printed) + orders[i].remaining <= Before(j, levels, printed)
<1> DEFINE F == OlderThan(orders, i)
           G == OlderThan(orders, j)
           R == RemainingOf(orders)
           B == BarrierOf(orders)
<1>1. OrdersOK(orders, sequence) /\ i \in 1..MaxActivation
    BY BookOK, Constants DEF TypeOK
<1>2. F \in SUBSET G /\ i \in G /\ i \notin F /\ G \in SUBSET DOMAIN orders
    <2>1. F = Older(orders, i) /\ G = Older(orders, j)
        BY <1>1, OlderIsSmaller
    <2>2. \A k \in DOMAIN orders : k \in Nat
        BY Constants DEF TypeOK
    <2>3. QED BY <2>1, <2>2 DEF Older
<1>3. (\A k \in G : R[k] \in Nat) /\ (\A k \in G : B[k] \in Nat)
    BY <1>1, <1>2, AmountsAreNat
<1>4. R[i] = orders[i].remaining /\ B[i] = orders[i].barrier /\ orders[i].remaining \in Nat
      /\ orders[i].barrier \in Nat /\ orders[j].barrier \in Nat
    BY <1>1, AmountsAreNat
<1> HIDE DEF R, B, F, G
<1>5. TotalOf(F, R) + R[i] <= TotalOf(G, R)
    BY <1>1, <1>2, <1>3, TotalRoom, Constants DEF TotalOf
<1>6. TotalOf(F, B) + B[i] <= TotalOf(G, B)
    BY <1>1, <1>2, <1>3, TotalRoom, Constants DEF TotalOf
<1>7. TotalOf(F, R) \in Nat /\ TotalOf(G, R) \in Nat /\ TotalOf(F, B) \in Nat /\ TotalOf(G, B) \in Nat
    <2>1. F \in SUBSET DOMAIN orders
        BY <1>2
    <2>2. QED BY <1>1, <1>2, <2>1, TotalsAreNat, Constants DEF R, B
<1>8. BetterThan(orders, levels, i) = BetterThan(orders, levels, j)
    BY DEF BetterThan
<1>9. PICK h : h = TotalOf(BetterThan(orders, levels, i), R) /\ h \in Nat
    <2>1. BetterThan(orders, levels, i) \in SUBSET DOMAIN orders
        BY DEF BetterThan
    <2>2. QED BY <1>1, <2>1, TotalsAreNat, Constants DEF R
<1>10. PICK f \in Nat, g \in Nat, u \in Nat, v \in Nat, r \in Nat, b \in Nat, c \in Nat :
           /\ f = TotalOf(F, R) /\ g = TotalOf(G, R) /\ u = TotalOf(F, B) /\ v = TotalOf(G, B)
           /\ r = orders[i].remaining /\ b = orders[i].barrier /\ c = orders[j].barrier
    BY <1>4, <1>7
<1>11. f + r <= g /\ u + b <= v
    BY <1>4, <1>5, <1>6, <1>10
<1>12. CASE orders[j].key = printed
    <2>1. PICK p \in Nat : p = public[orders[i].key]
        BY KeyHasGroup
    <2>2. /\ Before(i, levels, printed) = h + (p + b + u + f)
          /\ Before(j, levels, printed) = h + (p + c + v + g)
        BY <1>8, <1>9, <1>10, <1>12, <2>1 DEF Before, BetterThan, QueueAhead, F, G, R, B
    <2>3. h + (p + b + u + f) + r <= h + (p + c + v + g)
        BY <1>9, <1>11
    <2>4. QED BY <1>10, <2>2, <2>3
<1>13. CASE orders[j].key # printed
    <2>1. /\ Before(i, levels, printed) = h + f
          /\ Before(j, levels, printed) = h + g
        BY <1>8, <1>9, <1>10, <1>13 DEF Before, BetterThan, F, G, R
    <2>2. h + f + r <= h + g
        BY <1>9, <1>11
    <2>3. QED BY <1>10, <2>1, <2>2
<1>14. QED BY <1>12, <1>13

\* What a sweep does to a queue: public quantities and orders only shrink.
LEMMA SweepShrinks ==
    ASSUME TypeOK, TimesOK, NEW levels, NEW printed, NEW quantity \in Traded,
           Sweep(levels, printed, quantity)
    PROVE  /\ DOMAIN public' = DOMAIN public
           /\ public' \in [DOMAIN public -> Nat]
           /\ \A k \in DOMAIN public : public'[k] <= public[k]
           /\ DOMAIN orders' = DOMAIN orders
           /\ orders' \in [DOMAIN orders -> OwnQueueOrder]
           /\ \A i \in DOMAIN orders :
                  /\ orders'[i] = Swept(i, levels, printed, quantity)
                  /\ orders'[i].key = orders[i].key /\ orders'[i].column = orders[i].column
                  /\ orders'[i].quantity = orders[i].quantity /\ orders'[i].activated = orders[i].activated
                  /\ orders'[i].remaining <= orders[i].remaining /\ orders'[i].barrier <= orders[i].barrier
                  /\ orders[i].key \notin levels => orders'[i] = orders[i]
<1>1. orders' = [i \in DOMAIN orders |-> Swept(i, levels, printed, quantity)]
    BY DEF Sweep
<1>2. \A i \in DOMAIN orders :
          /\ orders'[i] = Swept(i, levels, printed, quantity)
          /\ orders'[i] \in OwnQueueOrder
          /\ orders'[i].key = orders[i].key /\ orders'[i].column = orders[i].column
          /\ orders'[i].quantity = orders[i].quantity /\ orders'[i].activated = orders[i].activated
          /\ orders'[i].remaining <= orders[i].remaining /\ orders'[i].barrier <= orders[i].barrier
          /\ orders[i].key \notin levels => orders'[i] = orders[i]
    <2>1. ASSUME NEW i \in DOMAIN orders
          PROVE  /\ orders'[i] = Swept(i, levels, printed, quantity)
                 /\ orders'[i] \in OwnQueueOrder
                 /\ orders'[i].key = orders[i].key /\ orders'[i].column = orders[i].column
                 /\ orders'[i].quantity = orders[i].quantity /\ orders'[i].activated = orders[i].activated
                 /\ orders'[i].remaining <= orders[i].remaining /\ orders'[i].barrier <= orders[i].barrier
                 /\ orders[i].key \notin levels => orders'[i] = orders[i]
        BY <1>1, SweptOrder
    <2>2. QED BY <2>1
<1>3. DOMAIN orders' = DOMAIN orders /\ orders' \in [DOMAIN orders -> OwnQueueOrder]
    BY <1>1, <1>2
<1> DEFINE left == quantity - TotalOf({j \in DOMAIN orders : orders[j].key \in levels /\ Better(orders[j].key, printed)},
                                      RemainingOf(orders))
<1>4. left \in Int
    <2>1. {j \in DOMAIN orders : orders[j].key \in levels /\ Better(orders[j].key, printed)} \in SUBSET DOMAIN orders
        OBVIOUS
    <2>2. QED BY <2>1, BookOK, TotalsAreNat, Constants
<1> HIDE DEF left
<1>5. public' = [k \in DOMAIN public |-> IF k = printed THEN public[k] - Clamp(left, public[k]) ELSE public[k]]
    BY DEF Sweep, left
<1>6. \A k \in DOMAIN public : public[k] \in Nat
    BY DEF TypeOK
<1>7. \A k \in DOMAIN public : public'[k] \in Nat /\ public'[k] <= public[k]
    <2>1. ASSUME NEW k \in DOMAIN public
          PROVE  public'[k] \in Nat /\ public'[k] <= public[k]
        <3>1. PICK p \in Nat : p = public[k]
            BY <1>6
        <3>2. Clamp(left, p) \in 0..p
            BY <1>4, ClampType
        <3>3. public'[k] = IF k = printed THEN p - Clamp(left, p) ELSE p
            BY <1>5, <3>1
        <3>4. QED BY <3>1, <3>2, <3>3
    <2>2. QED BY <2>1
<1>8. DOMAIN public' = DOMAIN public /\ public' \in [DOMAIN public -> Nat]
    BY <1>5, <1>7
<1>9. QED BY <1>2, <1>3, <1>7, <1>8

\* A sweep that fills any of an order has filled those before it.
LEMMA SweepFillsOlder ==
    ASSUME TypeOK, TimesOK, NEW levels, NEW printed, NEW quantity \in Traded,
           Sweep(levels, printed, quantity), NEW i \in DOMAIN orders, NEW j \in DOMAIN orders,
           orders[j].key \in levels, orders[i].key \in levels,
           Before(j, levels, printed) + orders[j].remaining <= Before(i, levels, printed),
           orders'[i].remaining < orders[i].remaining
    PROVE  orders'[j].remaining = 0
<1>1. orders'[i] = Swept(i, levels, printed, quantity) /\ orders'[j] = Swept(j, levels, printed, quantity)
    BY SweepShrinks
<1>2. orders[i] \in OwnQueueOrder /\ orders[j] \in OwnQueueOrder
    BY DEF TypeOK
<1>3. PICK bi \in Nat, bj \in Nat, ri \in Nat, rj \in Nat :
          /\ bi = Before(i, levels, printed) /\ bj = Before(j, levels, printed)
          /\ ri = orders[i].remaining /\ rj = orders[j].remaining
    BY <1>2, BookOK, KeyHasGroup, BeforeType, Constants DEF OwnQueueOrder
<1>4. orders'[i].remaining = ri - Clamp(quantity - bi, ri) /\ orders'[j].remaining = rj - Clamp(quantity - bj, rj)
    BY <1>1, <1>2, <1>3 DEF Swept, OwnQueueOrder
<1>5. quantity \in Nat
    BY Constants
<1>6. bj + rj <= bi /\ ri - Clamp(quantity - bi, ri) < ri
    BY <1>3, <1>4
<1>7. rj - Clamp(quantity - bj, rj) = 0
    BY <1>5, <1>6 DEF Clamp
<1>8. QED BY <1>4, <1>7

\* A call takes a time that is not before the last one.
LEMMA CausalMoves ==
    ASSUME TypeOK, NEW now \in Time, Causal(now)
    PROVE  lastTime' = now /\ lastTime' \in Time /\ lastTime <= lastTime' /\ lastTime \in Nat /\ lastTime' \in Nat
BY Constants DEF TypeOK, Causal, Time

\* A trade keeps the invariant.
LEMMA SweepKeeps ==
    ASSUME IInv, NEW levels, NEW printed, NEW quantity \in Traded, Sweep(levels, printed, quantity),
           NEW now \in Time, Causal(now), sequence' = sequence, processed' \subseteq EventId
    PROVE  IInv'
<1>1. TypeOK /\ TimesOK /\ OldestFillsFirst
    BY DEF IInv
<1>2. lastTime' \in Time /\ lastTime <= lastTime' /\ lastTime \in Nat /\ lastTime' \in Nat
    BY <1>1, CausalMoves
<1>3. /\ DOMAIN public' = DOMAIN public
      /\ public' \in [DOMAIN public -> Nat]
      /\ DOMAIN orders' = DOMAIN orders
      /\ orders' \in [DOMAIN orders -> OwnQueueOrder]
    BY <1>1, SweepShrinks
<1>4. \A i \in DOMAIN orders :
          /\ orders'[i].key = orders[i].key /\ orders'[i].column = orders[i].column
          /\ orders'[i].quantity = orders[i].quantity /\ orders'[i].activated = orders[i].activated
          /\ orders'[i].remaining <= orders[i].remaining
          /\ orders[i].key \notin levels => orders'[i] = orders[i]
    BY <1>1, SweepShrinks
<1>5. \A i \in DOMAIN orders : /\ orders[i].remaining \in Nat /\ orders'[i].remaining \in Nat
                               /\ orders[i].quantity \in Nat /\ orders[i].activated \in Nat
    BY <1>1, <1>3, Constants DEF TypeOK, OwnQueueOrder, Time
<1>6. TypeOK'
    <2>1. \A i \in DOMAIN orders : orders'[i].remaining <= orders'[i].quantity /\ orders'[i].key \in DOMAIN public
        <3>1. \A i \in DOMAIN orders : orders[i].remaining <= orders[i].quantity /\ orders[i].key \in DOMAIN public
            BY <1>1 DEF TypeOK
        <3>2. QED BY <1>4, <1>5, <3>1
    <2>2. \A i, j \in DOMAIN orders :
              /\ orders'[i].key = orders'[j].key /\ orders'[i].column = orders'[j].column
              /\ orders'[i].remaining > 0 /\ orders'[j].remaining > 0
              => i = j
        <3>1. \A i \in DOMAIN orders : orders'[i].remaining > 0 => orders[i].remaining > 0
            BY <1>4, <1>5
        <3>2. QED BY <1>1, <1>4, <3>1 DEF TypeOK
    <2>3. DOMAIN public' \subseteq Key /\ sequence' \in 0..MaxActivation /\ DOMAIN orders' \subseteq 1..sequence'
        BY <1>1, <1>3 DEF TypeOK
    <2>4. QED BY <1>2, <1>3, <2>1, <2>2, <2>3 DEF TypeOK
<1>7. TimesOK'
    <2>1. \A i \in DOMAIN orders : orders[i].activated <= lastTime
        BY <1>1 DEF TimesOK
    <2>2. \A i \in DOMAIN orders : orders'[i].activated <= lastTime'
        BY <1>2, <1>4, <1>5, <2>1
    <2>3. \A i, j \in DOMAIN orders : i < j => orders'[i].activated <= orders'[j].activated
        BY <1>1, <1>4 DEF TimesOK
    <2>4. QED BY <1>3, <2>2, <2>3 DEF TimesOK
<1>8. OldestFillsFirst'
    <2>1. ASSUME NEW i \in DOMAIN orders, NEW j \in DOMAIN orders,
                 orders'[i].key = orders'[j].key, i < j, orders'[j].remaining < orders'[j].quantity
          PROVE  orders'[i].remaining = 0
        <3>1. orders[i].key = orders[j].key /\ orders'[j].remaining < orders[j].quantity
            BY <1>4, <2>1
        <3>2. CASE orders[j].remaining < orders[j].quantity
            <4>1. orders[i].remaining = 0
                BY <1>1, <2>1, <3>1, <3>2 DEF OldestFillsFirst
            <4>2. QED BY <1>4, <1>5, <4>1
        <3>3. CASE ~ (orders[j].remaining < orders[j].quantity)
            <4>1. orders'[j].remaining < orders[j].remaining
                BY <1>5, <3>1, <3>3
            <4>2. orders[j].key \in levels /\ orders[i].key \in levels
                BY <1>4, <1>5, <3>1, <4>1
            <4>3. Before(i, levels, printed) + orders[i].remaining <= Before(j, levels, printed)
                BY <1>1, <2>1, <3>1, OlderStandsBefore
            <4>4. QED BY <1>1, <4>1, <4>2, <4>3, SweepFillsOlder
        <3>4. QED BY <3>2, <3>3
    <2>2. QED BY <1>3, <2>1 DEF OldestFillsFirst
<1>9. QED BY <1>6, <1>7, <1>8 DEF IInv

\* A cancellation keeps the invariant.
LEMMA RemovalKeeps ==
    ASSUME IInv, NEW c, orders' = Removed(c), UNCHANGED <<public, processed, sequence>>,
           NEW now \in Time, Causal(now)
    PROVE  IInv'
<1>1. TypeOK /\ TimesOK /\ OldestFillsFirst
    BY DEF IInv
<1>2. lastTime' \in Time /\ lastTime <= lastTime' /\ lastTime \in Nat /\ lastTime' \in Nat
    BY <1>1, CausalMoves
<1>3. /\ DOMAIN orders' = DOMAIN orders \ {c}
      /\ \A i \in DOMAIN orders' : i \in DOMAIN orders /\ orders'[i] = orders[i]
      /\ orders' = [i \in DOMAIN orders' |-> orders'[i]]
    BY DEF Removed
<1>4. TypeOK'
    <2>1. DOMAIN orders' \subseteq 1..sequence' /\ orders' \in [DOMAIN orders' -> OwnQueueOrder]
        BY <1>1, <1>3 DEF TypeOK
    <2>2. \A i \in DOMAIN orders' : /\ orders'[i].remaining <= orders'[i].quantity
                                    /\ orders'[i].key \in DOMAIN public'
        BY <1>1, <1>3 DEF TypeOK
    <2>3. \A i, j \in DOMAIN orders' :
              /\ orders'[i].key = orders'[j].key /\ orders'[i].column = orders'[j].column
              /\ orders'[i].remaining > 0 /\ orders'[j].remaining > 0
              => i = j
        BY <1>1, <1>3 DEF TypeOK
    <2>4. QED BY <1>1, <1>2, <2>1, <2>2, <2>3 DEF TypeOK
<1>5. TimesOK'
    <2>1. \A i \in DOMAIN orders : orders[i].activated <= lastTime /\ orders[i].activated \in Nat
        BY <1>1, Constants DEF TimesOK, TypeOK, OwnQueueOrder, Time
    <2>2. \A i \in DOMAIN orders' : orders'[i].activated <= lastTime'
        BY <1>2, <1>3, <2>1
    <2>3. QED BY <1>1, <1>3, <2>2 DEF TimesOK
<1>6. OldestFillsFirst'
    BY <1>1, <1>3 DEF OldestFillsFirst
<1>7. QED BY <1>4, <1>5, <1>6 DEF IInv

\* Order n joins k's group, which shows `opening' and whose live barriers sum
\* to r.
Joins(n, opening, barrier, r, k, id, column, quantity, observed, now) ==
    /\ n = sequence + 1 /\ sequence' = n /\ n \notin DOMAIN orders /\ \A i \in DOMAIN orders : i < n
    /\ opening = IF Active(orders, k) = {} THEN observed ELSE public[k]
    /\ r = TotalOf(Active(orders, k), BarrierOf(orders))
    /\ Active(orders, k) # {} => barrier >= observed - (opening + r)
    /\ public' = [j \in DOMAIN public \cup {k} |-> IF j = k THEN opening ELSE public[j]]
    /\ DOMAIN orders' = DOMAIN orders \cup {n}
    /\ \A i \in DOMAIN orders : orders'[i] = orders[i]
    /\ orders' = [i \in DOMAIN orders' |-> orders'[i]]
    /\ orders'[n] = [id |-> id, key |-> k, column |-> column, quantity |-> quantity,
                     remaining |-> quantity, activated |-> now, barrier |-> barrier]

\* The new order's number, its group's public quantity and its barrier.
LEMMA Activated ==
    ASSUME TypeOK, TimesOK, NEW k \in Key, NEW id \in OrderId, NEW column \in Column,
           NEW quantity \in OrderQuantity, NEW observed \in Observed, NEW now \in Time,
           Activate(k, id, column, quantity, observed, now)
    PROVE  \E n \in 1..MaxActivation, opening \in Nat, barrier \in Nat, r \in Nat :
               Joins(n, opening, barrier, r, k, id, column, quantity, observed, now)
<1> DEFINE live == Active(orders, k)
<1>1. PICK n : n = sequence + 1
    OBVIOUS
<1>2. n \in 1..MaxActivation /\ n \notin DOMAIN orders /\ \A i \in DOMAIN orders : i < n
    <2>1. n <= MaxActivation
        BY <1>1 DEF Activate
    <2>2. sequence \in 0..MaxActivation /\ DOMAIN orders \subseteq 1..sequence
        BY DEF TypeOK
    <2>3. QED BY <1>1, <2>1, <2>2, Constants
<1>3. PICK opening : opening = IF live = {} THEN observed ELSE public[k]
    OBVIOUS
<1>4. opening \in Nat
    <2>1. CASE live = {}
        BY <1>3, <2>1, Constants
    <2>2. CASE live # {}
        <3>1. PICK i \in DOMAIN orders : orders[i].key = k
            BY <2>2 DEF Active, At
        <3>2. QED BY <1>3, <2>2, <3>1, KeyHasGroup
    <2>3. QED BY <2>1, <2>2
<1>5. PICK r \in Nat : r = TotalOf(live, BarrierOf(orders))
    <2>1. live \in SUBSET DOMAIN orders
        BY DEF Active, At
    <2>2. QED BY <2>1, BookOK, TotalsAreNat, Constants
<1>6. PICK later \in Int : later = observed - (opening + r)
    BY <1>4, Constants
<1>7. later = observed - Represented(k, opening)
    BY <1>5, <1>6 DEF Represented
<1>8. PICK barrier \in Nat : barrier = IF live = {} \/ later < 0 THEN 0 ELSE later
    BY <1>6
<1>9. live # {} => barrier >= observed - (opening + r)
    BY <1>6, <1>8
<1>10. /\ sequence' = n
       /\ public' = [j \in DOMAIN public \cup {k} |-> IF j = k THEN opening ELSE public[j]]
       /\ orders' = [i \in DOMAIN orders \cup {n} |->
               IF i = n
               THEN [id |-> id, key |-> k, column |-> column, quantity |-> quantity,
                     remaining |-> quantity, activated |-> now, barrier |-> barrier]
               ELSE orders[i]]
    BY <1>1, <1>3, <1>7, <1>8 DEF Activate
<1>11. /\ DOMAIN orders' = DOMAIN orders \cup {n}
       /\ \A i \in DOMAIN orders : orders'[i] = orders[i]
       /\ orders' = [i \in DOMAIN orders' |-> orders'[i]]
       /\ orders'[n] = [id |-> id, key |-> k, column |-> column, quantity |-> quantity,
                        remaining |-> quantity, activated |-> now, barrier |-> barrier]
    BY <1>2, <1>10
<1>12. Joins(n, opening, barrier, r, k, id, column, quantity, observed, now)
    BY <1>1, <1>2, <1>3, <1>5, <1>9, <1>10, <1>11 DEF Joins
<1> HIDE DEF live
<1>13. QED BY <1>2, <1>4, <1>12

\* An activation keeps the invariant.
LEMMA ActivateKeeps ==
    ASSUME IInv, NEW k \in Key, NEW id \in OrderId, NEW column \in Column,
           NEW quantity \in OrderQuantity, NEW observed \in Observed, NEW now \in Time,
           Activate(k, id, column, quantity, observed, now)
    PROVE  IInv'
<1>1. TypeOK /\ TimesOK /\ OldestFillsFirst
    BY DEF IInv
<1>2. lastTime' = now /\ lastTime' \in Time /\ lastTime <= lastTime' /\ lastTime \in Nat /\ lastTime' \in Nat
    BY <1>1, CausalMoves DEF Activate
<1>3. PICK n \in 1..MaxActivation, opening \in Nat, barrier \in Nat, r \in Nat :
          Joins(n, opening, barrier, r, k, id, column, quantity, observed, now)
    BY <1>1, Activated
<1>4. /\ n = sequence + 1 /\ sequence' = n /\ n \notin DOMAIN orders /\ \A i \in DOMAIN orders : i < n
      /\ public' = [j \in DOMAIN public \cup {k} |-> IF j = k THEN opening ELSE public[j]]
      /\ DOMAIN orders' = DOMAIN orders \cup {n}
      /\ \A i \in DOMAIN orders : orders'[i] = orders[i]
      /\ orders' = [i \in DOMAIN orders' |-> orders'[i]]
      /\ orders'[n] = [id |-> id, key |-> k, column |-> column, quantity |-> quantity,
                       remaining |-> quantity, activated |-> now, barrier |-> barrier]
    BY <1>3 DEF Joins
<1>5. /\ orders'[n] \in OwnQueueOrder /\ orders'[n].key = k /\ orders'[n].column = column
      /\ orders'[n].quantity = quantity /\ orders'[n].remaining = quantity /\ orders'[n].activated = now
      /\ quantity \in Nat /\ quantity > 0
    BY <1>4, Constants DEF OwnQueueOrder
<1>6. \A i \in DOMAIN orders : i \in Nat /\ i < n /\ orders[i].activated \in Nat
    BY <1>1, <1>4, Constants DEF TypeOK, OwnQueueOrder, Time
<1>7. TypeOK'
    <2>1. DOMAIN public' \subseteq Key /\ public' \in [DOMAIN public' -> Nat] /\ DOMAIN public' = DOMAIN public \cup {k}
        BY <1>1, <1>4 DEF TypeOK
    <2>2. sequence' \in 0..MaxActivation /\ DOMAIN orders' \subseteq 1..sequence'
        BY <1>1, <1>4, Constants DEF TypeOK
    <2>3. orders' \in [DOMAIN orders' -> OwnQueueOrder]
        BY <1>1, <1>4, <1>5 DEF TypeOK
    <2>4. \A i \in DOMAIN orders' : orders'[i].remaining <= orders'[i].quantity /\ orders'[i].key \in DOMAIN public'
        <3>1. \A i \in DOMAIN orders : orders[i].remaining <= orders[i].quantity /\ orders[i].key \in DOMAIN public
            BY <1>1 DEF TypeOK
        <3>2. orders'[n].remaining <= orders'[n].quantity /\ orders'[n].key \in DOMAIN public'
            BY <1>5, <2>1
        <3>3. QED BY <1>4, <2>1, <3>1, <3>2
    <2>5. \A i, j \in DOMAIN orders' :
              /\ orders'[i].key = orders'[j].key /\ orders'[i].column = orders'[j].column
              /\ orders'[i].remaining > 0 /\ orders'[j].remaining > 0
              => i = j
        <3>1. \A i \in DOMAIN orders : orders[i].key = k /\ orders[i].remaining > 0 => orders[i].column # column
            BY DEF Activate, ColumnFree, Active, At
        <3>2. \A i \in DOMAIN orders : ~ (/\ orders'[i].key = orders'[n].key /\ orders'[i].column = orders'[n].column
                                          /\ orders'[i].remaining > 0)
            BY <1>4, <1>5, <3>1
        <3>3. \A i, j \in DOMAIN orders :
              /\ orders'[i].key = orders'[j].key /\ orders'[i].column = orders'[j].column
              /\ orders'[i].remaining > 0 /\ orders'[j].remaining > 0
              => i = j
            BY <1>1, <1>4 DEF TypeOK
        <3>4. QED BY <1>4, <3>2, <3>3
    <2>6. processed' \subseteq EventId
        BY <1>1 DEF TypeOK, Activate
    <2>7. QED BY <1>2, <2>1, <2>2, <2>3, <2>4, <2>5, <2>6 DEF TypeOK
<1>8. TimesOK'
    <2>1. \A i \in DOMAIN orders : orders[i].activated <= lastTime
        BY <1>1 DEF TimesOK
    <2>2. \A i \in DOMAIN orders' : orders'[i].activated <= lastTime'
        BY <1>2, <1>4, <1>5, <1>6, <2>1
    <2>3. \A i, j \in DOMAIN orders' : i < j => orders'[i].activated <= orders'[j].activated
        <3>1. \A i \in DOMAIN orders : orders'[i].activated <= orders'[n].activated /\ ~ (n < i)
            BY <1>2, <1>4, <1>5, <1>6, <2>1
        <3>2. \A i, j \in DOMAIN orders : i < j => orders'[i].activated <= orders'[j].activated
            BY <1>1, <1>4 DEF TimesOK
        <3>3. orders'[n].activated <= orders'[n].activated
            BY <1>2, <1>5
        <3>4. QED BY <1>4, <3>1, <3>2, <3>3
    <2>4. QED BY <2>2, <2>3 DEF TimesOK
<1>9. OldestFillsFirst'
    <2>1. ~ (orders'[n].remaining < orders'[n].quantity)
        BY <1>5
    <2>2. \A i \in DOMAIN orders : ~ (n < i)
        BY <1>6
    <2>3. \A i, j \in DOMAIN orders :
              /\ orders'[i].key = orders'[j].key /\ i < j
              /\ orders'[j].remaining < orders'[j].quantity
              => orders'[i].remaining = 0
        BY <1>1, <1>4 DEF OldestFillsFirst
    <2>4. QED BY <1>4, <2>1, <2>2, <2>3 DEF OldestFillsFirst
<1>10. QED BY <1>7, <1>8, <1>9 DEF IInv

\* So does every state a step leads to.
LEMMA NextIInv ==
    ASSUME IInv, [Next]_vars
    PROVE  IInv'
<1>1. CASE Next
    <2>1. PICK now \in Time :
              \/ \E k \in Key, id \in OrderId, column \in Column, quantity \in OrderQuantity, observed \in Observed :
                     Activate(k, id, column, quantity, observed, now)
              \/ \E i \in DOMAIN orders : CancelAck(i, now) \/ CancelAckAfterRacingFill(i, now)
              \/ \E event \in EventId, k \in Key, quantity \in Traded :
                     ConsumeCompatibleFlow(event, k, quantity, now) \/ ConsumeTradeThrough(event, k, quantity, now)
              \/ RejectedCall(now)
        BY <1>1 DEF Next
    <2>2. CASE \E k \in Key, id \in OrderId, column \in Column, quantity \in OrderQuantity, observed \in Observed :
                   Activate(k, id, column, quantity, observed, now)
        BY <2>2, ActivateKeeps
    <2>3. ASSUME NEW i \in DOMAIN orders, CancelAck(i, now) \/ CancelAckAfterRacingFill(i, now)
          PROVE  IInv'
        <3>1. orders' = Removed(i) /\ UNCHANGED <<public, processed, sequence>> /\ Causal(now)
            BY <2>3 DEF CancelAck, CancelAckAfterRacingFill
        <3>2. QED BY <3>1, RemovalKeeps
    <2>4. ASSUME NEW event \in EventId, NEW k \in Key, NEW quantity \in Traded,
                 ConsumeCompatibleFlow(event, k, quantity, now) \/ ConsumeTradeThrough(event, k, quantity, now)
          PROVE  IInv'
        <3>1. PICK levels : Sweep(levels, k, quantity)
            BY <2>4 DEF ConsumeCompatibleFlow, ConsumeTradeThrough
        <3>2. Causal(now) /\ sequence' = sequence /\ processed' \subseteq EventId
            BY <2>4 DEF ConsumeCompatibleFlow, ConsumeTradeThrough, IInv, TypeOK
        <3>3. QED BY <3>1, <3>2, SweepKeeps
    <2>5. CASE RejectedCall(now)
        <3>1. TypeOK /\ TimesOK /\ OldestFillsFirst
            BY DEF IInv
        <3>2. lastTime' \in Time /\ lastTime <= lastTime' /\ lastTime \in Nat /\ lastTime' \in Nat
            BY <2>5, <3>1, CausalMoves DEF RejectedCall
        <3>3. TypeOK' /\ OldestFillsFirst'
            BY <2>5, <3>1, <3>2 DEF RejectedCall, TypeOK, OldestFillsFirst
        <3>4. TimesOK'
            <4>1. \A i \in DOMAIN orders : orders[i].activated <= lastTime /\ orders[i].activated \in Nat
                BY <3>1, Constants DEF TimesOK, TypeOK, OwnQueueOrder, Time
            <4>2. QED BY <2>5, <3>1, <3>2, <4>1 DEF RejectedCall, TimesOK
        <3>5. QED BY <3>3, <3>4 DEF IInv
    <2>6. QED BY <2>1, <2>2, <2>3, <2>4, <2>5
<1>2. CASE UNCHANGED vars
    BY <1>2 DEF vars, IInv, TypeOK, TimesOK, OldestFillsFirst
<1>3. QED BY <1>1, <1>2

\* The invariant holds in every reachable state.
THEOREM InductiveInvariant == Spec => []IInv
<1>1. Init => IInv
    BY InitIInv
<1>2. IInv /\ [Next]_vars => IInv'
    BY NextIInv
<1>3. QED BY <1>1, <1>2, PTL DEF Spec

\* The types of the estimator's state, and what _validate_group demands of
\* every group: no two of its own orders with quantity left in one column.
THEOREM TypeCorrect == Spec => []TypeOK
<1>1. IInv => TypeOK
    BY DEF IInv
<1>2. QED BY <1>1, InductiveInvariant, PTL

\* Own orders at one price fill in activation order.
THEOREM OldestFirst == Spec => []OldestFillsFirst
<1>1. IInv => OldestFillsFirst
    BY DEF IInv
<1>2. QED BY <1>1, InductiveInvariant, PTL

-----------------------------------------------------------------------------
(* C. The queue ahead of an order, and price-time priority.                *)

\* The orders are a well-formed book after a step too.
LEMMA BookOKNext ==
    ASSUME TypeOK', TimesOK'
    PROVE  OrdersOK(orders', sequence')
<1>1. sequence' \in Nat /\ DOMAIN orders' \subseteq 1..sequence'
    BY Constants DEF TypeOK
<1>2. \A i \in DOMAIN orders' : /\ orders'[i].remaining \in Nat /\ orders'[i].barrier \in Nat
                                /\ orders'[i].activated \in Nat
    BY Constants DEF TypeOK, OwnQueueOrder, Time
<1>3. QED BY <1>1, <1>2 DEF OrdersOK, TimesOK

\* Fewer older orders, or less of them, put less quantity before an order.
LEMMA AheadLeq ==
    ASSUME NEW O, NEW n, OrdersOK(O, n), NEW Q, NEW m, OrdersOK(Q, m), MaxActivation \in Nat,
           NEW i \in DOMAIN O, i \in DOMAIN Q, Q[i].barrier <= O[i].barrier,
           NEW P, NEW T, P[O[i].key] \in Nat, T[Q[i].key] \in Nat, T[Q[i].key] <= P[O[i].key],
           Older(Q, i) \subseteq Older(O, i),
           \A j \in Older(Q, i) : Q[j].remaining <= O[j].remaining /\ Q[j].barrier <= O[j].barrier
    PROVE  QueueAhead(T, Q, i) <= QueueAhead(P, O, i)
<1>1. PICK F, G : F = Older(O, i) /\ G = Older(Q, i)
    OBVIOUS
<1>2. OlderThan(O, i) = F /\ OlderThan(Q, i) = G
    BY <1>1, OlderIsSmaller
<1>3. F \in SUBSET DOMAIN O /\ G \in SUBSET DOMAIN Q /\ G \in SUBSET F /\ G \in SUBSET DOMAIN O
    BY <1>1 DEF Older
<1>4. \A j \in G : /\ RemainingOf(Q)[j] \in Int /\ RemainingOf(O)[j] \in Int
                   /\ RemainingOf(Q)[j] <= RemainingOf(O)[j]
    <2>1. \A j \in G : RemainingOf(Q)[j] = Q[j].remaining /\ RemainingOf(O)[j] = O[j].remaining
                      /\ Q[j].remaining \in Nat /\ O[j].remaining \in Nat
        BY <1>3, AmountsAreNat
    <2>2. QED BY <1>1, <2>1
<1>5. \A j \in G : /\ BarrierOf(Q)[j] \in Int /\ BarrierOf(O)[j] \in Int
                   /\ BarrierOf(Q)[j] <= BarrierOf(O)[j]
    <2>1. \A j \in G : BarrierOf(Q)[j] = Q[j].barrier /\ BarrierOf(O)[j] = O[j].barrier
                      /\ Q[j].barrier \in Nat /\ O[j].barrier \in Nat
        BY <1>3, AmountsAreNat
    <2>2. QED BY <1>1, <2>1
<1>6. /\ TotalOf(G, RemainingOf(Q)) <= TotalOf(G, RemainingOf(O))
      /\ TotalOf(G, BarrierOf(Q)) <= TotalOf(G, BarrierOf(O))
    <2>1. TotalOf(G, RemainingOf(Q)) <= TotalOf(G, RemainingOf(O))
        BY <1>4, TotalLeq DEF TotalOf
    <2>2. TotalOf(G, BarrierOf(Q)) <= TotalOf(G, BarrierOf(O))
        BY <1>5, TotalLeq DEF TotalOf
    <2>3. QED BY <2>1, <2>2
<1>7. /\ TotalOf(G, RemainingOf(O)) <= TotalOf(F, RemainingOf(O))
      /\ TotalOf(G, BarrierOf(O)) <= TotalOf(F, BarrierOf(O))
    <2>1. \A j \in F : RemainingOf(O)[j] \in Nat
        BY <1>3, AmountsAreNat
    <2>2. \A j \in F : BarrierOf(O)[j] \in Nat
        BY <1>3, AmountsAreNat
    <2>3. TotalOf(G, RemainingOf(O)) <= TotalOf(F, RemainingOf(O))
        BY <1>3, <2>1, TotalSubset DEF TotalOf
    <2>4. TotalOf(G, BarrierOf(O)) <= TotalOf(F, BarrierOf(O))
        BY <1>3, <2>2, TotalSubset DEF TotalOf
    <2>5. QED BY <2>3, <2>4
<1>8. /\ TotalOf(G, RemainingOf(Q)) \in Nat /\ TotalOf(G, RemainingOf(O)) \in Nat /\ TotalOf(F, RemainingOf(O)) \in Nat
      /\ TotalOf(G, BarrierOf(Q)) \in Nat /\ TotalOf(G, BarrierOf(O)) \in Nat /\ TotalOf(F, BarrierOf(O)) \in Nat
    BY <1>3, TotalsAreNat
<1>9. O[i].barrier \in Nat /\ Q[i].barrier \in Nat
    BY DEF OrdersOK
<1>10. PICK a \in Nat, b \in Nat, c \in Nat, d \in Nat, e \in Nat, f \in Nat, g \in Nat, h \in Nat :
           /\ a = T[Q[i].key] /\ b = Q[i].barrier /\ c = TotalOf(G, BarrierOf(Q)) /\ d = TotalOf(G, RemainingOf(Q))
           /\ e = P[O[i].key] /\ f = O[i].barrier /\ g = TotalOf(F, BarrierOf(O)) /\ h = TotalOf(F, RemainingOf(O))
    BY <1>8, <1>9
<1>11. a <= e /\ b <= f /\ c <= g /\ d <= h
    BY <1>6, <1>7, <1>8, <1>10
<1>12. a + b + c + d <= e + f + g + h
    BY <1>11
<1>13. QED BY <1>2, <1>10, <1>12 DEF QueueAhead

\* No step puts more before an order that has quantity left.
LEMMA AheadStep ==
    ASSUME IInv, IInv', [Next]_vars, NEW i \in DOMAIN orders \cap DOMAIN orders', Live(orders, i)
    PROVE  QueueAhead(public', orders', i) <= QueueAhead(public, orders, i)
<1>1. TypeOK /\ TimesOK /\ TypeOK' /\ TimesOK'
    BY DEF IInv
<1>2. OrdersOK(orders, sequence) /\ OrdersOK(orders', sequence') /\ MaxActivation \in Nat
    BY <1>1, BookOK, BookOKNext, Constants
<1>3. i \in DOMAIN orders /\ i \in DOMAIN orders'
    OBVIOUS
<1>4. public[orders[i].key] \in Nat /\ orders[i].key \in DOMAIN public
    BY <1>1, <1>3, KeyHasGroup
<1>5. SUFFICES /\ orders'[i].key = orders[i].key /\ orders'[i].barrier <= orders[i].barrier
              /\ public'[orders[i].key] \in Nat /\ public'[orders[i].key] <= public[orders[i].key]
              /\ Older(orders', i) \subseteq Older(orders, i)
              /\ \A j \in Older(orders', i) : /\ orders'[j].remaining <= orders[j].remaining
                                             /\ orders'[j].barrier <= orders[j].barrier
    BY <1>2, <1>3, <1>4, AheadLeq
<1>6. \A j \in DOMAIN orders : orders[j].barrier <= orders[j].barrier /\ orders[j].remaining <= orders[j].remaining
    BY <1>2 DEF OrdersOK
<1>7. ASSUME public'[orders[i].key] = public[orders[i].key], orders'[i] = orders[i],
             Older(orders', i) \subseteq Older(orders, i), \A j \in Older(orders', i) : orders'[j] = orders[j]
      PROVE  /\ orders'[i].key = orders[i].key /\ orders'[i].barrier <= orders[i].barrier
             /\ public'[orders[i].key] \in Nat /\ public'[orders[i].key] <= public[orders[i].key]
             /\ Older(orders', i) \subseteq Older(orders, i)
             /\ \A j \in Older(orders', i) : /\ orders'[j].remaining <= orders[j].remaining
                                            /\ orders'[j].barrier <= orders[j].barrier
    <2>1. Older(orders, i) \subseteq DOMAIN orders
        BY DEF Older
    <2>2. QED BY <1>3, <1>4, <1>6, <1>7, <2>1
<1>8. CASE UNCHANGED vars
    <2>1. public' = public /\ orders' = orders
        BY <1>8 DEF vars
    <2>2. QED BY <1>7, <2>1
<1>9. ASSUME NEW now \in Time, NEW k \in Key, NEW id \in OrderId, NEW column \in Column,
             NEW quantity \in OrderQuantity, NEW observed \in Observed,
             Activate(k, id, column, quantity, observed, now)
      PROVE  /\ public'[orders[i].key] = public[orders[i].key] /\ orders'[i] = orders[i]
             /\ Older(orders', i) \subseteq Older(orders, i) /\ \A j \in Older(orders', i) : orders'[j] = orders[j]
    <2>1. PICK n \in 1..MaxActivation, opening \in Nat, barrier \in Nat, r \in Nat :
              Joins(n, opening, barrier, r, k, id, column, quantity, observed, now)
        BY <1>1, <1>9, Activated
    <2>2. /\ \A j \in DOMAIN orders : j < n /\ orders'[j] = orders[j]
          /\ DOMAIN orders' = DOMAIN orders \cup {n}
          /\ public' = [j \in DOMAIN public \cup {k} |-> IF j = k THEN opening ELSE public[j]]
          /\ opening = IF Active(orders, k) = {} THEN observed ELSE public[k]
        BY <2>1 DEF Joins
    <2>3. orders[i].key = k => i \in Active(orders, k)
        BY <1>2, <1>3 DEF Live, Active, At
    <2>4. public'[orders[i].key] = public[orders[i].key]
        BY <1>4, <2>2, <2>3
    <2>5. i < n /\ ~ (n < i)
        BY <1>2, <1>3, <2>1, <2>2 DEF OrdersOK
    <2>6. Older(orders', i) \subseteq Older(orders, i)
        BY <1>3, <2>2, <2>5 DEF Older
    <2>7. Older(orders, i) \subseteq DOMAIN orders
        BY DEF Older
    <2>8. QED BY <1>3, <2>2, <2>4, <2>6, <2>7
<1>10. ASSUME NEW c, orders' = Removed(c), public' = public
       PROVE  /\ public'[orders[i].key] = public[orders[i].key] /\ orders'[i] = orders[i]
              /\ Older(orders', i) \subseteq Older(orders, i) /\ \A j \in Older(orders', i) : orders'[j] = orders[j]
    <2>1. DOMAIN orders' = DOMAIN orders \ {c} /\ \A j \in DOMAIN orders' : orders'[j] = orders[j]
        BY <1>10 DEF Removed
    <2>2. QED BY <1>3, <1>10, <2>1 DEF Older
<1>11. ASSUME NEW levels, NEW printed, NEW quantity \in Traded, Sweep(levels, printed, quantity)
       PROVE  /\ orders'[i].key = orders[i].key /\ orders'[i].barrier <= orders[i].barrier
              /\ public'[orders[i].key] \in Nat /\ public'[orders[i].key] <= public[orders[i].key]
              /\ Older(orders', i) \subseteq Older(orders, i)
              /\ \A j \in Older(orders', i) : /\ orders'[j].remaining <= orders[j].remaining
                                             /\ orders'[j].barrier <= orders[j].barrier
    <2>1. /\ public' \in [DOMAIN public -> Nat]
          /\ \A k \in DOMAIN public : public'[k] <= public[k]
          /\ DOMAIN orders' = DOMAIN orders
          /\ \A j \in DOMAIN orders : /\ orders'[j].key = orders[j].key
                                      /\ orders'[j].remaining <= orders[j].remaining
                                      /\ orders'[j].barrier <= orders[j].barrier
        BY <1>1, <1>11, SweepShrinks
    <2>2. Older(orders', i) = Older(orders, i) /\ Older(orders, i) \subseteq DOMAIN orders
        BY <1>3, <2>1 DEF Older
    <2>3. QED BY <1>3, <1>4, <2>1, <2>2
<1>12. CASE Next
    <2>1. PICK now \in Time :
              \/ \E k \in Key, id \in OrderId, column \in Column, quantity \in OrderQuantity, observed \in Observed :
                     Activate(k, id, column, quantity, observed, now)
              \/ \E c \in DOMAIN orders : CancelAck(c, now) \/ CancelAckAfterRacingFill(c, now)
              \/ \E event \in EventId, k \in Key, quantity \in Traded :
                     ConsumeCompatibleFlow(event, k, quantity, now) \/ ConsumeTradeThrough(event, k, quantity, now)
              \/ RejectedCall(now)
        BY <1>12 DEF Next
    <2>2. CASE \E k \in Key, id \in OrderId, column \in Column, quantity \in OrderQuantity, observed \in Observed :
                   Activate(k, id, column, quantity, observed, now)
        BY <1>7, <1>9, <2>2
    <2>3. CASE \E c \in DOMAIN orders : CancelAck(c, now) \/ CancelAckAfterRacingFill(c, now)
        <3>1. PICK c \in DOMAIN orders : orders' = Removed(c) /\ public' = public
            BY <2>3 DEF CancelAck, CancelAckAfterRacingFill
        <3>2. QED BY <1>7, <1>10, <3>1
    <2>4. CASE \E event \in EventId, k \in Key, quantity \in Traded :
                   ConsumeCompatibleFlow(event, k, quantity, now) \/ ConsumeTradeThrough(event, k, quantity, now)
        <3>1. PICK event \in EventId, k \in Key, quantity \in Traded :
                  ConsumeCompatibleFlow(event, k, quantity, now) \/ ConsumeTradeThrough(event, k, quantity, now)
            BY <2>4
        <3>2. PICK levels : Sweep(levels, k, quantity)
            BY <3>1 DEF ConsumeCompatibleFlow, ConsumeTradeThrough
        <3>3. QED BY <1>11, <3>2
    <2>5. CASE RejectedCall(now)
        <3>1. public' = public /\ orders' = orders
            BY <2>5 DEF RejectedCall
        <3>2. QED BY <1>7, <3>1
    <2>6. QED BY <2>1, <2>2, <2>3, <2>4, <2>5
<1>13. QED BY <1>8, <1>12

\* An order never loses ground: activations, replacements and cancellations of
\* others, and trades, never put more quantity before it.
THEOREM NoGroundIsLost == Spec => QueueAheadNeverGrows
<1>1. IInv /\ IInv' /\ [Next]_vars =>
          [\A i \in DOMAIN orders \cap DOMAIN orders' :
              Live(orders, i) => QueueAhead(public', orders', i) <= QueueAhead(public, orders, i)]_vars
    BY AheadStep
<1>2. QED BY <1>1, InductiveInvariant, PTL DEF Spec, QueueAheadNeverGrows

\* A new order stands behind what is displayed and behind the live own orders.
LEMMA ActivatedBehind ==
    ASSUME IInv, IInv', NEW k \in Key, NEW id \in OrderId, NEW column \in Column,
           NEW quantity \in OrderQuantity, NEW observed \in Observed, NEW now \in Time,
           Activate(k, id, column, quantity, observed, now)
    PROVE  QueueAhead(public', orders', sequence')
               >= observed + TotalOf(Active(orders, k), RemainingOf(orders))
<1>1. TypeOK /\ TimesOK /\ TypeOK' /\ TimesOK'
    BY DEF IInv
<1>2. OrdersOK(orders, sequence) /\ OrdersOK(orders', sequence') /\ MaxActivation \in Nat
    BY <1>1, BookOK, BookOKNext, Constants
<1>3. PICK n \in 1..MaxActivation, opening \in Nat, barrier \in Nat, r \in Nat :
          Joins(n, opening, barrier, r, k, id, column, quantity, observed, now)
    BY <1>1, Activated
<1>4. /\ sequence' = n /\ n \notin DOMAIN orders /\ \A i \in DOMAIN orders : i < n
      /\ opening = IF Active(orders, k) = {} THEN observed ELSE public[k]
      /\ r = TotalOf(Active(orders, k), BarrierOf(orders))
      /\ Active(orders, k) # {} => barrier >= observed - (opening + r)
      /\ public'[k] = opening
      /\ DOMAIN orders' = DOMAIN orders \cup {n}
      /\ \A i \in DOMAIN orders : orders'[i] = orders[i]
      /\ orders'[n].key = k /\ orders'[n].barrier = barrier
    BY <1>3 DEF Joins
<1>5. PICK F, G : F = At(orders, k) /\ G = Active(orders, k)
    OBVIOUS
<1>6. F \in SUBSET DOMAIN orders /\ F \in SUBSET DOMAIN orders' /\ G \in SUBSET F /\ G \in SUBSET DOMAIN orders
    BY <1>4, <1>5 DEF At, Active
<1>7. OlderThan(orders', n) = F
    <2>1. OlderThan(orders', n) = Older(orders', n)
        BY <1>2, <1>4, OlderIsSmaller
    <2>2. Older(orders', n) = F
        BY <1>4, <1>5 DEF Older, At
    <2>3. QED BY <2>1, <2>2
<1>8. /\ TotalOf(F, RemainingOf(orders')) = TotalOf(F, RemainingOf(orders))
      /\ TotalOf(F, BarrierOf(orders')) = TotalOf(F, BarrierOf(orders))
    <2>1. /\ \A i \in F : RemainingOf(orders)[i] = RemainingOf(orders')[i]
          /\ \A i \in F \ F : RemainingOf(orders')[i] = 0
        BY <1>4, <1>6 DEF RemainingOf
    <2>2. /\ \A i \in F : BarrierOf(orders)[i] = BarrierOf(orders')[i]
          /\ \A i \in F \ F : BarrierOf(orders')[i] = 0
        BY <1>4, <1>6 DEF BarrierOf
    <2>3. F \in SUBSET F
        OBVIOUS
    <2>4. TotalOf(F, RemainingOf(orders')) = TotalOf(F, RemainingOf(orders))
        BY <1>2, <2>1, <2>3, TotalSame DEF TotalOf
    <2>5. TotalOf(F, BarrierOf(orders')) = TotalOf(F, BarrierOf(orders))
        BY <1>2, <2>2, <2>3, TotalSame DEF TotalOf
    <2>6. QED BY <2>4, <2>5
<1>9. /\ TotalOf(G, RemainingOf(orders)) <= TotalOf(F, RemainingOf(orders))
      /\ TotalOf(G, BarrierOf(orders)) <= TotalOf(F, BarrierOf(orders))
    <2>1. \A j \in F : RemainingOf(orders)[j] \in Nat
        BY <1>2, <1>6, AmountsAreNat
    <2>2. \A j \in F : BarrierOf(orders)[j] \in Nat
        BY <1>2, <1>6, AmountsAreNat
    <2>3. TotalOf(G, RemainingOf(orders)) <= TotalOf(F, RemainingOf(orders))
        BY <1>2, <1>6, <2>1, TotalSubset DEF TotalOf
    <2>4. TotalOf(G, BarrierOf(orders)) <= TotalOf(F, BarrierOf(orders))
        BY <1>2, <1>6, <2>2, TotalSubset DEF TotalOf
    <2>5. QED BY <2>3, <2>4
<1>10. PICK a \in Nat, b \in Nat, c \in Nat, d \in Nat :
           /\ a = TotalOf(F, RemainingOf(orders)) /\ b = TotalOf(F, BarrierOf(orders))
           /\ c = TotalOf(G, RemainingOf(orders)) /\ d = TotalOf(G, BarrierOf(orders))
    BY <1>2, <1>6, TotalsAreNat
<1>11. QueueAhead(public', orders', n) = opening + barrier + b + a
    BY <1>4, <1>7, <1>8, <1>10 DEF QueueAhead
<1>12. c <= a /\ d <= b /\ r = d /\ observed \in Nat
    BY <1>4, <1>5, <1>9, <1>10, Constants
<1>13. CASE G = {}
    <2>1. opening = observed
        BY <1>4, <1>5, <1>13
    <2>2. opening + barrier + b + a >= observed + c
        BY <1>12, <2>1
    <2>3. QED BY <1>4, <1>5, <1>10, <1>11, <2>2
<1>14. CASE G # {}
    <2>1. barrier >= observed - (opening + d)
        BY <1>4, <1>5, <1>12, <1>14
    <2>2. opening + barrier + b + a >= observed + c
        BY <1>12, <2>1
    <2>3. QED BY <1>4, <1>5, <1>10, <1>11, <2>2
<1>15. QED BY <1>13, <1>14

\* No priority is inherited: a new order is at least as far back as the
\* displayed queue and all of the live own orders at its price.
THEOREM PriorityEarned == Spec => PriorityIsNotInherited
<1>1. IInv /\ IInv' /\ [Next]_vars =>
          [\A k \in Key, id \in OrderId, column \in Column, quantity \in OrderQuantity,
              observed \in Observed, now \in Time :
             Activate(k, id, column, quantity, observed, now) =>
                 QueueAhead(public', orders', sequence')
                     >= observed + TotalOf(Active(orders, k), RemainingOf(orders))]_vars
    BY ActivatedBehind
<1>2. QED BY <1>1, InductiveInvariant, PTL DEF Spec, PriorityIsNotInherited

\* Levels of one side.
OneSide(levels, k) == k \in Key /\ \A l \in levels : l \in Key /\ l.side = k.side

\* Better orders the levels of one side.
LEMMA BetterOrders ==
    ASSUME NEW levels, NEW k, OneSide(levels, k), NEW l \in levels, NEW m \in levels
    PROVE  /\ ~ Better(l, l)
           /\ Better(l, m) => ~ Better(m, l)
           /\ l.book = m.book /\ l # m => Better(l, m) \/ Better(m, l)
           /\ \A p \in levels : Better(l, m) /\ Better(m, p) => Better(l, p)
<1>1. \A p \in levels : p \in Key /\ p.side = k.side /\ p.price \in Nat
    BY QueueAssumption DEF OneSide, Key
<1>2. \A p \in levels : p = [book |-> p.book, side |-> k.side, price |-> p.price]
    BY <1>1 DEF Key
<1>3. l.book = m.book /\ l # m => l.price # m.price
    BY <1>2
<1>4. QED BY <1>1, <1>3 DEF Better

\* Away from the printed level those at better levels and the older ones of
\* the group stand before an order.
Ahead(levels, i) == BetterThan(orders, levels, i) \cup OlderThan(orders, i)

\* The quantity before such an order is what these have left.
LEMMA BeforeAtBetter ==
    ASSUME TypeOK, TimesOK, NEW levels, NEW printed, OneSide(levels, printed),
           NEW i \in DOMAIN orders, orders[i].key \in levels, orders[i].key # printed
    PROVE  /\ Before(i, levels, printed) = TotalOf(Ahead(levels, i), RemainingOf(orders))
           /\ Ahead(levels, i) \in SUBSET DOMAIN orders
           /\ i \notin Ahead(levels, i)
<1> DEFINE F == BetterThan(orders, levels, i)
           G == OlderThan(orders, i)
           W == Ahead(levels, i)
           R == RemainingOf(orders)
<1>1. OrdersOK(orders, sequence) /\ i \in Nat /\ MaxActivation \in Nat
    BY BookOK, Constants DEF TypeOK
<1>2. \A l \in levels : ~ Better(l, l)
    BY BetterOrders
<1>3. \A m \in G : m \in DOMAIN orders /\ orders[m].key = orders[i].key /\ m # i
    <2>1. G = Older(orders, i)
        BY <1>1, OlderIsSmaller
    <2>2. ~ (i < i)
        BY <1>1
    <2>3. QED BY <2>1, <2>2 DEF Older
<1>4. F \in SUBSET DOMAIN orders /\ \A m \in F : Better(orders[m].key, orders[i].key)
    BY DEF BetterThan
<1>5. W = F \cup G
    BY DEF Ahead
<1> HIDE DEF F, G, R, W
<1>6. W \ F = G /\ F \in SUBSET W /\ W \in SUBSET DOMAIN orders /\ G \in SUBSET DOMAIN orders /\ i \notin W
    <2>1. \A m \in G : m \notin F
        BY <1>2, <1>3, <1>4
    <2>2. i \notin F
        BY <1>2, <1>4
    <2>3. QED BY <1>3, <1>4, <1>5, <2>1, <2>2
<1>7. TotalOf(W, R) = TotalOf(F, R) + TotalOf(G, R)
    <2>1. \A m \in W : R[m] \in Int
        BY <1>1, <1>6, AmountsAreNat DEF R
    <2>2. QED BY <1>1, <1>6, <2>1, TotalSplit DEF TotalOf
<1>8. Before(i, levels, printed) = TotalOf(F, R) + TotalOf(G, R)
    BY DEF Before, BetterThan, F, G, R
<1>9. QED BY <1>6, <1>7, <1>8 DEF W, R

\* What stands before an order at a better level, and that order itself,
\* stands before an order at a worse level.
LEMMA BetterStandsBefore ==
    ASSUME TypeOK, TimesOK, NEW levels, NEW printed, OneSide(levels, printed),
           NEW i \in DOMAIN orders, NEW j \in DOMAIN orders,
           orders[i].key \in levels, orders[j].key \in levels,
           Better(orders[j].key, orders[i].key), orders[j].key # printed
    PROVE  Before(j, levels, printed) + orders[j].remaining <= Before(i, levels, printed)
<1> DEFINE W == Ahead(levels, j)
           H == BetterThan(orders, levels, i)
           R == RemainingOf(orders)
<1>1. OrdersOK(orders, sequence) /\ j \in 1..MaxActivation /\ MaxActivation \in Nat
    BY BookOK, Constants DEF TypeOK
<1>2. Before(j, levels, printed) = TotalOf(W, R) /\ W \in SUBSET DOMAIN orders /\ j \notin W
    BY BeforeAtBetter
<1>3. \A l, m, p \in levels : Better(l, m) /\ Better(m, p) => Better(l, p)
    BY BetterOrders
<1>4. /\ H \in SUBSET DOMAIN orders
      /\ \A m \in DOMAIN orders : m \in H <=> orders[m].key \in levels /\ Better(orders[m].key, orders[i].key)
      /\ \A m \in W : \/ orders[m].key \in levels /\ Better(orders[m].key, orders[j].key)
                      \/ orders[m].key = orders[j].key
    BY DEF BetterThan, Ahead, OlderThan, At
<1> HIDE DEF W, H, R
<1>5. j \in H /\ W \in SUBSET H
    <2>1. \A m \in W : m \in H
        BY <1>2, <1>3, <1>4
    <2>2. QED BY <1>4, <2>1
<1>6. (\A m \in H : R[m] \in Nat) /\ R[j] = orders[j].remaining
    BY <1>1, <1>4, AmountsAreNat DEF R
<1>7. TotalOf(W, R) + R[j] <= TotalOf(H, R)
    BY <1>1, <1>2, <1>5, <1>6, TotalRoom DEF TotalOf
<1>8. PICK w \in Nat, h \in Nat, r \in Nat :
           w = TotalOf(W, R) /\ h = TotalOf(H, R) /\ r = orders[j].remaining
    <2>1. orders[j].remaining \in Nat
        BY <1>1, AmountsAreNat
    <2>2. QED BY <1>1, <1>2, <1>4, <2>1, TotalsAreNat DEF R
<1>9. \E x \in Nat : Before(i, levels, printed) = h + x
    <2>1. OlderThan(orders, i) \in SUBSET DOMAIN orders
        BY DEF OlderThan, At
    <2>2. TotalOf(OlderThan(orders, i), R) \in Nat
        BY <1>1, <2>1, TotalsAreNat DEF R
    <2>3. QueueAhead(public, orders, i) \in Nat
        BY <1>1, KeyHasGroup, QueueAheadType
    <2>4. Before(i, levels, printed)
              = h + IF orders[i].key = printed THEN QueueAhead(public, orders, i) ELSE TotalOf(OlderThan(orders, i), R)
        BY <1>8 DEF Before, BetterThan, H, R
    <2>5. QED BY <2>2, <2>3, <2>4
<1>10. w + r <= h
    BY <1>6, <1>7, <1>8
<1>11. QED BY <1>2, <1>8, <1>9, <1>10

\* The levels a trade touches are on one side, and k's own level is the worst.
LEMMA TouchedOneSide ==
    ASSUME TypeOK, NEW k \in Key
    PROVE  /\ OneSide(Touched(k), k)
           /\ \A l \in Touched(k) : l \in DOMAIN public /\ l.book = k.book /\ (l = k \/ Better(l, k))
BY DEF TypeOK, OneSide, Touched

\* A trade through fills nothing at a level while a better one is unfilled.
LEMMA BetterLevelsFirst ==
    ASSUME IInv, NEW event, NEW k \in Key, NEW quantity \in Traded, NEW now \in Time,
           ConsumeTradeThrough(event, k, quantity, now), NEW i \in DOMAIN orders, NEW j \in DOMAIN orders,
           orders'[i].remaining < orders[i].remaining,
           orders[j].key.book = orders[i].key.book, orders[j].key.side = orders[i].key.side,
           IF k.side = "BUY" THEN orders[j].key.price > orders[i].key.price
                             ELSE orders[j].key.price < orders[i].key.price
    PROVE  orders'[j].remaining = 0
<1>1. TypeOK /\ TimesOK /\ Sweep(Touched(k), k, quantity)
    BY DEF IInv, ConsumeTradeThrough
<1>2. /\ OneSide(Touched(k), k)
      /\ \A l \in Touched(k) : l \in DOMAIN public /\ l.book = k.book /\ (l = k \/ Better(l, k))
    BY <1>1, TouchedOneSide
<1>3. PICK li, lj : li = orders[i].key /\ lj = orders[j].key
    OBVIOUS
<1>4. /\ li \in DOMAIN public /\ lj \in DOMAIN public /\ li \in Key /\ lj \in Key
      /\ k.price \in Nat /\ li.price \in Nat /\ lj.price \in Nat
    BY <1>1, <1>3, KeyHasGroup, QueueAssumption DEF TypeOK, Key
<1>5. li \in Touched(k)
    <2>1. orders[i].key \notin Touched(k) => orders'[i] = orders[i]
        BY <1>1, SweepShrinks
    <2>2. orders[i].remaining \in Nat
        BY <1>1 DEF TypeOK, OwnQueueOrder
    <2>3. QED BY <1>3, <2>1, <2>2
<1>6. li.side = k.side /\ li.book = k.book /\ lj.side = k.side /\ lj.book = k.book
    BY <1>2, <1>3, <1>5 DEF OneSide
<1>7. Better(lj, li)
    BY <1>3, <1>6 DEF Better
<1>8. Better(lj, k) /\ lj # k
    <2>1. li = k \/ Better(li, k)
        BY <1>2, <1>5
    <2>2. Better(lj, k)
        BY <1>4, <1>6, <1>7, <2>1 DEF Better
    <2>3. ~ Better(k, k)
        BY <1>4 DEF Better
    <2>4. QED BY <2>2, <2>3
<1>9. lj \in Touched(k)
    BY <1>4, <1>6, <1>8 DEF Touched
<1>10. Before(j, Touched(k), k) + orders[j].remaining <= Before(i, Touched(k), k)
    BY <1>1, <1>2, <1>3, <1>5, <1>7, <1>8, <1>9, BetterStandsBefore
<1>11. QED BY <1>1, <1>3, <1>5, <1>9, <1>10, SweepFillsOlder

\* A trade that sweeps several levels fills no order while one at a better
\* price is unfilled, and own orders at one price fill oldest first.
THEOREM FillsInPriceTimeOrder == Spec => PriceTimePriority
<1>1. IInv /\ IInv' /\ [Next]_vars =>
        [/\ OldestFillsFirst'
         /\ \A event \in EventId, k \in Key, quantity \in Traded, now \in Time :
           ConsumeTradeThrough(event, k, quantity, now) =>
               \A i, j \in DOMAIN orders :
                   /\ orders'[i].remaining < orders[i].remaining
                   /\ orders[j].key.book = orders[i].key.book /\ orders[j].key.side = orders[i].key.side
                   /\ IF k.side = "BUY" THEN orders[j].key.price > orders[i].key.price
                                        ELSE orders[j].key.price < orders[i].key.price
                   => orders'[j].remaining = 0]_vars
    <2>1. SUFFICES ASSUME IInv, IInv'
                   PROVE  /\ OldestFillsFirst'
                          /\ \A event \in EventId, k \in Key, quantity \in Traded, now \in Time :
                                ConsumeTradeThrough(event, k, quantity, now) =>
                                    \A i, j \in DOMAIN orders :
                                        /\ orders'[i].remaining < orders[i].remaining
                                        /\ orders[j].key.book = orders[i].key.book
                                        /\ orders[j].key.side = orders[i].key.side
                                        /\ IF k.side = "BUY" THEN orders[j].key.price > orders[i].key.price
                                                             ELSE orders[j].key.price < orders[i].key.price
                                        => orders'[j].remaining = 0
        OBVIOUS
    <2>2. OldestFillsFirst'
        BY <2>1 DEF IInv
    <2>3. QED BY <2>1, <2>2, BetterLevelsFirst
<1>2. QED BY <1>1, InductiveInvariant, PTL DEF Spec, PriceTimePriority

-----------------------------------------------------------------------------
(* D. A trade's quantity is spent exactly once.                            *)

\* The own orders a trade reaches before its printed level, and at it.
AtBetter(levels, k) == {i \in DOMAIN orders : orders[i].key \in levels /\ Better(orders[i].key, k)}

\* Those ahead of each order stand in one order: by level, then by number.
LEMMA LevelsInOrder ==
    ASSUME TypeOK, TimesOK, NEW levels, NEW k, OneSide(levels, k),
           \A l \in levels : l.book = k.book,
           NEW ahead, \A i \in AtBetter(levels, k) : ahead[i] = Ahead(levels, i)
    PROVE  IsOrder(ahead, AtBetter(levels, k))
<1> DEFINE H == AtBetter(levels, k)
<1>1. OrdersOK(orders, sequence) /\ \A i \in DOMAIN orders : i \in Nat
    BY BookOK, Constants DEF TypeOK
<1>2. OneSide(levels \cup {k}, k)
    BY DEF OneSide
<1>3. /\ \A l \in levels : ~ Better(l, l)
      /\ \A l, m \in levels : l # m => Better(l, m) \/ Better(m, l)
      /\ \A l, m, p \in levels : Better(l, m) /\ Better(m, p) => Better(l, p)
      /\ \A l, m \in levels : Better(l, m) /\ Better(m, k) => Better(l, k)
    BY <1>2, BetterOrders
<1>4. \A i \in H : i \in DOMAIN orders /\ orders[i].key \in levels /\ Better(orders[i].key, k)
    BY DEF AtBetter
<1>5. \A i \in H, m \in DOMAIN orders :
          m \in ahead[i] <=> (\/ orders[m].key \in levels /\ Better(orders[m].key, orders[i].key)
                              \/ orders[m].key = orders[i].key /\ m < i)
    <2>1. ASSUME NEW i \in H, NEW m \in DOMAIN orders
          PROVE  /\ m \in BetterThan(orders, levels, i) <=> orders[m].key \in levels /\ Better(orders[m].key, orders[i].key)
                 /\ m \in OlderThan(orders, i) <=> orders[m].key = orders[i].key /\ m < i
        <3>1. OlderThan(orders, i) = Older(orders, i)
            BY <1>1, <1>4, OlderIsSmaller
        <3>2. QED BY <3>1 DEF BetterThan, Older
    <2>2. QED BY <2>1 DEF Ahead
<1>6. \A i \in H : ahead[i] \subseteq DOMAIN orders
    <2>1. \A i \in H : BetterThan(orders, levels, i) \cup OlderThan(orders, i) \subseteq DOMAIN orders
        BY DEF BetterThan, OlderThan, At
    <2>2. QED BY <2>1 DEF Ahead
<1>7. \A m \in DOMAIN orders : orders[m].key \in levels /\ Better(orders[m].key, k) => m \in H
    BY DEF AtBetter
<1> HIDE DEF H
<1>8. ASSUME NEW i \in H PROVE ahead[i] \in SUBSET H /\ i \notin ahead[i]
    <2>1. ASSUME NEW m \in ahead[i] PROVE m \in H
        <3>1. m \in DOMAIN orders /\ orders[m].key \in levels
            BY <1>4, <1>5, <1>6
        <3>2. Better(orders[m].key, orders[i].key) \/ orders[m].key = orders[i].key
            BY <1>5, <3>1
        <3>3. Better(orders[m].key, k)
            BY <1>3, <1>4, <3>1, <3>2
        <3>4. QED BY <1>7, <3>1, <3>3
    <2>2. i \notin ahead[i]
        <3>1. ~ (i < i)
            BY <1>1, <1>4
        <3>2. QED BY <1>3, <1>4, <1>5, <3>1
    <2>3. QED BY <2>1, <2>2
<1>9. ASSUME NEW i \in H, NEW j \in H, i # j PROVE i \in ahead[j] \/ j \in ahead[i]
    <2>1. i < j \/ j < i
        BY <1>1, <1>4, <1>9
    <2>2. CASE orders[i].key = orders[j].key
        BY <1>4, <1>5, <2>1, <2>2
    <2>3. CASE orders[i].key # orders[j].key
        BY <1>3, <1>4, <1>5, <2>3
    <2>4. QED BY <2>2, <2>3
<1>10. ASSUME NEW i \in H, NEW j \in H, i \in ahead[j] PROVE ahead[i] \in SUBSET ahead[j]
    <2>1. ASSUME NEW m \in ahead[i] PROVE m \in ahead[j]
        <3>1. m \in DOMAIN orders /\ orders[m].key \in levels /\ i \in DOMAIN orders /\ orders[i].key \in levels
              /\ orders[j].key \in levels
            BY <1>4, <1>5, <1>6
        <3>2. Better(orders[m].key, orders[i].key) \/ (orders[m].key = orders[i].key /\ m < i)
            BY <1>5, <3>1
        <3>3. Better(orders[i].key, orders[j].key) \/ (orders[i].key = orders[j].key /\ i < j)
            BY <1>5, <1>10, <3>1
        <3>4. m < i /\ i < j => m < j
            BY <1>1, <1>4, <3>1
        <3>5. Better(orders[m].key, orders[j].key) \/ (orders[m].key = orders[j].key /\ m < j)
            BY <1>3, <3>1, <3>2, <3>3, <3>4
        <3>6. QED BY <1>5, <3>1, <3>5
    <2>2. QED BY <2>1
<1>11. IsOrder(ahead, H)
    BY <1>8, <1>9, <1>10 DEF IsOrder
<1>12. QED BY <1>11 DEF H

\* The orders of one group stand in the order of their numbers.
LEMMA GroupInOrder ==
    ASSUME TypeOK, TimesOK, NEW k, NEW ahead, \A i \in At(orders, k) : ahead[i] = OlderThan(orders, i)
    PROVE  IsOrder(ahead, At(orders, k))
<1>1. OrdersOK(orders, sequence) /\ \A i \in DOMAIN orders : i \in Nat
    BY BookOK, Constants DEF TypeOK
<1>2. \A i \in At(orders, k) : i \in DOMAIN orders /\ orders[i].key = k
    BY DEF At
<1>3. \A i \in At(orders, k) : ahead[i] = {m \in At(orders, k) : m < i}
    <2>1. ASSUME NEW i \in At(orders, k) PROVE ahead[i] = {m \in At(orders, k) : m < i}
        <3>1. ahead[i] = Older(orders, i)
            BY <1>1, <1>2, OlderIsSmaller
        <3>2. Older(orders, i) = {m \in At(orders, k) : m < i}
            BY <1>2 DEF Older, At
        <3>3. QED BY <3>1, <3>2
    <2>2. QED BY <2>1
<1>4. \A i \in At(orders, k) : i \in Nat
    BY <1>1, <1>2
<1>5. (\A i \in At(orders, k) : ahead[i] \in SUBSET At(orders, k) /\ i \notin ahead[i])
    BY <1>3, <1>4
<1>6. \A i, j \in At(orders, k) : i # j => i \in ahead[j] \/ j \in ahead[i]
    BY <1>3, <1>4
<1>7. \A i, j \in At(orders, k) : i \in ahead[j] => ahead[i] \in SUBSET ahead[j]
    BY <1>3, <1>4
<1>8. QED BY <1>5, <1>6, <1>7 DEF IsOrder

\* What a sweep leaves of an order it reaches.
LEMMA SweptAmounts ==
    ASSUME TypeOK, TimesOK, NEW levels, NEW k, NEW q \in Traded, Sweep(levels, k, q),
           NEW i \in DOMAIN orders, orders[i].key \in levels
    PROVE  \E b \in Nat, r \in Nat, c \in Nat :
               /\ b = Before(i, levels, k) /\ r = orders[i].remaining /\ c = orders[i].barrier
               /\ orders'[i].remaining = r - Clamp(q - b, r)
               /\ orders[i].key = k => orders'[i].barrier = c - Clamp((q - b) + c, c)
<1>1. orders'[i] = Swept(i, levels, k, q)
    BY SweepShrinks
<1>2. orders[i] \in OwnQueueOrder
    BY DEF TypeOK
<1>3. PICK b \in Nat, r \in Nat, c \in Nat :
          b = Before(i, levels, k) /\ r = orders[i].remaining /\ c = orders[i].barrier
    BY <1>2, BookOK, KeyHasGroup, BeforeType, Constants DEF OwnQueueOrder
<1>4. orders'[i].remaining = r - Clamp(q - b, r)
    BY <1>1, <1>2, <1>3 DEF Swept, OwnQueueOrder
<1>5. orders[i].key = k => orders'[i].barrier = c - Clamp((q - b) + c, c)
    BY <1>1, <1>2, <1>3 DEF Swept, OwnQueueOrder
<1>6. QED BY <1>3, <1>4, <1>5

\* The better levels are served the trade's quantity, or all they ask for.
LEMMA SpentAtBetter ==
    ASSUME IInv, IInv', NEW levels, NEW k, OneSide(levels, k), \A l \in levels : l.book = k.book,
           NEW q \in Traded, Sweep(levels, k, q)
    PROVE  \E x \in Nat, y \in Nat :
               /\ x = TotalOf(AtBetter(levels, k), RemainingOf(orders))
               /\ y = TotalOf(AtBetter(levels, k), RemainingOf(orders'))
               /\ x - y = Clamp(q, x)
<1> DEFINE H == AtBetter(levels, k)
           R == RemainingOf(orders)
           S == RemainingOf(orders')
           ahead == [i \in H |-> Ahead(levels, i)]
           t == [i \in H |-> R[i] - S[i]]
<1>1. TypeOK /\ TimesOK /\ TypeOK' /\ TimesOK'
    BY DEF IInv
<1>2. OrdersOK(orders, sequence) /\ OrdersOK(orders', sequence') /\ MaxActivation \in Nat /\ q \in Int
    BY <1>1, BookOK, BookOKNext, Constants
<1>3. /\ H \in SUBSET DOMAIN orders
      /\ \A i \in H : orders[i].key \in levels /\ orders[i].key # k
    <2>1. ~ Better(k, k)
        <3>1. k.price \in Nat
            BY QueueAssumption DEF OneSide, Key
        <3>2. QED BY <3>1 DEF Better
    <2>2. QED BY <2>1 DEF AtBetter
<1>4. DOMAIN orders' = DOMAIN orders /\ H \subseteq 1..MaxActivation
    BY <1>1, <1>2, <1>3, SweepShrinks DEF TypeOK
<1>5. \A i \in H : /\ R[i] \in Nat /\ R[i] = orders[i].remaining
                   /\ S[i] \in Nat /\ S[i] = orders'[i].remaining
    BY <1>2, <1>3, <1>4, AmountsAreNat
<1>6. \A i \in H : ahead[i] = Ahead(levels, i)
    OBVIOUS
<1>7. \A i \in H : t[i] \in Int /\ R[i] = S[i] + t[i] /\ S[i] \in Int
    BY <1>5
<1>8. \A i \in H : t[i] = R[i] - S[i]
    OBVIOUS
<1> HIDE DEF H, R, S, ahead, t
<1>9. ASSUME NEW i \in H PROVE t[i] = Clamp(q - Total(ahead[i], R, MaxActivation), R[i])
    <2>1. PICK b \in Nat, r \in Nat, c \in Nat :
              /\ b = Before(i, levels, k) /\ r = orders[i].remaining /\ c = orders[i].barrier
              /\ orders'[i].remaining = r - Clamp(q - b, r)
              /\ orders[i].key = k => orders'[i].barrier = c - Clamp((q - b) + c, c)
        BY <1>1, <1>3, SweptAmounts
    <2>2. b = TotalOf(ahead[i], R)
        BY <1>1, <1>3, <1>6, <2>1, BeforeAtBetter DEF R
    <2>3. t[i] = r - (r - Clamp(q - b, r)) /\ R[i] = r
        BY <1>5, <1>8, <2>1
    <2>4. Clamp(q - b, r) \in 0..r
        <3>1. PICK z \in Int : z = q - b
            BY <1>2
        <3>2. QED BY <3>1, ClampType
    <2>5. r - (r - Clamp(q - b, r)) = Clamp(q - b, r)
        BY <2>4
    <2>6. QED BY <2>2, <2>3, <2>5 DEF TotalOf
<1>10. IsOrder(ahead, H)
    BY <1>1, <1>6, LevelsInOrder DEF H
<1>11. \A i \in H : R[i] \in Nat
    BY <1>5
<1>12. \A i \in H : t[i] = Clamp(q - Total(ahead[i], R, MaxActivation), R[i])
    BY <1>9
<1>13. Total(H, t, MaxActivation) = Clamp(q, Total(H, R, MaxActivation))
    <2>1. InTurn(ahead, H, q, R, t, MaxActivation)
        BY <1>4, <1>10, <1>11, <1>12 DEF InTurn
    <2>2. QED BY <1>2, <2>1, ServedInOrder
<1>14. Total(H, R, MaxActivation) = Total(H, S, MaxActivation) + Total(H, t, MaxActivation)
    <2>1. \A i \in H : S[i] \in Int /\ t[i] \in Int /\ R[i] = S[i] + t[i]
        BY <1>7
    <2>2. QED BY <1>2, <2>1, TotalAdd
<1>15. PICK x \in Nat, y \in Nat : x = TotalOf(H, R) /\ y = TotalOf(H, S)
    <2>1. H \in SUBSET DOMAIN orders'
        BY <1>3, <1>4
    <2>2. QED BY <1>2, <1>3, <2>1, TotalsAreNat DEF R, S
<1>16. x = y + Clamp(q, x)
    BY <1>13, <1>14, <1>15 DEF TotalOf
<1>17. Clamp(q, x) \in 0..x
    BY <1>2, ClampType
<1>18. x - y = Clamp(q, x)
    BY <1>16, <1>17
<1>19. QED BY <1>15, <1>18 DEF H, R, S

\* What stands before an order at the printed level: the better levels, the
\* public queue, its own barrier and the older orders with theirs.
LEMMA BeforeAtPrinted ==
    ASSUME TypeOK, TimesOK, NEW levels, NEW k, NEW i \in At(orders, k), NEW a,
           \A j \in DOMAIN orders : a[j] = orders[j].barrier + orders[j].remaining
    PROVE  Before(i, levels, k) = TotalOf(AtBetter(levels, k), RemainingOf(orders)) + public[k]
                                  + orders[i].barrier + TotalOf(OlderThan(orders, i), a)
<1> DEFINE F == OlderThan(orders, i)
           R == RemainingOf(orders)
           B == BarrierOf(orders)
<1>1. OrdersOK(orders, sequence) /\ MaxActivation \in Nat
    BY BookOK, Constants
<1>2. i \in DOMAIN orders /\ orders[i].key = k /\ F \in SUBSET DOMAIN orders
    BY DEF At, OlderThan
<1>3. \A j \in F : R[j] \in Int /\ B[j] \in Int /\ a[j] = B[j] + R[j]
    <2>1. \A j \in DOMAIN orders : /\ R[j] = orders[j].remaining /\ R[j] \in Nat
                                  /\ B[j] = orders[j].barrier /\ B[j] \in Nat
        BY <1>1, AmountsAreNat
    <2> HIDE DEF F, R, B
    <2>2. QED BY <1>2, <2>1
<1>4. AtBetter(levels, k) = BetterThan(orders, levels, i) /\ AtBetter(levels, k) \in SUBSET DOMAIN orders
    BY <1>2 DEF AtBetter, BetterThan
<1> HIDE DEF F, R, B
<1>5. TotalOf(F, a) = TotalOf(F, B) + TotalOf(F, R)
    <2>1. \A j \in F : B[j] \in Int /\ R[j] \in Int /\ a[j] = B[j] + R[j]
        BY <1>3
    <2>2. QED BY <1>1, <2>1, TotalAdd DEF TotalOf
<1>6. PICK h \in Nat, u \in Nat, v \in Nat, p \in Nat, b \in Nat :
          /\ h = TotalOf(AtBetter(levels, k), R) /\ u = TotalOf(F, B) /\ v = TotalOf(F, R)
          /\ p = public[k] /\ b = orders[i].barrier
    <2>1. orders[i].barrier \in Nat /\ public[k] \in Nat
        BY <1>1, <1>2, KeyHasGroup DEF OrdersOK
    <2>2. QED BY <1>1, <1>2, <1>4, <2>1, TotalsAreNat DEF R, B
<1>7. Before(i, levels, k) = h + (p + b + u + v)
    BY <1>2, <1>4, <1>6 DEF Before, BetterThan, QueueAhead, F, R, B
<1>8. h + (p + b + u + v) = h + p + b + (u + v)
    OBVIOUS
<1>9. QED BY <1>5, <1>6, <1>7, <1>8 DEF F, R

\* p, b and o are public, behind barriers and own at the printed level, m, c
\* and d after the trade; p is served what x leaves of q, the others the rest.
PrintedSpent(k, q, x, p, m, b, c, o, d) ==
    /\ p = public[k] /\ m = public'[k]
    /\ b = TotalOf(At(orders, k), BarrierOf(orders)) /\ c = TotalOf(At(orders, k), BarrierOf(orders'))
    /\ o = TotalOf(At(orders, k), RemainingOf(orders)) /\ d = TotalOf(At(orders, k), RemainingOf(orders'))
    /\ p - m = Clamp(q - x, p)
    /\ (b + o) - (c + d) = Clamp(q - x - p, b + o)

\* The cohorts and own orders of the printed level are served what the better
\* levels and the public queue leave, or all that they ask for.
LEMMA SpentAtPrinted ==
    ASSUME IInv, IInv', NEW levels, NEW k \in levels, k \in DOMAIN public,
           NEW q \in Traded, Sweep(levels, k, q), NEW x \in Nat,
           x = TotalOf(AtBetter(levels, k), RemainingOf(orders))
    PROVE  \E p \in Nat, m \in Nat, b \in Nat, c \in Nat, o \in Nat, d \in Nat :
               PrintedSpent(k, q, x, p, m, b, c, o, d)
<1> DEFINE A == At(orders, k)
           R == RemainingOf(orders)
           S == RemainingOf(orders')
           B == BarrierOf(orders)
           C == BarrierOf(orders')
           a == [i \in DOMAIN orders |-> orders[i].barrier + orders[i].remaining]
           e == [i \in DOMAIN orders |-> orders'[i].barrier + orders'[i].remaining]
           t == [i \in DOMAIN orders |-> a[i] - e[i]]
           ahead == [i \in A |-> OlderThan(orders, i)]
<1>1. TypeOK /\ TimesOK /\ TypeOK' /\ TimesOK'
    BY DEF IInv
<1>2. OrdersOK(orders, sequence) /\ OrdersOK(orders', sequence') /\ MaxActivation \in Nat /\ q \in Int
    BY <1>1, BookOK, BookOKNext, Constants
<1>3. A \in SUBSET DOMAIN orders /\ \A i \in A : orders[i].key = k
    BY DEF At
<1>4. DOMAIN orders' = DOMAIN orders /\ A \subseteq 1..MaxActivation /\ A \in SUBSET DOMAIN orders'
    BY <1>1, <1>2, <1>3, SweepShrinks DEF TypeOK
<1>5. \A i \in A : /\ R[i] \in Nat /\ R[i] = orders[i].remaining /\ B[i] \in Nat /\ B[i] = orders[i].barrier
                   /\ S[i] \in Nat /\ S[i] = orders'[i].remaining /\ C[i] \in Nat /\ C[i] = orders'[i].barrier
    BY <1>2, <1>3, <1>4, AmountsAreNat
<1>6. \A i \in A : /\ a[i] = orders[i].barrier + orders[i].remaining
                   /\ e[i] = orders'[i].barrier + orders'[i].remaining
                   /\ t[i] = a[i] - e[i]
                   /\ ahead[i] = OlderThan(orders, i)
    BY <1>3
<1>7. \A j \in DOMAIN orders : a[j] = orders[j].barrier + orders[j].remaining
    OBVIOUS
<1> HIDE DEF A, R, S, B, C, a, e, t, ahead
<1>8. \A i \in A : /\ a[i] \in Nat /\ e[i] \in Nat /\ t[i] \in Int
                   /\ a[i] = B[i] + R[i] /\ e[i] = C[i] + S[i] /\ a[i] = e[i] + t[i]
    BY <1>5, <1>6
<1>9. PICK p \in Nat : p = public[k]
    BY <1>1 DEF TypeOK
<1>10. p - public'[k] = Clamp(q - x, p) /\ public'[k] \in Nat
    <2>1. public'[k] = p - Clamp(q - x, p)
        BY <1>9 DEF Sweep, AtBetter
    <2>2. PICK z \in Int : z = q - x
        BY <1>2
    <2>3. Clamp(z, p) \in 0..p
        BY ClampType
    <2>4. QED BY <2>1, <2>2, <2>3
<1>11. ASSUME NEW i \in A PROVE t[i] = Clamp((q - x - p) - Total(ahead[i], a, MaxActivation), a[i])
    <2>1. PICK b \in Nat, r \in Nat, c \in Nat :
              /\ b = Before(i, levels, k) /\ r = orders[i].remaining /\ c = orders[i].barrier
              /\ orders'[i].remaining = r - Clamp(q - b, r)
              /\ orders[i].key = k => orders'[i].barrier = c - Clamp((q - b) + c, c)
        BY <1>1, <1>3, SweptAmounts
    <2>2. PICK f \in Int : f = TotalOf(ahead[i], a)
        <3>1. OlderThan(orders, i) \in SUBSET DOMAIN orders
            BY DEF OlderThan, At
        <3>2. \A j \in DOMAIN orders : a[j] \in Int
            <4>1. \A j \in DOMAIN orders : orders[j].barrier \in Nat /\ orders[j].remaining \in Nat
                BY <1>2 DEF OrdersOK
            <4>2. QED BY <1>7, <4>1
        <3>3. \A j \in ahead[i] : a[j] \in Int
            BY <1>6, <3>1, <3>2
        <3>4. TotalOf(ahead[i], a) \in Int
            BY <1>2, <3>3, TotalType DEF TotalOf
        <3>5. QED BY <3>4
    <2>3. b = x + p + c + f
        <3>1. i \in At(orders, k)
            BY DEF A
        <3>2. Before(i, levels, k) = x + public[k] + orders[i].barrier + TotalOf(OlderThan(orders, i), a)
            BY <1>1, <1>7, <3>1, BeforeAtPrinted
        <3>3. QED BY <1>6, <1>9, <2>1, <2>2, <3>2
    <2>4. t[i] = (c + r) - ((c - Clamp((q - b) + c, c)) + (r - Clamp(q - b, r))) /\ a[i] = c + r
        BY <1>3, <1>6, <2>1
    <2>5. PICK z \in Int : z = (q - x - p) - f
        BY <1>2
    <2>6. z = (q - b) + c /\ z - c = q - b
        BY <1>2, <2>3, <2>5
    <2>7. /\ Clamp(z, c) + Clamp(z - c, r) = Clamp(z, c + r)
          /\ Clamp(z, c) \in Int /\ Clamp(z - c, r) \in Int
        <3>1. Clamp(z, c) + Clamp(z - c, r) = Clamp(z, c + r)
            BY ClampOfRest
        <3>2. Clamp(z, c) \in 0..c
            BY ClampType
        <3>3. PICK w \in Int : w = z - c
            OBVIOUS
        <3>4. Clamp(w, r) \in 0..r
            BY ClampType
        <3>5. QED BY <3>1, <3>2, <3>3, <3>4
    <2>8. t[i] = Clamp(z, c + r)
        BY <2>4, <2>6, <2>7
    <2>9. QED BY <2>2, <2>4, <2>5, <2>8 DEF TotalOf
<1>12. InTurn(ahead, A, q - x - p, a, t, MaxActivation)
    <2>1. IsOrder(ahead, A)
        BY <1>1, <1>6, GroupInOrder DEF A
    <2>2. QED BY <1>4, <1>8, <1>11, <2>1 DEF InTurn
<1>13. TotalOf(A, t) = Clamp(q - x - p, TotalOf(A, a))
    <2>1. q - x - p \in Int
        BY <1>2
    <2>2. QED BY <1>2, <1>12, <2>1, ServedInOrder DEF TotalOf
<1>14. /\ TotalOf(A, a) = TotalOf(A, B) + TotalOf(A, R)
       /\ TotalOf(A, e) = TotalOf(A, C) + TotalOf(A, S)
       /\ TotalOf(A, a) = TotalOf(A, e) + TotalOf(A, t)
    <2>1. \A i \in A : B[i] \in Int /\ R[i] \in Int /\ a[i] = B[i] + R[i]
        BY <1>5, <1>8
    <2>2. \A i \in A : C[i] \in Int /\ S[i] \in Int /\ e[i] = C[i] + S[i]
        BY <1>5, <1>8
    <2>3. \A i \in A : e[i] \in Int /\ t[i] \in Int /\ a[i] = e[i] + t[i]
        BY <1>8
    <2>4. TotalOf(A, a) = TotalOf(A, B) + TotalOf(A, R)
        BY <1>2, <2>1, TotalAdd DEF TotalOf
    <2>5. TotalOf(A, e) = TotalOf(A, C) + TotalOf(A, S)
        BY <1>2, <2>2, TotalAdd DEF TotalOf
    <2>6. TotalOf(A, a) = TotalOf(A, e) + TotalOf(A, t)
        BY <1>2, <2>3, TotalAdd DEF TotalOf
    <2>7. QED BY <2>4, <2>5, <2>6
<1>15. PICK b \in Nat, o \in Nat, c \in Nat, d \in Nat :
           b = TotalOf(A, B) /\ o = TotalOf(A, R) /\ c = TotalOf(A, C) /\ d = TotalOf(A, S)
    BY <1>2, <1>3, <1>4, TotalsAreNat DEF R, S, B, C
<1>16. b + o = (c + d) + Clamp(q - x - p, b + o)
    BY <1>13, <1>14, <1>15
<1>17. Clamp(q - x - p, b + o) \in Int
    <2>1. PICK z \in Int, w \in Nat : z = q - x - p /\ w = b + o
        BY <1>2
    <2>2. Clamp(z, w) \in 0..w
        BY ClampType
    <2>3. QED BY <2>1, <2>2
<1>18. (b + o) - (c + d) = Clamp(q - x - p, b + o)
    BY <1>16, <1>17
<1>19. PICK m \in Nat : m = public'[k] /\ p - m = Clamp(q - x, p)
    BY <1>10
<1>20. PrintedSpent(k, q, x, p, m, b, c, o, d)
    BY <1>9, <1>15, <1>18, <1>19 DEF PrintedSpent, A, R, S, B, C
<1>21. QED BY <1>20

\* A sweep spends its quantity, or all that there is to spend it on.
LEMMA SweepSpends ==
    ASSUME IInv, IInv', NEW levels, NEW k, OneSide(levels, k),
           \A l \in levels : l.book = k.book /\ (l = k \/ Better(l, k)),
           k \in DOMAIN public => k \in levels, NEW q \in Traded, Sweep(levels, k, q)
    PROVE  Depth(public, orders, levels, k) - Depth(public', orders', levels, k)
               = Clamp(q, Depth(public, orders, levels, k))
<1> DEFINE L == {i \in DOMAIN orders : orders[i].key \in levels}
           H == AtBetter(levels, k)
           A == At(orders, k)
           R == RemainingOf(orders)
           S == RemainingOf(orders')
<1>1. TypeOK /\ TimesOK /\ TypeOK' /\ TimesOK'
    BY DEF IInv
<1>2. OrdersOK(orders, sequence) /\ OrdersOK(orders', sequence') /\ MaxActivation \in Nat /\ q \in Int
    BY <1>1, BookOK, BookOKNext, Constants
<1>3. /\ DOMAIN public' = DOMAIN public /\ DOMAIN orders' = DOMAIN orders
      /\ \A i \in DOMAIN orders : orders'[i].key = orders[i].key
    BY <1>1, SweepShrinks
<1>4. {i \in DOMAIN orders' : orders'[i].key \in levels} = L /\ At(orders', k) = A
    BY <1>3 DEF At
<1>5. /\ L \in SUBSET DOMAIN orders /\ L \in SUBSET DOMAIN orders' /\ H \in SUBSET L
      /\ A \in SUBSET DOMAIN orders
    BY <1>3 DEF AtBetter, At
<1>6. L \ H \subseteq A /\ (k \in levels => A = L \ H)
    <2>1. ~ Better(k, k)
        <3>1. k.price \in Nat
            BY QueueAssumption DEF OneSide, Key
        <3>2. QED BY <3>1 DEF Better
    <2>2. QED BY <2>1 DEF AtBetter, At
<1>7. PICK x \in Nat, y \in Nat : x = TotalOf(H, R) /\ y = TotalOf(H, S) /\ x - y = Clamp(q, x)
    <2>1. \A l \in levels : l.book = k.book
        OBVIOUS
    <2>2. QED BY <2>1, SpentAtBetter
<1>8. /\ Depth(public, orders, levels, k)
             = TotalOf(L, R) + IF k \in DOMAIN public THEN public[k] + TotalOf(A, BarrierOf(orders)) ELSE 0
      /\ Depth(public', orders', levels, k)
             = TotalOf(L, S) + IF k \in DOMAIN public THEN public'[k] + TotalOf(A, BarrierOf(orders')) ELSE 0
    BY <1>3, <1>4 DEF Depth
<1> HIDE DEF L, H, A, R, S
<1>9. /\ TotalOf(L, R) = TotalOf(H, R) + TotalOf(L \ H, R)
      /\ TotalOf(L, S) = TotalOf(H, S) + TotalOf(L \ H, S)
    <2>1. \A i \in L : R[i] \in Int
        BY <1>2, <1>5, AmountsAreNat DEF R
    <2>2. \A i \in L : S[i] \in Int
        BY <1>2, <1>5, AmountsAreNat DEF S
    <2>3. TotalOf(L, R) = TotalOf(H, R) + TotalOf(L \ H, R)
        BY <1>2, <1>5, <2>1, TotalSplit DEF TotalOf
    <2>4. TotalOf(L, S) = TotalOf(H, S) + TotalOf(L \ H, S)
        BY <1>2, <1>5, <2>2, TotalSplit DEF TotalOf
    <2>5. QED BY <2>3, <2>4
<1>10. CASE k \notin DOMAIN public
    <2>1. A = {}
        <3>1. \A i \in A : i \in DOMAIN orders /\ orders[i].key = k
            BY DEF A, At
        <3>2. QED BY <1>1, <1>10, <3>1, KeyHasGroup
    <2>2. L \ H = {}
        BY <1>6, <2>1
    <2>3. TotalOf(L \ H, R) = 0 /\ TotalOf(L \ H, S) = 0
        BY <1>2, <2>2, TotalEmpty DEF TotalOf
    <2>4. Depth(public, orders, levels, k) = x /\ Depth(public', orders', levels, k) = y
        BY <1>7, <1>8, <1>9, <1>10, <2>3
    <2>5. QED BY <1>7, <2>4
<1>11. CASE k \in DOMAIN public
    <2>1. k \in levels /\ A = L \ H
        BY <1>6, <1>11
    <2>2. PICK p \in Nat, m \in Nat, b \in Nat, c \in Nat, o \in Nat, d \in Nat :
              PrintedSpent(k, q, x, p, m, b, c, o, d)
        BY <1>7, <1>11, <2>1, SpentAtPrinted DEF H, R
    <2>3. /\ Depth(public, orders, levels, k) = (x + o) + (p + b)
          /\ Depth(public', orders', levels, k) = (y + d) + (m + c)
        BY <1>7, <1>8, <1>9, <1>11, <2>1, <2>2 DEF PrintedSpent, A, R, S
    <2>4. Clamp(q, x) + Clamp(q - x, p) = Clamp(q, x + p)
        BY <1>2, ClampOfRest
    <2>5. Clamp(q, x + p) + Clamp(q - (x + p), b + o) = Clamp(q, x + p + (b + o))
        <3>1. PICK z \in Nat, w \in Nat : z = x + p /\ w = b + o
            OBVIOUS
        <3>2. Clamp(q, z) + Clamp(q - z, w) = Clamp(q, z + w)
            BY <1>2, ClampOfRest
        <3>3. QED BY <3>1, <3>2
    <2>6. q - (x + p) = q - x - p /\ x + p + (b + o) = (x + o) + (p + b)
        BY <1>2
    <2>7. ((x + o) + (p + b)) - ((y + d) + (m + c)) = (x - y) + (p - m) + ((b + o) - (c + d))
        OBVIOUS
    <2>8. ((x + o) + (p + b)) - ((y + d) + (m + c)) = Clamp(q, (x + o) + (p + b))
        <3>1. (x - y) + (p - m) + ((b + o) - (c + d)) = Clamp(q, x + p) + Clamp(q - (x + p), b + o)
            BY <1>7, <2>2, <2>4, <2>6 DEF PrintedSpent
        <3>2. QED BY <2>5, <2>6, <2>7, <3>1
    <2>9. QED BY <2>3, <2>8
<1>12. QED BY <1>10, <1>11

\* Only the two trades fill an order, and each adds the identifier of a trade
\* that was not delivered before.
LEMMA FilledByNew ==
    ASSUME TypeOK, [Next]_vars
    PROVE  /\ processed \subseteq processed'
           /\ \A i \in DOMAIN orders \cap DOMAIN orders' :
                  orders'[i].remaining < orders[i].remaining => processed' # processed
<1> DEFINE Kept == /\ processed' = processed
                   /\ \A i \in DOMAIN orders \cap DOMAIN orders' : orders'[i] = orders[i]
           New  == processed \subseteq processed' /\ processed' # processed
<1>1. CASE Kept
    <2>1. \A i \in DOMAIN orders : ~ orders[i].remaining < orders[i].remaining
        BY Constants DEF TypeOK, OwnQueueOrder
    <2>2. QED BY <1>1, <2>1
<1>2. CASE New
    BY <1>2
<1>3. ASSUME NEW k \in Key, NEW id \in OrderId, NEW column \in Column, NEW quantity \in OrderQuantity,
             NEW observed \in Observed, NEW now \in Time,
             Activate(k, id, column, quantity, observed, now)
      PROVE  Kept
    <2>1. sequence + 1 \notin DOMAIN orders
        BY <1>3, Constants DEF TypeOK
    <2>2. QED BY <1>3, <2>1 DEF Activate
<1>4. ASSUME NEW i \in DOMAIN orders, NEW now \in Time, CancelAck(i, now) \/ CancelAckAfterRacingFill(i, now)
      PROVE  Kept
    BY <1>4 DEF CancelAck, CancelAckAfterRacingFill, Removed
<1>5. ASSUME NEW event \in EventId, NEW k \in Key, NEW quantity \in Traded, NEW now \in Time,
             ConsumeCompatibleFlow(event, k, quantity, now) \/ ConsumeTradeThrough(event, k, quantity, now)
      PROVE  New
    BY <1>5 DEF ConsumeCompatibleFlow, ConsumeTradeThrough, Unprocessed
<1>6. ASSUME NEW now \in Time, RejectedCall(now) PROVE Kept
    BY <1>6 DEF RejectedCall
<1>7. CASE UNCHANGED vars
    <2>1. Kept
        BY <1>7 DEF vars
    <2>2. QED BY <1>1, <2>1
<1>8. CASE Next
    <2>1. Kept \/ New
        BY <1>3, <1>4, <1>5, <1>6, <1>8 DEF Next
    <2>2. QED BY <1>1, <1>2, <2>1
<1>9. QED BY <1>7, <1>8

\* A trade's quantity is spent exactly once: none of it is lost while something
\* before it is unfilled, and delivered again it fills nothing.
THEOREM TradesSpentOnce == Spec => TradeSpentOnce
<1>1. ASSUME IInv, IInv', NEW event \in EventId, NEW k \in Key, NEW quantity \in Traded, NEW now \in Time,
             ConsumeCompatibleFlow(event, k, quantity, now)
      PROVE  Depth(public, orders, {k}, k) - Depth(public', orders', {k}, k)
                 = Clamp(quantity, Depth(public, orders, {k}, k))
    <2>1. Sweep({k}, k, quantity)
        BY <1>1 DEF ConsumeCompatibleFlow
    <2>2. OneSide({k}, k)
        BY DEF OneSide
    <2>3. /\ \A l \in {k} : l.book = k.book /\ (l = k \/ Better(l, k))
          /\ k \in DOMAIN public => k \in {k}
        OBVIOUS
    <2>4. QED BY <1>1, <2>1, <2>2, <2>3, SweepSpends
<1>2. ASSUME IInv, IInv', NEW event \in EventId, NEW k \in Key, NEW quantity \in Traded, NEW now \in Time,
             ConsumeTradeThrough(event, k, quantity, now)
      PROVE  Depth(public, orders, Touched(k), k) - Depth(public', orders', Touched(k), k)
                 = Clamp(quantity, Depth(public, orders, Touched(k), k))
    <2>1. TypeOK /\ Sweep(Touched(k), k, quantity)
        BY <1>2 DEF ConsumeTradeThrough, IInv
    <2>2. /\ OneSide(Touched(k), k)
          /\ \A l \in Touched(k) : l.book = k.book /\ (l = k \/ Better(l, k))
        BY <2>1, TouchedOneSide
    <2>3. k \in DOMAIN public => k \in Touched(k)
        BY DEF Touched
    <2>4. QED BY <1>2, <2>1, <2>2, <2>3, SweepSpends
<1>3. ASSUME IInv, IInv'
      PROVE  \A event \in EventId, k \in Key, quantity \in Traded, now \in Time :
         LET spent(levels) == Depth(public, orders, levels, k) - Depth(public', orders', levels, k)
             due(levels)   == Clamp(quantity, Depth(public, orders, levels, k))
         IN  /\ ConsumeCompatibleFlow(event, k, quantity, now) => spent({k}) = due({k})
             /\ ConsumeTradeThrough(event, k, quantity, now) =>
                    LET levels == {l \in DOMAIN public : l.book = k.book /\ l.side = k.side
                                                        /\ (l = k \/ Better(l, k))}
                    IN  spent(levels) = due(levels)
    <2>1. \A k \in Key : Touched(k) = {l \in DOMAIN public : l.book = k.book /\ l.side = k.side
                                                        /\ (l = k \/ Better(l, k))}
        BY DEF Touched
    <2>2. QED BY <1>1, <1>2, <1>3, <2>1
<1>4. IInv /\ IInv' /\ [Next]_vars =>
        [\A event \in EventId, k \in Key, quantity \in Traded, now \in Time :
         LET spent(levels) == Depth(public, orders, levels, k) - Depth(public', orders', levels, k)
             due(levels)   == Clamp(quantity, Depth(public, orders, levels, k))
         IN  /\ ConsumeCompatibleFlow(event, k, quantity, now) => spent({k}) = due({k})
             /\ ConsumeTradeThrough(event, k, quantity, now) =>
                    LET levels == {l \in DOMAIN public : l.book = k.book /\ l.side = k.side
                                                        /\ (l = k \/ Better(l, k))}
                    IN  spent(levels) = due(levels)]_vars
    BY <1>3
<1>5. IInv /\ [Next]_vars =>
        [/\ processed \subseteq processed'
         /\ \A i \in DOMAIN orders \cap DOMAIN orders' :
                orders'[i].remaining < orders[i].remaining => processed' # processed]_vars
    BY FilledByNew DEF IInv
<1>6. QED BY <1>4, <1>5, InductiveInvariant, PTL DEF Spec, TradeSpentOnce, SpentInFull, FilledByNewTrade
=============================================================================
