----------------------- MODULE PassiveExecutionProofs -----------------------
(***************************************************************************)
(* Theorems about PassiveExecution, for every price, latency, queue        *)
(* multiplier and tape.                                                    *)
(*                                                                         *)
(*   A. the inductive invariant, and what changing one order does to the   *)
(*      totals                                                             *)
(*   B. what the matching of one print does, order by order                *)
(*   C. the agenda, the orders and the ledger as data: what scheduling,    *)
(*      popping, adding and changing keep                                  *)
(*   D. the invariant is kept by every step                                *)
(*   E. fills are causal, and a halt starts no cycle                       *)
(***************************************************************************)
EXTENDS PassiveExecution, LedgerArithmeticProofs, SequenceTheorems

\* A delivery has its event, and every other item an order that exists.
ItemsOK ==
    \A k \in DOMAIN agenda : IF agenda[k].kind = "DELIVER_MARKET"
                             THEN agenda[k].event # "NONE"
                             ELSE agenda[k].order \in DOMAIN orders

\* A completing notice of a BUY is under way in the agenda A.
NoticeComes(A, O) ==
    \E k \in DOMAIN A : /\ A[k].kind = "FILL_NOTICE" /\ A[k].completes
                        /\ O[A[k].order].side = "BUY"

Working(O, side) == {i \in DOMAIN O : O[i].side = side /\ O[i].status \in Active}

\* All the inventory is spoken for: a BUY still works, or its last notice comes
\* and will offer everything, or a SELL offers at least as much as there is,
\* unless the exchange refused or canceled an order.
InventoryIsOffered ==
    \/ fdusd = 0 \/ raised
    \/ \E i \in DOMAIN orders : orders[i].status \in Closed \ {"FILLED"}
    \/ Working(orders, "BUY") # {}
    \/ NoticeComes(agenda, orders)
    \/ \E i \in Working(orders, "SELL") : Left(orders[i]) >= fdusd

\* An order that has not arrived has no queue before it.
PendingUnqueued == \A i \in DOMAIN orders : orders[i].status = "PENDING" => orders[i].queue = 0

IInv ==
    /\ TypeOK /\ ItemsOK /\ PendingUnqueued
    /\ LedgerFollowsFills /\ CancelIsNotLost /\ InventoryIsOffered

-----------------------------------------------------------------------------
(* A. Orders and totals.                                                   *)

\* From the orders O to P nothing is filled, and at most one order is new.
Unfilled(O, P) ==
    /\ Len(P) \in {Len(O), Len(O) + 1}
    /\ \A i \in DOMAIN O : P[i].side = O[i].side /\ P[i].filled = O[i].filled
    /\ \A i \in DOMAIN P \ DOMAIN O : P[i].filled = 0

\* The first n numbers.
Upto(S, n) == n \in Nat /\ S = 1..n

\* Integer amounts, one for each number of S.
Amounts(S, f) == \A i \in S : f[i] \in Int

\* The amounts of S differ at k only.
OnlyAt(S, k, f, g) == k \in S /\ \A i \in S : i # k => f[i] = g[i]

\* At most one number and no amount is added.
AddsNothing(S, n, f, T, m, g) ==
    /\ m = n \/ m = n + 1
    /\ \A i \in S : f[i] = g[i]
    /\ \A i \in T : i \notin S => g[i] = 0

\* More numbers contain the fewer.
LEMMA UptoGrows ==
    ASSUME NEW n, NEW S, Upto(S, n), NEW m, NEW T, Upto(T, m), m = n \/ m = n + 1
    PROVE  S \subseteq T
BY DEF Upto

\* One amount of a numbered list changes.
LEMMA OneAmountChanges ==
    ASSUME NEW n, NEW S, Upto(S, n), NEW f, NEW g, Amounts(S, f), Amounts(S, g),
           NEW k, OnlyAt(S, k, f, g)
    PROVE  Total(S, g, n) = Total(S, f, n) + (g[k] - f[k])
<1>1. n \in Nat /\ S \in SUBSET (1..n) /\ k \in S
    BY DEF Upto, OnlyAt
<1>2. \A i \in S : f[i] \in Int /\ g[i] \in Int
    BY DEF Amounts
<1>3. \A i \in S \ {k} : f[i] = g[i]
    BY DEF OnlyAt
<1>4. QED BY <1>1, <1>2, <1>3, TotalChange

\* A sum over one more number that counts nothing.
LEMMA TotalOneMore ==
    ASSUME NEW n, NEW S, Upto(S, n), NEW f, NEW m, NEW T, Upto(T, m), NEW g, Amounts(T, g),
           AddsNothing(S, n, f, T, m, g)
    PROVE  Total(T, g, m) = Total(S, f, n)
<1>1. Total(S, f, n) = Total(T, g, n)
    <2>1. n \in Nat /\ S \in SUBSET T
        BY DEF Upto, AddsNothing
    <2>2. (\A i \in S : f[i] = g[i]) /\ \A i \in T \ S : g[i] = 0
        BY DEF AddsNothing
    <2>3. QED BY <2>1, <2>2, TotalSame
<1>2. CASE m = n
    BY <1>1, <1>2
<1>3. CASE m = n + 1
    <2> DEFINE M == Masked(T, g)
    <2>1. M \in [Nat -> Int]
        BY MaskedType DEF Amounts
    <2>2. n \in Nat /\ n + 1 \in Nat /\ n + 1 \in T /\ n + 1 \notin S
        BY <1>3 DEF Upto
    <2>3. M[n + 1] = 0
        BY <2>2 DEF Masked, AddsNothing
    <2> HIDE DEF M
    <2>4. Sigma(M)[n + 1] = Sigma(M)[n] + M[n + 1] /\ Sigma(M)[n] \in Int
        BY <2>1, <2>2, SigmaEquation
    <2>5. Sigma(M)[n + 1] = Sigma(M)[n]
        BY <2>3, <2>4
    <2>6. QED BY <1>1, <1>3, <2>5 DEF Total, M
<1>4. QED BY <1>2, <1>3 DEF AddsNothing

\* What the orders are: a sequence, numbered from 1.
LEMMA OrdersTyped ==
    ASSUME NEW O \in Seq(OrderType)
    PROVE  /\ Len(O) \in Nat /\ DOMAIN O = 1..Len(O)
           /\ \A i \in DOMAIN O : O[i] \in OrderType
           /\ \A i \in DOMAIN O :
                 /\ O[i].side \in Side /\ O[i].status \in Active \union Closed
                 /\ O[i].quantity \in Nat /\ O[i].filled \in Nat /\ O[i].queue \in Nat
                 /\ O[i].arrival \in Nat /\ O[i].cancelAt \in Nat
<1>1. Len(O) \in Nat /\ DOMAIN O = 1..Len(O) /\ \A i \in DOMAIN O : O[i] \in OrderType
    OBVIOUS
<1>2. \A o \in OrderType :
        /\ o.side \in Side /\ o.status \in Active \union Closed
        /\ o.quantity \in Nat /\ o.filled \in Nat /\ o.queue \in Nat
        /\ o.arrival \in Nat /\ o.cancelAt \in Nat
    BY DEF OrderType
<1>3. QED BY <1>1, <1>2

\* Where nothing is filled, nothing is traded.
LEMMA UnfilledTradesNothing ==
    ASSUME NEW O \in Seq(OrderType), NEW P \in Seq(OrderType), Unfilled(O, P), NEW side
    PROVE  Traded(P, side) = Traded(O, side)
<1>1. Upto(DOMAIN O, Len(O)) /\ Upto(DOMAIN P, Len(P))
    BY DEF Upto
<1>2. Amounts(DOMAIN P, FilledOf(P, side))
    BY OrdersTyped DEF Amounts, FilledOf
<1>3. AddsNothing(DOMAIN O, Len(O), FilledOf(O, side), DOMAIN P, Len(P), FilledOf(P, side))
    <2>1. Len(P) = Len(O) \/ Len(P) = Len(O) + 1
        BY DEF Unfilled
    <2>2. DOMAIN O \subseteq DOMAIN P
        BY <1>1, <2>1, UptoGrows
    <2>3. \A i \in DOMAIN O : FilledOf(O, side)[i] = FilledOf(P, side)[i]
        BY <2>2 DEF FilledOf, Unfilled
    <2>4. \A i \in DOMAIN P : i \notin DOMAIN O => FilledOf(P, side)[i] = 0
        BY DEF FilledOf, Unfilled
    <2>5. QED BY <2>1, <2>3, <2>4 DEF AddsNothing
<1>4. QED BY <1>1, <1>2, <1>3, TotalOneMore DEF Traded

\* What is traded is a number.
LEMMA TradedType ==
    ASSUME NEW O \in Seq(OrderType), NEW side
    PROVE  Traded(O, side) \in Nat
<1>1. Len(O) \in Nat /\ \A i \in DOMAIN O : FilledOf(O, side)[i] \in Nat
    BY OrdersTyped DEF FilledOf
<1>2. QED BY <1>1, TotalNat DEF Traded

\* What is served is an integer.
LEMMA ServedType ==
    ASSUME NEW O \in Seq(OrderType)
    PROVE  Served(O) \in Int
<1> DEFINE h == ServedOf(O)
<1>1. Len(O) \in Nat /\ \A i \in DOMAIN O : O[i].filled \in Nat /\ O[i].queue \in Nat
    BY OrdersTyped
<1>2. \A i \in DOMAIN O : h[i] \in Int
    BY <1>1 DEF ServedOf
<1> HIDE DEF h
<1>3. Total(DOMAIN O, h, Len(O)) \in Int
    BY <1>1, <1>2, TotalType
<1>4. QED BY <1>3 DEF Served, h

\* One order of a sequence is replaced by another one.
LEMMA OneOrderChanges ==
    ASSUME NEW O \in Seq(OrderType), NEW i \in DOMAIN O, NEW o \in OrderType,
           NEW P, P = [O EXCEPT ![i] = o]
    PROVE  /\ P \in Seq(OrderType) /\ Len(P) = Len(O) /\ DOMAIN P = DOMAIN O
           /\ P[i] = o /\ \A k \in DOMAIN O : k # i => P[k] = O[k]
OBVIOUS

\* The i-th order of O becomes o in P: it is filled q more and its queue lost c.
Given(O, P, i, o, c, q) ==
    /\ O \in Seq(OrderType) /\ i \in DOMAIN O /\ o \in OrderType /\ P = [O EXCEPT ![i] = o]
    /\ c \in Int /\ q \in Int
    /\ o.side = O[i].side /\ o.filled = O[i].filled + q /\ o.queue = O[i].queue - c

\* The totals change with one order.
LEMMA TotalsChange ==
    ASSUME NEW O, NEW P, NEW i, NEW o, NEW c, NEW q, Given(O, P, i, o, c, q)
    PROVE  /\ \A side : Traded(P, side) = Traded(O, side) + (IF side = o.side THEN q ELSE 0)
           /\ Served(P) = Served(O) + c + q
<1>1. /\ Upto(DOMAIN O, Len(O)) /\ DOMAIN P = DOMAIN O /\ Len(P) = Len(O)
      /\ P[i] = o /\ \A k \in DOMAIN O : k # i => P[k] = O[k]
    BY OneOrderChanges DEF Upto, Given
<1>2. o.filled \in Int /\ o.queue \in Int /\ c \in Int /\ q \in Int /\ i \in DOMAIN O
    <2>1. o \in OrderType /\ c \in Int /\ q \in Int /\ i \in DOMAIN O
        BY DEF Given
    <2>2. QED BY <2>1 DEF OrderType
<1>3. \A k \in DOMAIN O : O[k].filled \in Int /\ O[k].queue \in Int
    BY OrdersTyped DEF Given
<1>4. \A k \in DOMAIN P : P[k].filled \in Int /\ P[k].queue \in Int
    BY <1>1, <1>2, <1>3
<1>a. o.side = O[i].side /\ o.filled = O[i].filled + q /\ o.queue = O[i].queue - c
    BY DEF Given
<1>5. ASSUME NEW side
      PROVE  Traded(P, side) = Traded(O, side) + (IF side = o.side THEN q ELSE 0)
    <2>1. Amounts(DOMAIN O, FilledOf(O, side))
        BY <1>3 DEF Amounts, FilledOf
    <2>2. Amounts(DOMAIN O, FilledOf(P, side))
        BY <1>1, <1>4 DEF Amounts, FilledOf
    <2>3. OnlyAt(DOMAIN O, i, FilledOf(O, side), FilledOf(P, side))
        BY <1>1, <1>2 DEF OnlyAt, FilledOf
    <2>4. Traded(P, side) = Traded(O, side) + (FilledOf(P, side)[i] - FilledOf(O, side)[i])
        BY <1>1, <2>1, <2>2, <2>3, OneAmountChanges DEF Traded
    <2>5. FilledOf(P, side)[i] - FilledOf(O, side)[i]
              = IF side = o.side THEN q ELSE 0
        <3>1. FilledOf(P, side)[i] = IF o.side = side THEN o.filled ELSE 0
            BY <1>1, <1>2 DEF FilledOf
        <3>2. FilledOf(O, side)[i] = IF o.side = side THEN O[i].filled ELSE 0
            BY <1>2, <1>a DEF FilledOf
        <3>3. PICK x \in Int, y \in Int : x = o.filled /\ y = O[i].filled
            BY <1>2, <1>3
        <3>4. x = y + q
            BY <1>a, <3>3
        <3>5. QED BY <1>2, <3>1, <3>2, <3>3, <3>4
    <2>6. QED BY <2>4, <2>5
<1>6. Served(P) = Served(O) + c + q
    <2>1. Amounts(DOMAIN O, ServedOf(O))
        BY <1>3 DEF Amounts, ServedOf
    <2>2. Amounts(DOMAIN O, ServedOf(P))
        BY <1>1, <1>4 DEF Amounts, ServedOf
    <2>3. OnlyAt(DOMAIN O, i, ServedOf(O), ServedOf(P))
        BY <1>1, <1>2 DEF OnlyAt, ServedOf
    <2>4. Served(P) = Served(O) + (ServedOf(P)[i] - ServedOf(O)[i])
        BY <1>1, <2>1, <2>2, <2>3, OneAmountChanges DEF Served
    <2>5. ServedOf(P)[i] - ServedOf(O)[i] = c + q
        BY <1>1, <1>2, <1>3, <1>a DEF ServedOf
    <2>6. Served(O) \in Int
        BY ServedType DEF Given
    <2>7. QED BY <1>2, <2>4, <2>5, <2>6
<1>7. QED BY <1>5, <1>6

-----------------------------------------------------------------------------
(* B. The matching of one print.                                           *)

MatchState ==
    [left : Nat, orders : Seq(OrderType), usdc : Nat, fdusd : Nat, fills : Seq(Nat \X BOOLEAN),
     raised : BOOLEAN]

\* The order o after its queue gave c.
QueueServed(o, c) == [o EXCEPT !.queue = @ - c]

\* A turn of the loop gives c to the queue before the i-th order, and no fill.
Serves(m, p, i, c) ==
    /\ p.orders = [m.orders EXCEPT ![i] = QueueServed(m.orders[i], c)]
    /\ p.left = m.left - c
    /\ p.usdc = m.usdc /\ p.fdusd = m.fdusd /\ p.fills = m.fills

\* It gives c to the queue, to its end, and q to the order.
Fills(m, p, i, c, q) ==
    /\ q > 0 /\ q <= Left(m.orders[i]) /\ q <= m.left - c /\ c = m.orders[i].queue
    /\ p.orders = [m.orders EXCEPT ![i] = AfterFill(QueueServed(m.orders[i], c), q)]
    /\ p.left = m.left - c - q
    /\ IF m.orders[i].side = "BUY"
       THEN p.usdc = m.usdc - q * Lower /\ p.fdusd = m.fdusd + q /\ q * Lower <= m.usdc
       ELSE p.usdc = m.usdc + q * Upper /\ p.fdusd = m.fdusd - q /\ q <= m.fdusd
    /\ p.fills = Append(m.fills, <<i, m.orders[i].filled + q = m.orders[i].quantity>>)

\* One turn leaves everything, or serves the queue, or fills the order.
LEMMA MatchOneShape ==
    ASSUME NEW m \in MatchState, NEW i \in DOMAIN m.orders, NEW side, NEW t \in Nat,
           m.orders[i].filled <= m.orders[i].quantity, NEW p, p = MatchOne(m, i, side, t), p # m
    PROVE  /\ m.orders[i].side = side /\ m.orders[i].status \in Fillable
           /\ m.orders[i].arrival < t
           /\ p.raised \in BOOLEAN
           /\ DOMAIN p = DOMAIN m /\ p = [x \in DOMAIN m |-> p[x]]
           /\ \E c \in Nat :
                /\ c <= m.left /\ c <= m.orders[i].queue
                /\ Serves(m, p, i, c) \/ \E q \in Nat : Fills(m, p, i, c, q)
<1> DEFINE o == m.orders[i]
           c == IF o.queue < m.left THEN o.queue ELSE m.left
           s == [m EXCEPT !.left = @ - c, !.orders[i].queue = @ - c]
           q == IF Left(o) < s.left THEN Left(o) ELSE s.left
<1>1. ~ (m.raised \/ m.left = 0 \/ o.side # side \/ o.status \notin Fillable \/ o.arrival >= t)
    BY DEF MatchOne
<1>2. /\ o \in OrderType /\ m.left \in Nat /\ o.queue \in Nat /\ o.filled \in Nat
      /\ o.quantity \in Nat /\ o.arrival \in Nat
      /\ m.usdc \in Nat /\ m.fdusd \in Nat /\ o = [x \in DOMAIN o |-> o[x]]
    BY OrdersTyped DEF MatchState, OrderType
<1>3. c \in Nat /\ c <= m.left /\ c <= o.queue
    BY <1>2
<1>4. /\ s.left = m.left - c /\ s.orders = [m.orders EXCEPT ![i] = QueueServed(o, c)]
      /\ s.usdc = m.usdc /\ s.fdusd = m.fdusd /\ s.fills = m.fills /\ s.raised = m.raised
      /\ DOMAIN m = {"left", "orders", "usdc", "fdusd", "fills", "raised"} /\ DOMAIN s = DOMAIN m
      /\ s = [x \in DOMAIN m |-> s[x]] /\ i \in DOMAIN s.orders
    BY DEF MatchState, QueueServed
<1>5. s.orders[i] = QueueServed(o, c)
    BY <1>4
<1>6. Left(s.orders[i]) = Left(o)
    BY <1>2, <1>5 DEF Left, OrderType, QueueServed
<1>7. p = IF q = 0 THEN s ELSE FilledBy(s, i, q)
    BY <1>1, <1>6 DEF MatchOne
<1>8. q \in Nat /\ q <= Left(o) /\ q <= m.left - c /\ (q > 0 => c = o.queue)
    BY <1>2, <1>3, <1>4 DEF Left
<1>9. o.side = side /\ o.status \in Fillable /\ o.arrival < t
    BY <1>1, <1>2
<1>10. CASE q = 0
    <2>1. p = s
        BY <1>7, <1>10
    <2>3. Serves(m, p, i, c)
        BY <1>4, <2>1 DEF Serves
    <2>4. p.raised \in BOOLEAN /\ DOMAIN p = DOMAIN m /\ p = [x \in DOMAIN m |-> p[x]]
        BY <2>1 DEF MatchState
    <2>5. QED BY <1>9, <1>3, <2>3, <2>4
<1>11. CASE q # 0
    <2>1. p = FilledBy(s, i, q)
        BY <1>7, <1>11
    <2>2. CASE IF o.side = "BUY" THEN q * Lower > m.usdc ELSE q > m.fdusd
        <3>1. p = [s EXCEPT !.raised = TRUE]
            BY <1>2, <1>4, <1>5, <2>1, <2>2 DEF FilledBy, OrderType, QueueServed
        <3>3. Serves(m, p, i, c)
            BY <1>4, <3>1 DEF Serves, MatchState
        <3>4. p.raised \in BOOLEAN /\ DOMAIN p = DOMAIN m /\ p = [x \in DOMAIN m |-> p[x]]
            BY <3>1 DEF MatchState
        <3>5. QED BY <1>9, <1>3, <3>3, <3>4
    <2>3. CASE ~ IF o.side = "BUY" THEN q * Lower > m.usdc ELSE q > m.fdusd
        <3> DEFINE so == s.orders[i]
        <3>1. so.side = o.side /\ so.filled = o.filled /\ so.quantity = o.quantity
            BY <1>2, <1>5 DEF OrderType, QueueServed
        <3>2. p = [s EXCEPT
                !.left = @ - q,
                !.orders[i] = AfterFill(@, q),
                !.usdc = IF o.side = "BUY" THEN @ - q * Lower ELSE @ + q * Upper,
                !.fdusd = IF o.side = "BUY" THEN @ + q ELSE @ - q,
                !.fills = Append(@, <<i, o.filled + q = o.quantity>>)]
            BY <1>4, <2>1, <2>3, <3>1 DEF FilledBy
        <3>4. /\ p.left = s.left - q
              /\ p.orders = [s.orders EXCEPT ![i] = AfterFill(so, q)]
              /\ p.usdc = IF o.side = "BUY" THEN s.usdc - q * Lower ELSE s.usdc + q * Upper
              /\ p.fdusd = IF o.side = "BUY" THEN s.fdusd + q ELSE s.fdusd - q
              /\ p.fills = Append(s.fills, <<i, o.filled + q = o.quantity>>)
              /\ p.raised = s.raised
            <4> HIDE DEF s, q, c
            <4>1. QED BY <1>4, <3>2
        <3>5. p.raised \in BOOLEAN /\ DOMAIN p = DOMAIN m /\ p = [x \in DOMAIN m |-> p[x]]
            BY <3>2 DEF MatchState
        <3>a. p.orders = [m.orders EXCEPT ![i] = AfterFill(QueueServed(o, c), q)]
            BY <1>4, <1>5, <3>4
        <3>b. q * Lower <= m.usdc \/ o.side # "BUY"
            BY <1>2, <1>8, <2>3, PassiveAssumption
        <3>c. q <= m.fdusd \/ o.side = "BUY"
            BY <1>2, <1>8, <2>3
        <3>6. Fills(m, p, i, c, q)
            BY <1>4, <1>8, <1>11, <3>4, <3>a, <3>b, <3>c DEF Fills
        <3>7. QED BY <1>9, <1>3, <1>8, <3>5, <3>6
    <2>4. QED BY <2>2, <2>3
<1>12. QED BY <1>10, <1>11

\* What the money and the inventory are with these orders.
LedgerOf(O, u, f) ==
    /\ u + Lower * Traded(O, "BUY") = InitialUsdc + Upper * Traded(O, "SELL")
    /\ f + Traded(O, "SELL") = Traded(O, "BUY")

\* What matching a print at time t makes of an order o.
MatchedTo(o, p, side, t) ==
    /\ p.side = o.side /\ p.quantity = o.quantity /\ p.cancelAt = o.cancelAt
    /\ p.filled >= o.filled /\ (o.status = "PENDING" => p.queue = o.queue)
    /\ p.filled > o.filled =>
         p.queue = 0 /\ o.arrival < t /\ o.status \in Fillable /\ o.side = side
    /\ \/ p.status = o.status
       \/ /\ o.status \in Fillable /\ o.side = side
          /\ \/ p.status = "FILLED" /\ p.filled = p.quantity
             \/ p.status = "PARTIALLY_FILLED" /\ o.status # "CANCEL_PENDING"

MatchTyped(m) ==
    /\ m \in MatchState /\ Len(m.orders) = Len(orders)
    /\ \A i \in DOMAIN orders : m.orders[i].filled <= m.orders[i].quantity
    /\ \A k \in DOMAIN m.fills : m.fills[k][1] \in DOMAIN orders

MatchServed(m, quantity) ==
    m.left <= quantity /\ Served(m.orders) = Served(orders) + quantity - m.left

MatchFrame(m, side, t, n) ==
    \A i \in DOMAIN orders :
        MatchedTo(orders[i], m.orders[i], side, t) /\ (i > n => m.orders[i] = orders[i])

\* A completed order has a notice that says so.
MatchNoted(m) ==
    \A i \in DOMAIN orders : m.orders[i].status = "FILLED" /\ orders[i].status # "FILLED" =>
        \E k \in DOMAIN m.fills : m.fills[k] = <<i, TRUE>>

\* Inventory comes from a BUY, and a SELL takes it with what it had left.
MatchOffers(m, side) ==
    /\ side = "BUY" /\ m.fdusd # fdusd => Working(orders, "BUY") # {}
    /\ side = "SELL" => \A i \in DOMAIN orders : orders[i].side = "SELL" =>
           m.fdusd - Left(m.orders[i]) <= fdusd - Left(orders[i])
    /\ side = "SELL" => m.fdusd <= fdusd

Matching(m, side, quantity, t, n) ==
    /\ MatchTyped(m) /\ LedgerOf(m.orders, m.usdc, m.fdusd) /\ MatchServed(m, quantity)
    /\ MatchFrame(m, side, t, n) /\ MatchNoted(m) /\ MatchOffers(m, side)

\* The queue before an order gives c.
LEMMA QueueServedType ==
    ASSUME NEW o \in OrderType, NEW c \in Nat, c <= o.queue, NEW p, p = QueueServed(o, c)
    PROVE  /\ p \in OrderType /\ p.side = o.side /\ p.quantity = o.quantity
           /\ p.cancelAt = o.cancelAt /\ p.arrival = o.arrival /\ p.status = o.status
           /\ p.filled = o.filled /\ p.queue = o.queue - c
BY DEF OrderType, QueueServed

\* An order is given q.
LEMMA AfterFillType ==
    ASSUME NEW o \in OrderType, NEW q \in Nat, NEW p, p = AfterFill(o, q), o.status \in Fillable
    PROVE  /\ p \in OrderType /\ p.side = o.side /\ p.quantity = o.quantity
           /\ p.cancelAt = o.cancelAt /\ p.arrival = o.arrival
           /\ p.filled = o.filled + q /\ p.queue = o.queue
           /\ \/ p.status = "FILLED" /\ p.filled = p.quantity
              \/ p.filled # p.quantity /\ p.status = "PARTIALLY_FILLED" /\ o.status # "CANCEL_PENDING"
              \/ p.filled # p.quantity /\ p.status = "CANCEL_PENDING" /\ o.status = "CANCEL_PENDING"
<1>1. p.status \in {"FILLED", "CANCEL_PENDING", "PARTIALLY_FILLED"}
    BY DEF OrderType, AfterFill
<1>2. p.status \in Active \union Closed
    BY <1>1 DEF Active, Fillable, Closed
<1>3. p.filled = o.filled + q /\ p.filled \in Nat
    BY DEF OrderType, AfterFill
<1>4. /\ p.side = o.side /\ p.quantity = o.quantity /\ p.queue = o.queue
      /\ p.cancelAt = o.cancelAt /\ p.arrival = o.arrival
    BY DEF OrderType, AfterFill
<1>5. p \in OrderType
    BY <1>2, <1>3 DEF OrderType, AfterFill
<1>6. p.status = IF o.filled + q = o.quantity THEN "FILLED"
                 ELSE IF o.status = "CANCEL_PENDING" THEN o.status ELSE "PARTIALLY_FILLED"
    BY DEF OrderType, AfterFill
<1>7. QED BY <1>3, <1>4, <1>5, <1>6

\* From m, which saw n orders, to r the matching replaces the next one by p.
Replaces(m, r, side, t, n, i, p) ==
    /\ MatchFrame(m, side, t, n) /\ MatchTyped(m) /\ i \in DOMAIN orders /\ i = n + 1
    /\ p \in OrderType /\ MatchedTo(orders[i], p, side, t) /\ p.filled <= p.quantity
    /\ r.orders = [m.orders EXCEPT ![i] = p]

\* Then r is ahead of m by this order.
Replaced(m, r, side, t, i, p) ==
    /\ MatchFrame(r, side, t, i)
    /\ r.orders \in Seq(OrderType) /\ Len(r.orders) = Len(orders)
    /\ \A k \in DOMAIN orders : r.orders[k].filled <= r.orders[k].quantity
    /\ \A k \in DOMAIN orders : k # i => r.orders[k] = m.orders[k]
    /\ r.orders[i] = p

\* One order of the matching advances, to p.
LEMMA MatchingAdvances ==
    ASSUME TypeOK, NEW side, NEW t, NEW n \in Nat, NEW m, NEW i, NEW p, NEW r,
           Replaces(m, r, side, t, n, i, p)
    PROVE  Replaced(m, r, side, t, i, p)
<1> USE DEF Replaces
<1>1. /\ DOMAIN m.orders = DOMAIN orders /\ m.orders \in Seq(OrderType)
      /\ DOMAIN orders = 1..Len(orders) /\ Len(orders) \in Nat
    BY DEF TypeOK, MatchTyped, MatchState
<1>2. /\ r.orders \in Seq(OrderType) /\ Len(r.orders) = Len(m.orders)
      /\ \A k \in DOMAIN orders : k # i => r.orders[k] = m.orders[k]
      /\ r.orders[i] = p
    BY <1>1, OneOrderChanges
<1>3. m.orders[i] = orders[i]
    BY DEF MatchFrame
<1>4. \A k \in DOMAIN orders : r.orders[k].filled <= r.orders[k].quantity
    BY <1>2 DEF MatchTyped
<1>5. MatchFrame(r, side, t, i)
    <2> SUFFICES ASSUME NEW k \in DOMAIN orders
                 PROVE  MatchedTo(orders[k], r.orders[k], side, t) /\ (k > i => r.orders[k] = orders[k])
        BY DEF MatchFrame
    <2>1. CASE k = i
        BY <1>1, <1>2, <2>1
    <2>2. CASE k # i
        <3>1. k \in Nat /\ (k > i => k > n)
            BY <1>1
        <3>2. QED BY <1>2, <2>2, <3>1 DEF MatchFrame
    <2>3. QED BY <2>1, <2>2
<1>6. QED BY <1>2, <1>3, <1>4, <1>5 DEF MatchTyped, Replaced

\* What the matching has, for the steps that follow.
LEMMA MatchingTyped ==
    ASSUME TypeOK, NEW m, MatchTyped(m)
    PROVE  /\ m.left \in Nat /\ m.usdc \in Nat /\ m.fdusd \in Nat /\ m.orders \in Seq(OrderType)
           /\ m.fills \in Seq(Nat \X BOOLEAN)
           /\ DOMAIN m = {"left", "orders", "usdc", "fdusd", "fills", "raised"}
           /\ DOMAIN m.orders = DOMAIN orders /\ DOMAIN orders \subseteq Nat
           /\ orders \in Seq(OrderType)
<1>1. /\ m.left \in Nat /\ m.usdc \in Nat /\ m.fdusd \in Nat /\ m.orders \in Seq(OrderType)
      /\ m.fills \in Seq(Nat \X BOOLEAN)
      /\ DOMAIN m = {"left", "orders", "usdc", "fdusd", "fills", "raised"}
    BY DEF MatchTyped, MatchState
<1>2. orders \in Seq(OrderType)
    BY DEF TypeOK
<1>3. Len(m.orders) = Len(orders)
    BY DEF MatchTyped
<1>4. QED BY <1>1, <1>2, <1>3, OrdersTyped

\* A matching has its type if its parts have theirs.
LEMMA MatchTypedIf ==
    ASSUME NEW p, p = [x \in {"left", "orders", "usdc", "fdusd", "fills", "raised"} |-> p[x]],
           p.left \in Nat, p.orders \in Seq(OrderType), p.usdc \in Nat, p.fdusd \in Nat,
           p.fills \in Seq(Nat \X BOOLEAN), p.raised \in BOOLEAN
    PROVE  p \in MatchState
BY DEF MatchState

\* p has the fields of m.
FieldsOf(p, m) == p.raised \in BOOLEAN /\ p = [x \in DOMAIN m |-> p[x]]

\* A turn of the loop, at an order that the print may fill, makes p of m.
Turn(m, p, side, quantity, t, n, i) ==
    /\ Matching(m, side, quantity, t, n) /\ i \in DOMAIN orders /\ i = n + 1
    /\ m.orders[i].side = side /\ m.orders[i].status \in Fillable /\ m.orders[i].arrival < t
    /\ FieldsOf(p, m)

\* The queue can give c to what is left.
MayGive(m, i, c) == c \in Nat /\ c <= m.left /\ c <= m.orders[i].queue

\* A turn that fills nothing.
LEMMA ServesKeeps ==
    ASSUME TypeOK, NEW side \in Side, NEW quantity \in Nat, NEW t \in Nat, NEW n \in Nat, NEW m,
           NEW i, NEW p, Turn(m, p, side, quantity, t, n, i),
           NEW c, MayGive(m, i, c), Serves(m, p, i, c)
    PROVE  Matching(p, side, quantity, t, i)
<1> DEFINE o == orders[i]  r == QueueServed(o, c)
<1> USE DEF Turn, MayGive
<1>1. /\ MatchTyped(m) /\ LedgerOf(m.orders, m.usdc, m.fdusd) /\ MatchServed(m, quantity)
      /\ MatchFrame(m, side, t, n) /\ MatchNoted(m) /\ MatchOffers(m, side)
    BY DEF Matching
<1>2. m.orders[i] = o /\ o \in OrderType /\ o.queue \in Nat /\ o.filled \in Nat /\ o.quantity \in Nat
      /\ o.filled <= o.quantity /\ o.status \in Fillable
    <2>1. m.orders[i] = o
        BY <1>1, MatchingTyped DEF MatchFrame
    <2>2. QED BY <1>1, <2>1, OrdersTyped DEF MatchTyped, TypeOK
<1>3. /\ r \in OrderType /\ r.side = o.side /\ r.quantity = o.quantity
      /\ r.cancelAt = o.cancelAt /\ r.status = o.status
      /\ r.filled = o.filled /\ r.queue = o.queue - c
    BY <1>2, QueueServedType
<1>4. /\ p.orders = [m.orders EXCEPT ![i] = r] /\ p.left = m.left - c
      /\ p.usdc = m.usdc /\ p.fdusd = m.fdusd /\ p.fills = m.fills
    BY <1>2 DEF Serves
<1> HIDE DEF r
<1>5. MatchedTo(o, r, side, t)
    BY <1>2, <1>3 DEF MatchedTo, Fillable
<1>6. /\ MatchFrame(p, side, t, i)
      /\ p.orders \in Seq(OrderType) /\ Len(p.orders) = Len(orders)
      /\ \A k \in DOMAIN orders : p.orders[k].filled <= p.orders[k].quantity
      /\ \A k \in DOMAIN orders : k # i => p.orders[k] = m.orders[k]
      /\ p.orders[i] = r
    <2>1. Replaces(m, p, side, t, n, i, r)
        BY <1>1, <1>2, <1>3, <1>4, <1>5 DEF Replaces
    <2>2. Replaced(m, p, side, t, i, r)
        BY <2>1, MatchingAdvances
    <2>3. QED BY <2>2 DEF Replaced
<1>7. MatchTyped(p)
    <2>1. p \in MatchState
        <3>1. /\ p.left \in Nat /\ p.usdc \in Nat /\ p.fdusd \in Nat
              /\ p.fills \in Seq(Nat \X BOOLEAN)
              /\ DOMAIN m = {"left", "orders", "usdc", "fdusd", "fills", "raised"}
            BY <1>1, <1>4, MatchingTyped
        <3>2. p.orders \in Seq(OrderType) /\ p.raised \in BOOLEAN
            BY <1>6 DEF FieldsOf
        <3>3. p = [x \in {"left", "orders", "usdc", "fdusd", "fills", "raised"} |-> p[x]]
            BY <3>1 DEF FieldsOf
        <3>4. QED BY <3>1, <3>2, <3>3, MatchTypedIf
    <2>2. QED BY <1>1, <1>4, <1>6, <2>1 DEF MatchTyped
<1>8. /\ \A s : Traded(p.orders, s) = Traded(m.orders, s)
      /\ Served(p.orders) = Served(m.orders) + c
    <2>1. m.orders \in Seq(OrderType) /\ i \in DOMAIN m.orders
        BY <1>1, MatchingTyped
    <2>2. r.filled = m.orders[i].filled + 0 /\ r.queue = m.orders[i].queue - c
        BY <1>2, <1>3
    <2>3. Given(m.orders, p.orders, i, r, c, 0)
        BY <1>2, <1>3, <1>4, <2>1, <2>2 DEF Given
    <2>4. /\ \A s : Traded(p.orders, s) = Traded(m.orders, s) + (IF s = r.side THEN 0 ELSE 0)
          /\ Served(p.orders) = Served(m.orders) + c + 0
        BY <2>3, TotalsChange
    <2>5. Served(m.orders) \in Int /\ \A s : Traded(m.orders, s) \in Int
        BY <2>1, ServedType, TradedType
    <2>6. QED BY <2>4, <2>5
<1>9. LedgerOf(p.orders, p.usdc, p.fdusd)
    BY <1>1, <1>4, <1>8 DEF LedgerOf
<1>10. MatchServed(p, quantity)
    <2>1. Served(orders) \in Int /\ m.left \in Nat /\ Served(m.orders) \in Int
        BY <1>1, MatchingTyped, ServedType
    <2>2. QED BY <1>1, <1>4, <1>8, <2>1 DEF MatchServed
<1>11. MatchNoted(p)
    <2>1. \A k \in DOMAIN orders : p.orders[k].status = m.orders[k].status
        BY <1>2, <1>3, <1>6
    <2>2. p.fills = m.fills
        BY <1>4
    <2>3. QED BY <1>1, <2>1, <2>2 DEF MatchNoted
<1>12. \A k \in DOMAIN orders : Left(p.orders[k]) = Left(m.orders[k])
    BY <1>2, <1>3, <1>6 DEF Left
<1>13. MatchOffers(p, side)
    BY <1>1, <1>4, <1>12 DEF MatchOffers
<1>14. QED BY <1>6, <1>7, <1>9, <1>10, <1>11, <1>13 DEF Matching

\* A turn that fills the order.
LEMMA FillsKeeps ==
    ASSUME TypeOK, NEW side \in Side, NEW quantity \in Nat, NEW t \in Nat, NEW n \in Nat, NEW m,
           NEW i, NEW p, Turn(m, p, side, quantity, t, n, i),
           NEW c, MayGive(m, i, c), NEW q \in Nat, Fills(m, p, i, c, q)
    PROVE  Matching(p, side, quantity, t, i)
<1> DEFINE o == orders[i]  s == QueueServed(o, c)  r == AfterFill(s, q)
<1> USE DEF Turn, MayGive
<1>1. /\ MatchTyped(m) /\ LedgerOf(m.orders, m.usdc, m.fdusd) /\ MatchServed(m, quantity)
      /\ MatchFrame(m, side, t, n) /\ MatchNoted(m) /\ MatchOffers(m, side)
    BY DEF Matching
<1>2. /\ m.orders[i] = o /\ o \in OrderType /\ o.queue \in Nat /\ o.filled \in Nat /\ o.quantity \in Nat
      /\ o.filled <= o.quantity /\ o.status \in Fillable /\ o.side = side /\ o.arrival < t
    <2>1. m.orders[i] = o
        BY <1>1, MatchingTyped DEF MatchFrame
    <2>2. QED BY <1>1, <2>1, OrdersTyped DEF MatchTyped, TypeOK
<1>3. /\ s \in OrderType /\ s.side = o.side /\ s.quantity = o.quantity
      /\ s.cancelAt = o.cancelAt /\ s.arrival = o.arrival /\ s.status = o.status
      /\ s.filled = o.filled /\ s.queue = o.queue - c
    BY <1>2, QueueServedType
<1>4. /\ q > 0 /\ q <= o.quantity - o.filled /\ q <= m.left - c /\ c = o.queue
      /\ p.orders = [m.orders EXCEPT ![i] = r] /\ p.left = m.left - c - q
      /\ p.fills = Append(m.fills, <<i, o.filled + q = o.quantity>>)
    BY <1>2 DEF Fills, Left
<1>5. IF side = "BUY"
      THEN p.usdc = m.usdc - q * Lower /\ p.fdusd = m.fdusd + q /\ q * Lower <= m.usdc
      ELSE p.usdc = m.usdc + q * Upper /\ p.fdusd = m.fdusd - q /\ q <= m.fdusd
    BY <1>2 DEF Fills
<1> HIDE DEF s
<1>6. /\ r \in OrderType /\ r.side = o.side /\ r.quantity = o.quantity
      /\ r.cancelAt = o.cancelAt /\ r.filled = o.filled + q /\ r.queue = 0
      /\ \/ r.status = "FILLED" /\ r.filled = r.quantity
         \/ r.filled # r.quantity /\ r.status = "PARTIALLY_FILLED" /\ o.status # "CANCEL_PENDING"
         \/ r.filled # r.quantity /\ r.status = "CANCEL_PENDING" /\ o.status = "CANCEL_PENDING"
    <2>1. s.status \in Fillable
        BY <1>2, <1>3
    <2>2. /\ r \in OrderType /\ r.side = s.side /\ r.quantity = s.quantity
          /\ r.cancelAt = s.cancelAt /\ r.filled = s.filled + q /\ r.queue = s.queue
          /\ \/ r.status = "FILLED" /\ r.filled = r.quantity
             \/ r.filled # r.quantity /\ r.status = "PARTIALLY_FILLED" /\ s.status # "CANCEL_PENDING"
             \/ r.filled # r.quantity /\ r.status = "CANCEL_PENDING" /\ s.status = "CANCEL_PENDING"
        BY <1>3, <2>1, AfterFillType
    <2>3. s.queue = 0
        BY <1>2, <1>3, <1>4
    <2>4. QED BY <1>3, <2>2, <2>3
<1> HIDE DEF r
<1>7. MatchedTo(o, r, side, t)
    BY <1>2, <1>4, <1>6 DEF MatchedTo, Fillable
<1>8. r.filled <= r.quantity
    BY <1>2, <1>4, <1>6
<1>9. /\ MatchFrame(p, side, t, i)
      /\ p.orders \in Seq(OrderType) /\ Len(p.orders) = Len(orders)
      /\ \A k \in DOMAIN orders : p.orders[k].filled <= p.orders[k].quantity
      /\ \A k \in DOMAIN orders : k # i => p.orders[k] = m.orders[k]
      /\ p.orders[i] = r
    <2>1. Replaces(m, p, side, t, n, i, r)
        BY <1>1, <1>4, <1>6, <1>7, <1>8 DEF Replaces
    <2>2. Replaced(m, p, side, t, i, r)
        BY <2>1, MatchingAdvances
    <2>3. QED BY <2>2 DEF Replaced
<1>10. /\ m.left \in Nat /\ m.usdc \in Nat /\ m.fdusd \in Nat /\ m.orders \in Seq(OrderType)
       /\ m.fills \in Seq(Nat \X BOOLEAN) /\ DOMAIN m.orders = DOMAIN orders
       /\ DOMAIN orders \subseteq Nat /\ orders \in Seq(OrderType)
       /\ DOMAIN m = {"left", "orders", "usdc", "fdusd", "fills", "raised"}
    BY <1>1, MatchingTyped
<1>a. m.left \in Nat /\ m.usdc \in Nat /\ m.fdusd \in Nat
    BY <1>10
<1>11. PICK paid \in Nat, got \in Nat : paid = q * Lower /\ got = q * Upper
    BY PassiveAssumption
<1>b. PICK left \in Nat, u \in Nat, f \in Nat : left = m.left /\ u = m.usdc /\ f = m.fdusd
    BY <1>a
<1>c. /\ p.left = left - c - q /\ q <= left - c
      /\ IF side = "BUY"
         THEN p.usdc = u - paid /\ p.fdusd = f + q /\ paid <= u
         ELSE p.usdc = u + got /\ p.fdusd = f - q /\ q <= f
    BY <1>4, <1>5, <1>11, <1>b
<1>12. p.left \in Nat /\ p.usdc \in Nat /\ p.fdusd \in Nat
    <2>1. left - c - q \in Nat
        BY <1>c
    <2>2. CASE side = "BUY"
        BY <1>c, <2>1, <2>2
    <2>3. CASE side # "BUY"
        BY <1>c, <2>1, <2>3
    <2>4. QED BY <2>2, <2>3
<1>13. /\ p.fills \in Seq(Nat \X BOOLEAN) /\ Len(p.fills) = Len(m.fills) + 1
       /\ p.fills[Len(m.fills) + 1] = <<i, o.filled + q = o.quantity>>
       /\ \A k \in DOMAIN m.fills : k \in DOMAIN p.fills /\ p.fills[k] = m.fills[k]
       /\ \A k \in DOMAIN p.fills : k \in DOMAIN m.fills \/ k = Len(m.fills) + 1
    <2>1. <<i, o.filled + q = o.quantity>> \in Nat \X BOOLEAN
        BY <1>10
    <2> DEFINE last == <<i, o.filled + q = o.quantity>>
    <2>2. last \in Nat \X BOOLEAN /\ p.fills = Append(m.fills, last)
        BY <1>4, <2>1
    <2>3. m.fills \in Seq(Nat \X BOOLEAN)
        BY <1>10
    <2> DEFINE F == m.fills
    <2> HIDE DEF last, F
    <2>4. F \in Seq(Nat \X BOOLEAN) /\ p.fills = Append(F, last)
        BY <2>2, <2>3 DEF F
    <2>5. /\ p.fills \in Seq(Nat \X BOOLEAN) /\ Len(p.fills) = Len(F) + 1
          /\ p.fills[Len(F) + 1] = last
          /\ \A k \in DOMAIN F : k \in DOMAIN p.fills /\ p.fills[k] = F[k]
          /\ \A k \in DOMAIN p.fills : k \in DOMAIN F \/ k = Len(F) + 1
        BY <2>2, <2>4
    <2>6. QED BY <2>5 DEF F, last
<1>14. MatchTyped(p)
    <2>1. p.raised \in BOOLEAN
          /\ p = [x \in {"left", "orders", "usdc", "fdusd", "fills", "raised"} |-> p[x]]
        BY <1>10 DEF FieldsOf
    <2>2. p \in MatchState
        BY <1>9, <1>12, <1>13, <2>1, MatchTypedIf
    <2>3. \A k \in DOMAIN p.fills : p.fills[k][1] \in DOMAIN orders
        <3>1. \A k \in DOMAIN m.fills : p.fills[k][1] \in DOMAIN orders
            BY <1>1, <1>13 DEF MatchTyped
        <3>2. p.fills[Len(m.fills) + 1][1] \in DOMAIN orders
            BY <1>13
        <3>3. QED BY <1>13, <3>1, <3>2
    <2>4. QED BY <1>9, <2>2, <2>3 DEF MatchTyped
<1>15. /\ \A w : Traded(p.orders, w) = Traded(m.orders, w) + (IF w = side THEN q ELSE 0)
       /\ Served(p.orders) = Served(m.orders) + c + q
    <2>1. m.orders \in Seq(OrderType) /\ i \in DOMAIN m.orders
        BY <1>10
    <2>2. r.queue = o.queue - c
        BY <1>2, <1>4, <1>6
    <2>3. Given(m.orders, p.orders, i, r, c, q) /\ r.side = side
        BY <1>2, <1>4, <1>6, <2>1, <2>2 DEF Given
    <2>4. QED BY <2>3, TotalsChange
<1>16. LedgerOf(p.orders, p.usdc, p.fdusd)
    <2>1. PICK b \in Nat : b = Traded(m.orders, "BUY")
        BY <1>10, TradedType
    <2>2. PICK z \in Nat : z = Traded(m.orders, "SELL")
        BY <1>10, TradedType
    <2>3. m.usdc + Lower * b = InitialUsdc + Upper * z /\ m.fdusd + z = b
        BY <1>1, <2>1, <2>2 DEF LedgerOf
    <2>4. CASE side = "BUY"
        <3>1. Traded(p.orders, "BUY") = b + q /\ Traded(p.orders, "SELL") = z
            BY <1>15, <2>1, <2>2, <2>4
        <3>2. Lower * (b + q) = Lower * b + paid
            BY <1>11, PassiveAssumption
        <3>3. PICK v \in Nat : v = Lower * b
            BY PassiveAssumption
        <3>4. PICK w \in Int : w = InitialUsdc + Upper * z
            BY PassiveAssumption
        <3>5. p.usdc + (v + paid) = w /\ p.fdusd + z = b + q
            <4>1. u + v = w /\ f + z = b
                BY <1>b, <2>3, <3>3, <3>4
            <4>2. p.usdc = u - paid /\ p.fdusd = f + q
                BY <1>c, <2>4
            <4>3. QED BY <4>1, <4>2
        <3>6. QED BY <3>1, <3>2, <3>3, <3>4, <3>5 DEF LedgerOf
    <2>5. CASE side = "SELL"
        <3>1. Traded(p.orders, "BUY") = b /\ Traded(p.orders, "SELL") = z + q
            BY <1>15, <2>1, <2>2, <2>5
        <3>2. Upper * (z + q) = Upper * z + got
            BY <1>11, PassiveAssumption
        <3>3. PICK v \in Nat : v = Lower * b
            BY PassiveAssumption
        <3>4. PICK w \in Nat : w = Upper * z
            BY PassiveAssumption
        <3>5. p.usdc + v = InitialUsdc + (w + got) /\ p.fdusd + (z + q) = b
            <4>1. u + v = InitialUsdc + w /\ f + z = b /\ InitialUsdc \in Nat
                BY <1>b, <2>3, <3>3, <3>4, PassiveAssumption
            <4>2. p.usdc = u + got /\ p.fdusd = f - q
                BY <1>c, <2>5
            <4>3. QED BY <4>1, <4>2
        <3>6. QED BY <3>1, <3>2, <3>3, <3>4, <3>5 DEF LedgerOf
    <2>6. QED BY <2>4, <2>5 DEF Side
<1>17. MatchServed(p, quantity)
    <2>1. PICK x \in Int, y \in Int : x = Served(orders) /\ y = Served(m.orders)
        BY <1>10, ServedType
    <2>2. left <= quantity /\ y = x + quantity - left
        BY <1>1, <1>b, <2>1 DEF MatchServed
    <2>3. Served(p.orders) = y + c + q
        BY <1>15, <2>1
    <2>4. p.left <= quantity /\ y + c + q = x + quantity - p.left
        BY <1>c, <2>2
    <2>5. QED BY <2>1, <2>3, <2>4 DEF MatchServed
<1>18. MatchNoted(p)
    <2> SUFFICES ASSUME NEW k \in DOMAIN orders, p.orders[k].status = "FILLED", orders[k].status # "FILLED"
                 PROVE  \E x \in DOMAIN p.fills : p.fills[x] = <<k, TRUE>>
        BY DEF MatchNoted
    <2>1. CASE k = i
        <3>1. r.status = "FILLED"
            BY <1>9, <2>1
        <3>2. r.filled = r.quantity
            BY <1>6, <3>1
        <3>3. (o.filled + q = o.quantity) = TRUE
            BY <1>6, <3>2
        <3>4. p.fills[Len(m.fills) + 1] = <<k, TRUE>>
            BY <1>13, <2>1, <3>3
        <3>5. Len(m.fills) + 1 \in DOMAIN p.fills
            BY <1>10, <1>13
        <3>6. QED BY <3>4, <3>5
    <2>2. CASE k # i
        <3>1. m.orders[k].status = "FILLED"
            BY <1>9, <2>2
        <3>2. PICK x \in DOMAIN m.fills : m.fills[x] = <<k, TRUE>>
            BY <1>1, <3>1 DEF MatchNoted
        <3>3. QED BY <1>13, <3>2
    <2>3. QED BY <2>1, <2>2
<1>19. MatchOffers(p, side)
    <2>1. CASE side = "BUY"
        <3>1. i \in Working(orders, "BUY")
            BY <1>2, <2>1 DEF Working, Active
        <3>2. QED BY <2>1, <3>1 DEF MatchOffers
    <2>2. CASE side = "SELL"
        <3>1. p.fdusd = m.fdusd - q /\ m.fdusd <= fdusd
            BY <1>1, <1>5, <2>2 DEF MatchOffers
        <3>2. fdusd \in Nat
            BY DEF TypeOK
        <3>3. ASSUME NEW k \in DOMAIN orders, orders[k].side = "SELL"
              PROVE  p.fdusd - Left(p.orders[k]) <= fdusd - Left(orders[k])
            <4>1. m.fdusd - Left(m.orders[k]) <= fdusd - Left(orders[k])
                BY <1>1, <2>2, <3>3 DEF MatchOffers
            <4>2. /\ orders[k].quantity \in Nat /\ orders[k].filled \in Nat
                  /\ m.orders[k].quantity \in Nat /\ m.orders[k].filled \in Nat
                BY <1>10, OrdersTyped
            <4>3. Left(p.orders[k]) = Left(m.orders[k]) \/ Left(p.orders[k]) = Left(m.orders[k]) - q
                <5>1. CASE k # i
                    BY <1>9, <5>1
                <5>2. CASE k = i
                    BY <1>2, <1>6, <1>9, <5>2 DEF Left
                <5>3. QED BY <5>1, <5>2
            <4>4. Left(m.orders[k]) \in Int /\ Left(orders[k]) \in Int
                BY <4>2 DEF Left
            <4>5. PICK x \in Int, y \in Int : x = Left(m.orders[k]) /\ y = Left(orders[k])
                BY <4>4
            <4>6. PICK g \in Nat : g = m.fdusd
                BY <1>a
            <4>7. g - x <= fdusd - y /\ (Left(p.orders[k]) = x \/ Left(p.orders[k]) = x - q)
                BY <4>1, <4>3, <4>5, <4>6
            <4>8. p.fdusd = g - q
                BY <3>1, <4>6
            <4>9. QED BY <3>2, <4>5, <4>7, <4>8
        <3>4. p.fdusd <= fdusd
            BY <1>10, <3>1, <3>2
        <3>5. QED BY <2>2, <3>3, <3>4 DEF MatchOffers
    <2>3. QED BY <2>1, <2>2 DEF Side
<1>20. QED BY <1>9, <1>14, <1>16, <1>17, <1>18, <1>19 DEF Matching

\* A turn of the loop keeps it.
LEMMA MatchOneKeeps ==
    ASSUME TypeOK, NEW side \in Side, NEW quantity \in Nat, NEW t \in Nat, NEW n \in Nat, NEW m,
           Matching(m, side, quantity, t, n), NEW i \in DOMAIN orders, i = n + 1
    PROVE  Matching(MatchOne(m, i, side, t), side, quantity, t, i)
<1> DEFINE p == MatchOne(m, i, side, t)
<1>1. /\ m \in MatchState /\ DOMAIN m.orders = DOMAIN orders /\ DOMAIN orders \subseteq Nat
      /\ m.orders[i].filled <= m.orders[i].quantity
    BY MatchingTyped DEF Matching, MatchTyped
<1>2. CASE p = m
    <2>1. \A k \in DOMAIN orders : k > i => k > n
        BY <1>1
    <2>2. MatchFrame(m, side, t, i)
        BY <2>1 DEF Matching, MatchFrame
    <2>3. QED BY <1>2, <2>2 DEF Matching
<1>3. CASE p # m
    <2> HIDE DEF p
    <2>1. /\ m.orders[i].side = side /\ m.orders[i].status \in Fillable /\ m.orders[i].arrival < t
          /\ p.raised \in BOOLEAN /\ DOMAIN p = DOMAIN m /\ p = [x \in DOMAIN m |-> p[x]]
          /\ \E c \in Nat :
               /\ c <= m.left /\ c <= m.orders[i].queue
               /\ Serves(m, p, i, c) \/ \E q \in Nat : Fills(m, p, i, c, q)
        BY <1>1, <1>3, MatchOneShape DEF p
    <2>3. PICK c \in Nat : /\ c <= m.left /\ c <= m.orders[i].queue
                           /\ Serves(m, p, i, c) \/ \E q \in Nat : Fills(m, p, i, c, q)
        BY <2>1
    <2>4. Turn(m, p, side, quantity, t, n, i)
        BY <2>1 DEF Turn, FieldsOf
    <2>5. MayGive(m, i, c)
        BY <2>3 DEF MayGive
    <2>6. ASSUME Serves(m, p, i, c) PROVE Matching(p, side, quantity, t, i)
        BY <2>4, <2>5, <2>6, ServesKeeps
    <2>7. ASSUME \E q \in Nat : Fills(m, p, i, c, q) PROVE Matching(p, side, quantity, t, i)
        <3>1. PICK q \in Nat : Fills(m, p, i, c, q)
            BY <2>7
        <3>2. QED BY <2>4, <2>5, <3>1, FillsKeeps
    <2>8. QED BY <2>3, <2>6, <2>7 DEF p
<1>4. QED BY <1>2, <1>3

\* The matching before the first order.
MatchStart(quantity) ==
    [left |-> quantity, orders |-> orders, usdc |-> usdc, fdusd |-> fdusd,
     fills |-> <<>>, raised |-> FALSE]

\* f is the loop of _match_trade over the first n orders.
Loop(f, side, quantity, t, n) ==
    /\ f = [i \in 0..n |-> f[i]]
    /\ f[0] = MatchStart(quantity)
    /\ \A i \in 1..n : f[i] = MatchOne(f[i - 1], i, side, t)

\* The loop ends, whatever the number of orders.
LEMMA LoopExists ==
    ASSUME NEW side, NEW quantity, NEW t
    PROVE  \A n \in Nat : \E f : Loop(f, side, quantity, t, n)
<1> DEFINE T == {n \in Nat : ~ \E f : Loop(f, side, quantity, t, n)}
<1>1. SUFFICES ASSUME T # {} PROVE FALSE
    OBVIOUS
<1>2. PICK n \in T : \A m \in Nat : m < n => m \notin T
    <2> HIDE DEF T
    <2>1. T \in SUBSET Nat
        BY DEF T
    <2>2. QED BY <1>1, <2>1, LeastElement
<1>3. CASE n = 0
    <2> DEFINE start == MatchStart(quantity)
    <2> HIDE DEF start
    <2>1. Loop([i \in 0..0 |-> start], side, quantity, t, 0)
        BY DEF Loop, start
    <2>2. QED BY <1>2, <1>3, <2>1
<1>4. CASE n # 0
    <2>1. n - 1 \in Nat /\ n - 1 \notin T
        BY <1>2, <1>4
    <2>2. PICK g : Loop(g, side, quantity, t, n - 1)
        BY <2>1
    <2> DEFINE last == MatchOne(g[n - 1], n, side, t)
               e == [i \in 0..n |-> IF i = n THEN last ELSE g[i]]
    <2> HIDE DEF last
    <2>3. e[0] = MatchStart(quantity)
        BY <1>4, <2>1, <2>2 DEF Loop
    <2>4. ASSUME NEW k \in 1..n PROVE e[k] = MatchOne(e[k - 1], k, side, t)
        <3>1. CASE k = n
            <4>1. e[k] = last /\ e[k - 1] = g[n - 1]
                BY <2>1, <3>1
            <4>2. QED BY <3>1, <4>1 DEF last
        <3>2. CASE k # n
            <4>1. e[k] = g[k] /\ e[k - 1] = g[k - 1] /\ k \in 1..(n - 1)
                BY <2>1, <2>4, <3>2
            <4>2. g[k] = MatchOne(g[k - 1], k, side, t)
                BY <2>2, <4>1 DEF Loop
            <4>3. QED BY <4>1, <4>2
        <3>3. QED BY <3>1, <3>2
    <2>5. e = [i \in 0..n |-> e[i]]
        OBVIOUS
    <2> HIDE DEF e
    <2>6. Loop(e, side, quantity, t, n)
        BY <2>3, <2>4, <2>5 DEF Loop
    <2>7. QED BY <1>2, <2>6
<1>5. QED BY <1>3, <1>4

\* What Match computes is the end of the loop over all orders.
LEMMA MatchIsLoop ==
    ASSUME NEW side, NEW quantity, NEW t, Len(orders) \in Nat
    PROVE  \E f : Loop(f, side, quantity, t, Len(orders)) /\ Match(side, quantity, t) = f[Len(orders)]
<1> DEFINE Eq(f) == f = [i \in 0..Len(orders) |-> IF i = 0 THEN MatchStart(quantity)
                                                 ELSE MatchOne(f[i - 1], i, side, t)]
           f == CHOOSE f : Eq(f)
<1>1. PICK g : Loop(g, side, quantity, t, Len(orders))
    BY LoopExists
<1>2. Eq(g)
    <2>1. \A i \in 0..Len(orders) : i = 0 \/ i \in 1..Len(orders)
        OBVIOUS
    <2>2. QED BY <1>1, <2>1 DEF Loop
<1>3. Eq(f)
    BY <1>2
<1>4. Match(side, quantity, t) = f[Len(orders)]
    BY DEF Match, MatchStart
<1> DEFINE c == f
<1>5. Eq(c)
    BY <1>3
<1> HIDE DEF c
<1>6. /\ c = [i \in 0..Len(orders) |-> c[i]] /\ c[0] = MatchStart(quantity)
      /\ \A i \in 1..Len(orders) : c[i] = MatchOne(c[i - 1], i, side, t)
    BY <1>5
<1>7. QED BY <1>4, <1>6 DEF Loop, c

\* At the start nothing is matched.
LEMMA MatchStarts ==
    ASSUME TypeOK, LedgerFollowsFills, NEW side \in Side, NEW quantity \in Nat, NEW t
    PROVE  Matching(MatchStart(quantity), side, quantity, t, 0)
<1> DEFINE m == MatchStart(quantity)
<1>1. /\ m.left = quantity /\ m.orders = orders /\ m.usdc = usdc /\ m.fdusd = fdusd
      /\ m.fills = <<>> /\ m.raised = FALSE
      /\ m = [x \in {"left", "orders", "usdc", "fdusd", "fills", "raised"} |-> m[x]]
    BY DEF MatchStart
<1> HIDE DEF m
<1>2. orders \in Seq(OrderType) /\ usdc \in Nat /\ fdusd \in Nat
    BY DEF TypeOK
<1>3. MatchTyped(m)
    <2>1. <<>> \in Seq(Nat \X BOOLEAN)
        OBVIOUS
    <2>2. m \in MatchState
        BY <1>1, <1>2, <2>1, MatchTypedIf
    <2>3. QED BY <1>1, <2>2 DEF MatchTyped, TypeOK
<1>4. LedgerOf(m.orders, m.usdc, m.fdusd)
    BY <1>1 DEF LedgerOf, LedgerFollowsFills
<1>5. MatchServed(m, quantity)
    <2>1. Served(orders) \in Int
        BY <1>2, ServedType
    <2>2. QED BY <1>1, <2>1 DEF MatchServed
<1>6. MatchFrame(m, side, t, 0)
    <2>1. \A i \in DOMAIN orders : orders[i].filled \in Nat
        BY <1>2, OrdersTyped
    <2>2. QED BY <1>1, <2>1 DEF MatchFrame, MatchedTo
<1>7. MatchNoted(m)
    BY <1>1 DEF MatchNoted
<1>8. MatchOffers(m, side)
    <2>1. \A i \in DOMAIN orders : Left(orders[i]) \in Int
        BY <1>2, OrdersTyped DEF Left
    <2>2. QED BY <1>1, <1>2, <2>1 DEF MatchOffers
<1>9. QED BY <1>3, <1>4, <1>5, <1>6, <1>7, <1>8 DEF Matching, m

\* What one print does to all orders.
LEMMA MatchKeeps ==
    ASSUME TypeOK, LedgerFollowsFills, NEW side \in Side, NEW quantity \in Nat, NEW t \in Nat
    PROVE  Matching(Match(side, quantity, t), side, quantity, t, Len(orders))
<1>1. Len(orders) \in Nat /\ DOMAIN orders = 1..Len(orders)
    BY OrdersTyped DEF TypeOK
<1>2. PICK f : Loop(f, side, quantity, t, Len(orders)) /\ Match(side, quantity, t) = f[Len(orders)]
    BY <1>1, MatchIsLoop
<1> DEFINE T == {n \in 0..Len(orders) : ~ Matching(f[n], side, quantity, t, n)}
<1>3. SUFFICES ASSUME T # {} PROVE FALSE
    BY <1>1, <1>2
<1>4. PICK n \in T : \A m \in Nat : m < n => m \notin T
    <2> HIDE DEF T
    <2>1. T \in SUBSET Nat
        BY DEF T
    <2>2. QED BY <1>3, <2>1, LeastElement
<1>5. n # 0
    <2>1. f[0] = MatchStart(quantity)
        BY <1>2 DEF Loop
    <2>2. Matching(f[0], side, quantity, t, 0)
        BY <2>1, MatchStarts
    <2>3. QED BY <1>4, <2>2
<1>6. n - 1 \in Nat /\ n - 1 \notin T /\ n - 1 \in 0..Len(orders) /\ n \in DOMAIN orders /\ n = (n - 1) + 1
    BY <1>1, <1>4, <1>5
<1>7. Matching(f[n - 1], side, quantity, t, n - 1)
    BY <1>6
<1>8. f[n] = MatchOne(f[n - 1], n, side, t)
    BY <1>1, <1>2, <1>6 DEF Loop
<1>9. Matching(MatchOne(f[n - 1], n, side, t), side, quantity, t, n)
    BY <1>6, <1>7, MatchOneKeeps
<1>10. QED BY <1>4, <1>8, <1>9

-----------------------------------------------------------------------------
(* C. The agenda.                                                          *)

\* Every item of A but the i-th is in B.
Keeps(A, B, i) == \A k \in DOMAIN A : k # i => \E j \in DOMAIN B : B[j] = A[k]

\* Every item of B is in A or is x.
Adds(A, B, x) == \A j \in DOMAIN B : B[j] = x \/ \E k \in DOMAIN A : B[j] = A[k]

\* An item is taken out.
LEMMA RemoveKeeps ==
    ASSUME NEW S, NEW A \in Seq(S), NEW i \in DOMAIN A, NEW x, NEW B, B = RemoveAt(A, i)
    PROVE  B \in Seq(S) /\ Keeps(A, B, i) /\ Adds(A, B, x)
<1> DEFINE F == SubSeq(A, 1, i - 1)  G == SubSeq(A, i + 1, Len(A))
<1>1. Len(A) \in Nat /\ i \in 1..Len(A) /\ DOMAIN A = 1..Len(A) /\ \A k \in 1..Len(A) : A[k] \in S
    OBVIOUS
<1>2. F \in Seq(S) /\ Len(F) = i - 1 /\ \A k \in 1..(i - 1) : F[k] = A[k]
    BY <1>1
<1>3. G \in Seq(S) /\ Len(G) = Len(A) - i /\ \A k \in 1..(Len(A) - i) : G[k] = A[i + k]
    <2>1. i + 1 \in Int /\ Len(A) \in Int /\ \A k \in (i + 1)..Len(A) : A[k] \in S
        BY <1>1
    <2>2. /\ G \in Seq(S) /\ Len(G) = IF i + 1 <= Len(A) THEN Len(A) - (i + 1) + 1 ELSE 0
          /\ \A k \in 1..(Len(A) - (i + 1) + 1) : G[k] = A[(i + 1) + k - 1]
        BY <2>1, SubSeqProperties
    <2> HIDE DEF G
    <2>3. ASSUME NEW k \in 1..(Len(A) - i) PROVE G[k] = A[i + k]
        <3>1. k \in 1..(Len(A) - (i + 1) + 1) /\ (i + 1) + k - 1 = i + k
            BY <1>1
        <3>2. QED BY <2>2, <3>1
    <2>4. Len(G) = Len(A) - i
        BY <1>1, <2>2
    <2>5. QED BY <2>2, <2>3, <2>4
<1>4. B = F \o G
    BY DEF RemoveAt
<1> HIDE DEF F, G
<1>5. /\ B \in Seq(S) /\ Len(B) = Len(A) - 1 /\ DOMAIN B = 1..(Len(A) - 1)
      /\ \A k \in 1..(Len(A) - 1) : B[k] = IF k < i THEN A[k] ELSE A[k + 1]
    <2>1. B \in Seq(S) /\ Len(B) = Len(F) + Len(G) /\ DOMAIN B = 1..Len(B)
        BY <1>2, <1>3, <1>4
    <2>2. Len(B) = Len(A) - 1
        BY <1>1, <1>2, <1>3, <2>1
    <2>3. ASSUME NEW k \in 1..(Len(A) - 1) PROVE B[k] = IF k < i THEN A[k] ELSE A[k + 1]
        <3>1. CASE k < i
            <4>1. k \in 1..Len(F)
                BY <1>1, <1>2, <3>1
            <4>2. B[k] = F[k]
                BY <1>2, <1>3, <1>4, <4>1
            <4>3. QED BY <1>1, <1>2, <3>1, <4>2
        <3>2. CASE ~ (k < i)
            <4>1. k - Len(F) \in 1..Len(G) /\ k > Len(F) /\ k <= Len(F) + Len(G)
                BY <1>1, <1>2, <1>3, <3>2
            <4>2. B[k] = G[k - Len(F)]
                BY <1>1, <1>2, <1>3, <1>4, <3>2, <4>1, ConcatProperties
            <4>3. G[k - Len(F)] = A[i + (k - Len(F))] /\ i + (k - Len(F)) = k + 1
                BY <1>1, <1>2, <1>3, <4>1
            <4>4. QED BY <3>2, <4>2, <4>3
        <3>3. QED BY <3>1, <3>2
    <2>4. QED BY <2>1, <2>2, <2>3
<1>6. Keeps(A, B, i)
    <2> SUFFICES ASSUME NEW k \in DOMAIN A, k # i PROVE \E j \in DOMAIN B : B[j] = A[k]
        BY DEF Keeps
    <2>1. CASE k < i
        <3>1. k \in 1..(Len(A) - 1)
            BY <1>1, <2>1
        <3>2. QED BY <1>5, <2>1, <3>1
    <2>2. CASE k > i
        <3>1. k - 1 \in 1..(Len(A) - 1) /\ ~ (k - 1 < i) /\ (k - 1) + 1 = k
            BY <1>1, <2>2
        <3>2. QED BY <1>5, <3>1
    <2>3. QED BY <1>1, <2>1, <2>2
<1>7. Adds(A, B, x)
    <2> SUFFICES ASSUME NEW j \in DOMAIN B PROVE \E k \in DOMAIN A : B[j] = A[k]
        BY DEF Adds
    <2>1. j \in 1..(Len(A) - 1)
        BY <1>5
    <2>2. j \in DOMAIN A /\ j + 1 \in DOMAIN A
        BY <1>1, <2>1
    <2>3. QED BY <1>5, <2>1, <2>2
<1>8. QED BY <1>5, <1>6, <1>7

\* B is A with x behind.
Extends(B, A, x) == B = Append(A, x)

\* An item is added.
LEMMA AppendKeeps ==
    ASSUME NEW S, NEW A \in Seq(S), NEW x \in S, NEW B, Extends(B, A, x)
    PROVE  /\ B \in Seq(S) /\ Keeps(A, B, 0) /\ Adds(A, B, x) /\ \E j \in DOMAIN B : B[j] = x
<1>1. /\ B \in Seq(S) /\ DOMAIN B = 1..(Len(A) + 1) /\ DOMAIN A = 1..Len(A) /\ Len(A) \in Nat
      /\ B[Len(A) + 1] = x /\ \A k \in DOMAIN A : B[k] = A[k]
    BY DEF Extends
<1>2. \A j \in DOMAIN B : j \in DOMAIN A \/ j = Len(A) + 1
    BY <1>1
<1>3. DOMAIN A \subseteq DOMAIN B /\ Len(A) + 1 \in DOMAIN B
    BY <1>1
<1>4. Keeps(A, B, 0)
    BY <1>1, <1>3 DEF Keeps
<1>5. Adds(A, B, x)
    BY <1>1, <1>2 DEF Adds
<1>6. QED BY <1>1, <1>3, <1>4, <1>5

\* The items there may be while there are n orders.
ItemOf(n) ==
    [kind : {"DELIVER_MARKET", "ORDER_ARRIVAL", "FILL_NOTICE", "CANCEL_EFFECTIVE"},
     at : Nat, event : {"NONE", "SNAPSHOT", "DELTA", "GAP", "HALT"},
     order : 0..n, completes : BOOLEAN]

\* The items the simulator schedules.
LEMMA ItemTypes ==
    ASSUME NEW n \in Nat, NEW t \in Nat
    PROVE  /\ \A event \in {"SNAPSHOT", "DELTA", "GAP", "HALT"} :
                 /\ Delivery(event, t) \in ItemOf(n) /\ Delivery(event, t).kind = "DELIVER_MARKET"
                 /\ Delivery(event, t).event = event
           /\ \A i \in 1..n : /\ Arrival(i, t) \in ItemOf(n) /\ Arrival(i, t).order = i
                              /\ Arrival(i, t).kind = "ORDER_ARRIVAL"
           /\ \A i \in 1..n : /\ Effective(i, t) \in ItemOf(n) /\ Effective(i, t).order = i
                              /\ Effective(i, t).kind = "CANCEL_EFFECTIVE"
                              /\ Effective(i, t).at = t + CancelLatency
           /\ \A i \in 1..n, c \in BOOLEAN :
                 /\ Notice(i, c, t) \in ItemOf(n) /\ Notice(i, c, t).order = i
                 /\ Notice(i, c, t).kind = "FILL_NOTICE" /\ Notice(i, c, t).completes = c
<1>1. t + MarketLatency \in Nat /\ t + CancelLatency \in Nat /\ 0 \in 0..n /\ 1..n \subseteq 0..n
    BY PassiveAssumption
<1>2. ASSUME NEW event \in {"SNAPSHOT", "DELTA", "GAP", "HALT"}
      PROVE  /\ Delivery(event, t) \in ItemOf(n) /\ Delivery(event, t).kind = "DELIVER_MARKET"
             /\ Delivery(event, t).event = event
    BY <1>1 DEF Delivery, Item, ItemOf
<1>3. ASSUME NEW i \in 1..n
      PROVE  /\ Arrival(i, t) \in ItemOf(n) /\ Arrival(i, t).order = i
             /\ Arrival(i, t).kind = "ORDER_ARRIVAL"
    BY <1>1 DEF Arrival, Item, ItemOf
<1>4. ASSUME NEW i \in 1..n
      PROVE  /\ Effective(i, t) \in ItemOf(n) /\ Effective(i, t).order = i
             /\ Effective(i, t).kind = "CANCEL_EFFECTIVE"
             /\ Effective(i, t).at = t + CancelLatency
    BY <1>1 DEF Effective, Item, ItemOf
<1>5. ASSUME NEW i \in 1..n, NEW c \in BOOLEAN
      PROVE  /\ Notice(i, c, t) \in ItemOf(n) /\ Notice(i, c, t).order = i
             /\ Notice(i, c, t).kind = "FILL_NOTICE" /\ Notice(i, c, t).completes = c
    BY <1>1 DEF Notice, Item, ItemOf
<1>6. QED BY <1>2, <1>3, <1>4, <1>5

OrdersOK(O) ==
    /\ O \in Seq(OrderType)
    /\ \A i \in DOMAIN O : O[i].filled <= O[i].quantity
    /\ \A i \in DOMAIN O : O[i].status = "PENDING" => O[i].queue = 0

Belongs(x, O) == IF x.kind = "DELIVER_MARKET" THEN x.event # "NONE" ELSE x.order \in DOMAIN O

AgendaOK(A, O) ==
    /\ A \in Seq(ItemOf(Len(O)))
    /\ \A k \in DOMAIN A : Belongs(A[k], O)

\* The cancel of the order o, the i-th, is not lost in the agenda A.
CancelComes(A, i, o) ==
    /\ o.status \in {"PENDING", "OPEN", "PARTIALLY_FILLED"} => o.cancelAt = 0
    /\ o.status = "CANCEL_PENDING" =>
           \E k \in DOMAIN A : /\ A[k].kind = "CANCEL_EFFECTIVE" /\ A[k].order = i
                               /\ A[k].at = o.cancelAt

CancelsCome(A, O) == \A i \in DOMAIN O : CancelComes(A, i, O[i])

\* What holds of the agenda A, the orders O and the ledger u, f in every state.
Base(A, O, u, f) ==
    OrdersOK(O) /\ AgendaOK(A, O) /\ u \in Nat /\ f \in Nat /\ LedgerOf(O, u, f) /\ CancelsCome(A, O)

\* An item is scheduled.
LEMMA BaseAdd ==
    ASSUME NEW A, NEW O, NEW u, NEW f, Base(A, O, u, f), NEW x \in ItemOf(Len(O)),
           Belongs(x, O),
           NEW B, B = Append(A, x)
    PROVE  Base(B, O, u, f)
<1>1. A \in Seq(ItemOf(Len(O)))
    BY DEF Base, AgendaOK, Belongs
<1> DEFINE S == ItemOf(Len(O))
<1>a. A \in Seq(S) /\ x \in S
    BY <1>1
<1> HIDE DEF S
<1>b. B \in Seq(S) /\ Keeps(A, B, 0) /\ Adds(A, B, x)
    BY <1>a, AppendKeeps DEF Extends
<1>c. \A k \in DOMAIN A : k # 0
    BY <1>a
<1>2. B \in Seq(ItemOf(Len(O))) /\ Keeps(A, B, 0) /\ Adds(A, B, x) /\ \A k \in DOMAIN A : k # 0
    BY <1>b, <1>c DEF S
<1>3. AgendaOK(B, O)
    BY <1>2 DEF Base, AgendaOK, Adds, Belongs
<1>4. CancelsCome(B, O)
    <2> SUFFICES ASSUME NEW i \in DOMAIN O PROVE CancelComes(B, i, O[i])
        BY DEF CancelsCome
    <2>1. CancelComes(A, i, O[i])
        BY DEF Base, CancelsCome
    <2>2. QED BY <1>2, <2>1 DEF CancelComes, Keeps
<1>5. QED BY <1>3, <1>4 DEF Base

\* The i-th item of A is not the cancel an order of O waits for.
Spent(A, O, i) ==
    \A k \in DOMAIN O : O[k].status = "CANCEL_PENDING" =>
        ~ (A[i].kind = "CANCEL_EFFECTIVE" /\ A[i].order = k /\ A[i].at = O[k].cancelAt)

\* An item is popped.
LEMMA BaseRemove ==
    ASSUME NEW A, NEW O, NEW u, NEW f, Base(A, O, u, f), NEW i \in DOMAIN A, Spent(A, O, i),
           NEW B, B = RemoveAt(A, i)
    PROVE  Base(B, O, u, f)
<1>1. A \in Seq(ItemOf(Len(O)))
    BY DEF Base, AgendaOK, Belongs
<1>2. B \in Seq(ItemOf(Len(O))) /\ Keeps(A, B, i) /\ Adds(A, B, A[i])
    BY <1>1, RemoveKeeps
<1>3. AgendaOK(B, O)
    BY <1>2 DEF Base, AgendaOK, Adds, Belongs
<1>4. CancelsCome(B, O)
    <2> SUFFICES ASSUME NEW k \in DOMAIN O PROVE CancelComes(B, k, O[k])
        BY DEF CancelsCome
    <2>1. CancelComes(A, k, O[k])
        BY DEF Base, CancelsCome
    <2>2. CASE O[k].status = "CANCEL_PENDING"
        <3>1. PICK j \in DOMAIN A : /\ A[j].kind = "CANCEL_EFFECTIVE" /\ A[j].order = k
                                    /\ A[j].at = O[k].cancelAt
            BY <2>1, <2>2 DEF CancelComes
        <3>2. j # i
            BY <2>2, <3>1 DEF Spent
        <3>3. \E l \in DOMAIN B : B[l] = A[j]
            BY <1>2, <3>2 DEF Keeps
        <3>4. QED BY <2>1, <2>2, <3>1, <3>3 DEF CancelComes
    <2>3. CASE O[k].status # "CANCEL_PENDING"
        BY <2>1, <2>3 DEF CancelComes
    <2>4. QED BY <2>2, <2>3
<1>5. QED BY <1>3, <1>4 DEF Base

\* A new order as _new_order makes it.
Pending(o) == o \in OrderType /\ o.filled = 0 /\ o.queue = 0 /\ o.status = "PENDING" /\ o.cancelAt = 0

\* An order is added.
LEMMA BaseNewOrder ==
    ASSUME NEW A, NEW O, NEW u, NEW f, Base(A, O, u, f), NEW o, Pending(o), NEW P, Extends(P, O, o)
    PROVE  /\ Base(A, P, u, f) /\ Len(P) = Len(O) + 1 /\ Len(P) \in DOMAIN P /\ P[Len(P)] = o
           /\ \A i \in DOMAIN O : i \in DOMAIN P /\ P[i] = O[i]
<1>1. O \in Seq(OrderType) /\ o \in OrderType /\ o.filled = 0
    BY DEF Base, OrdersOK, Pending
<1>2. /\ P \in Seq(OrderType) /\ Len(P) = Len(O) + 1 /\ Len(O) \in Nat
      /\ DOMAIN O = 1..Len(O) /\ DOMAIN P = 1..(Len(O) + 1) /\ P[Len(O) + 1] = o
      /\ \A i \in DOMAIN O : P[i] = O[i]
    BY <1>1 DEF Extends
<1>3. /\ \A i \in DOMAIN P : i \in DOMAIN O \/ i = Len(O) + 1
      /\ DOMAIN O \subseteq DOMAIN P /\ Len(O) + 1 \in DOMAIN P
    BY <1>2
<1>4. OrdersOK(P)
    <2>1. o.quantity \in Nat
        BY <1>1 DEF OrderType
    <2>2. \A i \in DOMAIN O : O[i].filled <= O[i].quantity
        BY DEF Base, OrdersOK
    <2>3. \A i \in DOMAIN P : P[i].filled <= P[i].quantity
        BY <1>1, <1>2, <1>3, <2>1, <2>2
    <2>4. \A i \in DOMAIN O : O[i].status = "PENDING" => O[i].queue = 0
        BY DEF Base, OrdersOK
    <2>5. \A i \in DOMAIN P : P[i].status = "PENDING" => P[i].queue = 0
        BY <1>2, <1>3, <2>4 DEF Pending
    <2>6. QED BY <1>2, <2>3, <2>5 DEF OrdersOK
<1>5. AgendaOK(A, P)
    <2>1. ItemOf(Len(O)) \subseteq ItemOf(Len(P))
        <3>1. 0..Len(O) \subseteq 0..Len(P)
            BY <1>2
        <3>2. QED BY <3>1 DEF ItemOf
    <2>2. A \in Seq(ItemOf(Len(P)))
        BY <2>1 DEF Base, AgendaOK, Belongs
    <2>3. QED BY <1>3, <2>2 DEF Base, AgendaOK, Belongs
<1>6. LedgerOf(P, u, f)
    <2>1. Len(P) \in {Len(O), Len(O) + 1}
        BY <1>2
    <2>2. \A i \in DOMAIN O : P[i].side = O[i].side /\ P[i].filled = O[i].filled
        BY <1>2
    <2>3. \A i \in DOMAIN P \ DOMAIN O : P[i].filled = 0
        BY <1>1, <1>2, <1>3
    <2>4. Unfilled(O, P)
        BY <2>1, <2>2, <2>3 DEF Unfilled
    <2>5. \A side : Traded(P, side) = Traded(O, side)
        BY <1>1, <1>2, <2>4, UnfilledTradesNothing
    <2>6. QED BY <2>5 DEF Base, LedgerOf
<1>7. CancelsCome(A, P)
    <2>1. CancelComes(A, Len(O) + 1, o)
        BY DEF Pending, CancelComes
    <2>2. \A i \in DOMAIN O : CancelComes(A, i, O[i])
        BY DEF Base, CancelsCome
    <2>3. QED BY <1>2, <1>3, <2>1, <2>2 DEF CancelsCome
<1>8. Base(A, P, u, f)
    BY <1>4, <1>5, <1>6, <1>7 DEF Base
<1>9. QED BY <1>2, <1>3, <1>8

\* The i-th order of O becomes o, with what it was filled.
Becomes(O, P, i, o) ==
    /\ i \in DOMAIN O /\ P = [O EXCEPT ![i] = o] /\ o \in OrderType
    /\ o.side = O[i].side /\ o.filled = O[i].filled /\ o.quantity = O[i].quantity
    /\ o.status # "PENDING"

\* An order changes without a fill.
LEMMA BaseReplace ==
    ASSUME NEW A, NEW O, NEW u, NEW f, Base(A, O, u, f), NEW i, NEW o, NEW P,
           Becomes(O, P, i, o), CancelComes(A, i, o)
    PROVE  /\ Base(A, P, u, f) /\ DOMAIN P = DOMAIN O /\ P[i] = o
           /\ \A k \in DOMAIN O : k # i => P[k] = O[k]
<1>1. O \in Seq(OrderType) /\ o \in OrderType /\ i \in DOMAIN O
    BY DEF Base, OrdersOK, Becomes
<1>2. /\ P \in Seq(OrderType) /\ Len(P) = Len(O) /\ DOMAIN P = DOMAIN O
      /\ P[i] = o /\ \A k \in DOMAIN O : k # i => P[k] = O[k]
    BY <1>1, OneOrderChanges DEF Becomes
<1>3. o.side = O[i].side /\ o.filled = O[i].filled /\ o.quantity = O[i].quantity /\ o.status # "PENDING"
    BY DEF Becomes
<1>4. OrdersOK(P)
    BY <1>2, <1>3 DEF Base, OrdersOK
<1>5. AgendaOK(A, P)
    BY <1>2 DEF Base, AgendaOK, Belongs
<1>6. LedgerOf(P, u, f)
    <2>1. \A k \in DOMAIN O : P[k].side = O[k].side /\ P[k].filled = O[k].filled
        BY <1>2, <1>3
    <2>2. Unfilled(O, P)
        BY <1>2, <2>1 DEF Unfilled
    <2>3. \A side : Traded(P, side) = Traded(O, side)
        BY <1>1, <1>2, <2>2, UnfilledTradesNothing
    <2>4. QED BY <2>3 DEF Base, LedgerOf
<1>7. CancelsCome(A, P)
    BY <1>2 DEF Base, CancelsCome
<1>8. QED BY <1>2, <1>4, <1>5, <1>6, <1>7 DEF Base

\* InventoryIsOffered of an agenda, orders, inventory and an end.
Offered(A, O, f, r) ==
    \/ f = 0 \/ r
    \/ \E i \in DOMAIN O : O[i].status \in Closed \ {"FILLED"}
    \/ Working(O, "BUY") # {}
    \/ NoticeComes(A, O)
    \/ \E i \in Working(O, "SELL") : Left(O[i]) >= f

\* The order p offers what o offered, or the exchange has refused it.
Stands(o, p) ==
    /\ p.side = o.side /\ Left(p) = Left(o)
    /\ \/ p.status = o.status
       \/ o.status \in Active /\ p.status \in Active \union (Closed \ {"FILLED"})

\* All orders of O stand in P.
AllStand(O, P) == \A i \in DOMAIN O : i \in DOMAIN P /\ Stands(O[i], P[i])

\* The i-th item of A is not the notice that will offer the inventory.
NotNotice(A, O, i) ==
    i \in DOMAIN A =>
        ~ (A[i].kind = "FILL_NOTICE" /\ A[i].completes /\ O[A[i].order].side = "BUY")

\* Where no order is filled and no such notice is popped, the inventory stays
\* offered.
LEMMA OfferedKeeps ==
    ASSUME NEW A, NEW O, NEW f, NEW r, Offered(A, O, f, r), AgendaOK(A, O),
           NEW B, NEW P, AllStand(O, P), NEW i, Keeps(A, B, i), NotNotice(A, O, i)
    PROVE  Offered(B, P, f, r)
<1>1. CASE f = 0 \/ r
    BY <1>1 DEF Offered
<1>2. CASE \E k \in DOMAIN O : O[k].status \in Closed \ {"FILLED"}
    <2>1. PICK k \in DOMAIN O : O[k].status \in Closed \ {"FILLED"}
        BY <1>2
    <2>2. k \in DOMAIN P /\ P[k].status \in Closed \ {"FILLED"}
        BY <2>1 DEF AllStand, Stands, Active, Fillable, Closed
    <2>3. QED BY <2>2 DEF Offered
<1>3. ASSUME NEW k \in DOMAIN O, O[k].status \in Active
      PROVE  /\ k \in DOMAIN P /\ P[k].side = O[k].side /\ Left(P[k]) = Left(O[k])
             /\ P[k].status \in Active \/ P[k].status \in Closed \ {"FILLED"}
    BY <1>3 DEF AllStand, Stands
<1>4. CASE Working(O, "BUY") # {}
    <2>1. PICK k \in DOMAIN O : O[k].side = "BUY" /\ O[k].status \in Active
        BY <1>4 DEF Working
    <2>2. QED BY <1>3, <2>1 DEF Offered, Working
<1>5. CASE NoticeComes(A, O)
    <2>1. PICK k \in DOMAIN A : /\ A[k].kind = "FILL_NOTICE" /\ A[k].completes
                                /\ O[A[k].order].side = "BUY"
        BY <1>5 DEF NoticeComes
    <2>2. k # i
        BY <2>1 DEF NotNotice
    <2>3. PICK j \in DOMAIN B : B[j] = A[k]
        BY <2>2 DEF Keeps
    <2>4. A[k].order \in DOMAIN O
        BY <2>1 DEF AgendaOK, Belongs
    <2>5. P[A[k].order].side = "BUY"
        BY <2>1, <2>4 DEF AllStand, Stands
    <2>6. QED BY <2>1, <2>3, <2>5 DEF Offered, NoticeComes
<1>6. CASE \E k \in Working(O, "SELL") : Left(O[k]) >= f
    <2>1. PICK k \in DOMAIN O : O[k].side = "SELL" /\ O[k].status \in Active /\ Left(O[k]) >= f
        BY <1>6 DEF Working
    <2>2. QED BY <1>3, <2>1 DEF Offered, Working
<1>7. QED BY <1>1, <1>2, <1>4, <1>5, <1>6 DEF Offered

\* Orders stand where only one of them changes, and that one stands.
LEMMA OneStands ==
    ASSUME NEW O, NEW P, NEW i \in DOMAIN O, DOMAIN P = DOMAIN O, Stands(O[i], P[i]),
           \A k \in DOMAIN O : k # i => P[k] = O[k]
    PROVE  AllStand(O, P)
BY DEF AllStand, Stands

-----------------------------------------------------------------------------
(* D. The invariant is kept by every step.                                 *)

\* What the other variables are.
Rest ==
    /\ clock \in [at : Nat, class : 0..2, print : 0..MaxPrint]
    /\ book \in Books
    /\ {bookValid, strategyValid, halted, raised} \subseteq BOOLEAN
    /\ tape \in [events : 0..MaxEvents, cancels : 0..MaxCancels]

Core == Base(agenda, orders, usdc, fdusd) /\ Offered(agenda, orders, fdusd, raised)

\* The invariant, as the lemmas speak of it.
LEMMA IInvIsCore == IInv <=> Rest /\ Core
<1>1. TypeOK /\ ItemsOK /\ PendingUnqueued <=>
          /\ Rest /\ OrdersOK(orders) /\ AgendaOK(agenda, orders) /\ usdc \in Nat /\ fdusd \in Nat
    <2>1. ItemType = ItemOf(Len(orders))
        BY DEF ItemType, ItemOf
    <2>2. QED BY <2>1 DEF TypeOK, ItemsOK, PendingUnqueued, Rest, OrdersOK, AgendaOK, Belongs
<1>2. LedgerFollowsFills <=> LedgerOf(orders, usdc, fdusd)
    BY DEF LedgerFollowsFills, LedgerOf
<1>3. CancelIsNotLost <=> CancelsCome(agenda, orders)
    BY DEF CancelIsNotLost, CancelsCome, CancelComes
<1>4. InventoryIsOffered <=> Offered(agenda, orders, fdusd, raised)
    BY DEF InventoryIsOffered, Offered
<1>5. QED BY <1>1, <1>2, <1>3, <1>4 DEF IInv, Core, Base

LEMMA IInvIsCorePrimed == IInv' <=> Rest' /\ Core'
<1>1. (TypeOK /\ ItemsOK /\ PendingUnqueued)' <=>
          /\ Rest' /\ OrdersOK(orders') /\ AgendaOK(agenda', orders') /\ usdc' \in Nat /\ fdusd' \in Nat
    <2>1. ItemType' = ItemOf(Len(orders'))
        BY DEF ItemType, ItemOf
    <2>2. QED BY <2>1 DEF TypeOK, ItemsOK, PendingUnqueued, Rest, OrdersOK, AgendaOK, Belongs
<1>2. LedgerFollowsFills' <=> LedgerOf(orders', usdc', fdusd')
    BY DEF LedgerFollowsFills, LedgerOf
<1>3. CancelIsNotLost' <=> CancelsCome(agenda', orders')
    BY DEF CancelIsNotLost, CancelsCome, CancelComes
<1>4. InventoryIsOffered' <=> Offered(agenda', orders', fdusd', raised')
    BY DEF InventoryIsOffered, Offered
<1>5. QED BY <1>1, <1>2, <1>3, <1>4 DEF IInv, Core, Base

\* A step that touches neither the orders nor the ledger and schedules x.
LEMMA CoreSchedules ==
    ASSUME Core, UNCHANGED <<orders, usdc, fdusd, raised>>, NEW x \in ItemOf(Len(orders)),
           x.kind = "DELIVER_MARKET", x.event # "NONE", agenda' = Append(agenda, x)
    PROVE  Core'
<1>1. Base(agenda', orders, usdc, fdusd)
    BY BaseAdd DEF Core, Belongs
<1>2. AgendaOK(agenda, orders) /\ agenda \in Seq(ItemOf(Len(orders)))
    BY DEF Core, Base, AgendaOK, Belongs
<1>3. Keeps(agenda, agenda', 0)
    <2> DEFINE S == ItemOf(Len(orders))  B == agenda'
    <2>1. agenda \in Seq(S) /\ x \in S /\ Extends(B, agenda, x)
        BY <1>2 DEF Extends
    <2> HIDE DEF S, B
    <2>2. Keeps(agenda, B, 0)
        BY <2>1, AppendKeeps
    <2>3. QED BY <2>2 DEF B
<1>4. NotNotice(agenda, orders, 0)
    BY <1>2 DEF NotNotice
<1>5. AllStand(orders, orders')
    BY DEF AllStand, Stands
<1>6. Offered(agenda', orders', fdusd, raised)
    BY <1>2, <1>3, <1>4, <1>5, OfferedKeeps DEF Core
<1>7. QED BY <1>1, <1>6 DEF Core

\* What is popped is there, and what is left is as good as before.
LEMMA CorePops ==
    ASSUME Core, NEW i \in DOMAIN agenda, Spent(agenda, orders, i)
    PROVE  /\ Base(RemoveAt(agenda, i), orders, usdc, fdusd)
           /\ Keeps(agenda, RemoveAt(agenda, i), i)
           /\ agenda[i].at \in Nat /\ agenda[i].completes \in BOOLEAN
           /\ agenda[i].kind # "DELIVER_MARKET" => agenda[i].order \in DOMAIN orders
<1>1. AgendaOK(agenda, orders) /\ agenda \in Seq(ItemOf(Len(orders)))
    BY DEF Core, Base, AgendaOK, Belongs
<1>2. Base(RemoveAt(agenda, i), orders, usdc, fdusd)
    BY BaseRemove DEF Core
<1>3. Keeps(agenda, RemoveAt(agenda, i), i)
    BY <1>1, RemoveKeeps
<1>4. agenda[i] \in ItemOf(Len(orders))
    BY <1>1
<1>5. agenda[i].at \in Nat /\ agenda[i].completes \in BOOLEAN
    BY <1>4 DEF ItemOf
<1>6. agenda[i].kind # "DELIVER_MARKET" => agenda[i].order \in DOMAIN orders
    BY <1>1 DEF AgendaOK, Belongs
<1>7. QED BY <1>2, <1>3, <1>5, <1>6

\* _new_order in a state that was left with this queue.
LEMMA NewOrderKeeps ==
    ASSUME NEW queue, Base(queue, orders, usdc, fdusd), NEW side \in Side,
           NEW quantity \in Nat \ {0}, NEW now \in Nat, NewOrder(queue, side, quantity, now)
    PROVE  /\ Base(agenda', orders', usdc, fdusd) /\ Len(orders') = Len(orders) + 1
           /\ Len(orders') \in DOMAIN orders' /\ Len(orders') \in Working(orders', side)
           /\ Left(orders'[Len(orders')]) = quantity /\ orders'[Len(orders')].side = side
           /\ \A i \in DOMAIN orders : i \in DOMAIN orders' /\ orders'[i] = orders[i]
<1> DEFINE arrival == now + DecisionLatency + SubmitLatency
           o == [side |-> side, quantity |-> quantity, filled |-> 0, queue |-> 0,
                 status |-> "PENDING", arrival |-> arrival, cancelAt |-> 0]
<1>1. arrival \in Nat
    BY PassiveAssumption
<1>2. orders' = Append(orders, o) /\ agenda' = Append(queue, Arrival(Len(orders) + 1, arrival))
    BY DEF NewOrder
<1> HIDE DEF arrival
<1>3. Pending(o)
    BY <1>1 DEF Pending, OrderType, Active
<1>4. /\ o.side = side /\ o.status = "PENDING" /\ o.quantity = quantity /\ o.filled = 0
    OBVIOUS
<1> HIDE DEF o
<1> DEFINE P == orders'
<1>5. Extends(P, orders, o)
    BY <1>2 DEF Extends
<1> HIDE DEF P
<1>6. /\ Base(queue, P, usdc, fdusd) /\ Len(P) = Len(orders) + 1 /\ Len(P) \in DOMAIN P
      /\ P[Len(P)] = o /\ \A i \in DOMAIN orders : i \in DOMAIN P /\ P[i] = orders[i]
    BY <1>3, <1>5, BaseNewOrder
<1> DEFINE x == Arrival(Len(P), arrival)
<1>7. x \in ItemOf(Len(P)) /\ Belongs(x, P)
    <2>1. Len(P) \in Nat /\ Len(P) \in 1..Len(P)
        BY <1>6 DEF Base, OrdersOK
    <2>2. x \in ItemOf(Len(P)) /\ x.order = Len(P) /\ x.kind = "ORDER_ARRIVAL"
        BY <1>1, <2>1, ItemTypes
    <2>3. QED BY <1>6, <2>2 DEF Belongs
<1>8. agenda' = Append(queue, x)
    BY <1>2, <1>6
<1> HIDE DEF x
<1>9. Base(agenda', P, usdc, fdusd)
    BY <1>6, <1>7, <1>8, BaseAdd
<1>10. Len(P) \in Working(P, side) /\ Left(P[Len(P)]) = quantity
    BY <1>4, <1>6 DEF Working, Active, Left
<1>11. QED BY <1>4, <1>6, <1>9, <1>10 DEF P

\* What may be bought with the money is a number of units.
LEMMA NextBuyType ==
    ASSUME usdc \in Nat
    PROVE  NextBuyQuantity \in Nat
<1>1. Lower \in Nat /\ Lower > 0 /\ FixedLot \in Nat
    BY PassiveAssumption
<1>2. \A x \in Nat, y \in Nat : y > 0 => x \div y \in Nat
    OBVIOUS
<1>3. QED BY <1>1, <1>2 DEF NextBuyQuantity

\* A delivery that places no order.
LEMMA CoreQuiet ==
    ASSUME Core, NEW i \in DOMAIN agenda, Spent(agenda, orders, i), NotNotice(agenda, orders, i),
           agenda' = RemoveAt(agenda, i), UNCHANGED <<orders, usdc, fdusd, raised>>
    PROVE  Core'
<1>1. /\ Base(RemoveAt(agenda, i), orders, usdc, fdusd)
      /\ Keeps(agenda, RemoveAt(agenda, i), i)
    BY CorePops
<1>2. Base(agenda', orders', usdc', fdusd') /\ Keeps(agenda, agenda', i)
    BY <1>1
<1>3. AgendaOK(agenda, orders)
    BY DEF Core, Base
<1>4. AllStand(orders, orders')
    BY DEF AllStand, Stands
<1>5. Offered(agenda', orders', fdusd, raised)
    BY <1>2, <1>3, <1>4, OfferedKeeps DEF Core
<1>6. QED BY <1>2, <1>5 DEF Core

\* A popped item that is neither the cancel of an order nor a notice.
LEMMA OtherKinds ==
    ASSUME NEW i, agenda[i].kind \in {"DELIVER_MARKET", "ORDER_ARRIVAL", "FILL_NOTICE"}
    PROVE  /\ Spent(agenda, orders, i)
           /\ agenda[i].kind # "FILL_NOTICE" => NotNotice(agenda, orders, i)
BY DEF Spent, NotNotice

\* _on_market_delivery: a BUY is placed only while there is no inventory.
LEMMA DeliverMarketKeeps == Core /\ DeliverMarket => Core'
<1> SUFFICES ASSUME Core, DeliverMarket PROVE Core'
    OBVIOUS
<1>1. PICK i \in DOMAIN agenda :
        /\ Pops(i, "DELIVER_MARKET")
        /\ \/ Consider(RemoveAt(agenda, i), agenda[i].at)
           \/ agenda' = RemoveAt(agenda, i) /\ UNCHANGED orders
        /\ UNCHANGED <<usdc, fdusd, raised>>
    BY DEF DeliverMarket
<1>2. Spent(agenda, orders, i) /\ NotNotice(agenda, orders, i)
    BY <1>1, OtherKinds DEF Pops
<1>3. Base(RemoveAt(agenda, i), orders, usdc, fdusd) /\ agenda[i].at \in Nat
    BY <1>2, CorePops
<1>4. CASE agenda' = RemoveAt(agenda, i) /\ UNCHANGED orders
    BY <1>1, <1>2, <1>4, CoreQuiet
<1>5. CASE MayBuy /\ NewOrder(RemoveAt(agenda, i), "BUY", NextBuyQuantity, agenda[i].at)
    <2>1. fdusd = 0 /\ NextBuyQuantity > 0
        BY <1>5 DEF MayBuy
    <2>2. NextBuyQuantity \in Nat \ {0}
        BY <1>3, <2>1, NextBuyType DEF Base
    <2>3. "BUY" \in Side
        BY DEF Side
    <2>4. Base(agenda', orders', usdc, fdusd)
        BY <1>3, <1>5, <2>2, <2>3, NewOrderKeeps
    <2>5. Offered(agenda', orders', fdusd, raised)
        BY <2>1 DEF Offered
    <2>6. QED BY <1>1, <2>4, <2>5 DEF Core
<1>6. QED BY <1>1, <1>4, <1>5 DEF Consider

\* _on_fill_notice: the notice that completes a BUY offers the inventory.
LEMMA FillNoticeKeeps == Core /\ FillNotice => Core'
<1> SUFFICES ASSUME Core, FillNotice PROVE Core'
    OBVIOUS
<1>1. PICK i \in DOMAIN agenda :
        /\ Pops(i, "FILL_NOTICE")
        /\ IF orders[agenda[i].order].side = "BUY"
           THEN NoticeBuy(RemoveAt(agenda, i), agenda[i])
           ELSE NoticeSell(RemoveAt(agenda, i), agenda[i])
        /\ UNCHANGED <<usdc, fdusd>>
    BY DEF FillNotice
<1> DEFINE queue == RemoveAt(agenda, i)
           buy == orders[agenda[i].order].side = "BUY"
<1>2. Spent(agenda, orders, i)
    BY <1>1, OtherKinds DEF Pops
<1>3. /\ Base(queue, orders, usdc, fdusd) /\ Keeps(agenda, queue, i)
      /\ agenda[i].at \in Nat /\ agenda[i].completes \in BOOLEAN
    BY <1>2, CorePops
<1>a. fdusd \in Nat
    BY DEF Core, Base
<1> HIDE DEF queue
<1>4. CASE agenda' = queue /\ UNCHANGED <<orders, raised>> /\ ~ (buy /\ agenda[i].completes /\ fdusd > 0)
    <2>1. CASE fdusd = 0
        <3>1. Base(agenda', orders', usdc', fdusd') /\ fdusd' = 0
            BY <1>1, <1>3, <1>4, <2>1
        <3>2. QED BY <3>1 DEF Core, Offered
    <2>2. CASE fdusd # 0
        <3>1. NotNotice(agenda, orders, i)
            BY <1>4, <1>a, <2>2 DEF NotNotice
        <3>2. QED BY <1>1, <1>2, <1>4, <3>1, CoreQuiet DEF queue
    <2>3. QED BY <2>1, <2>2
<1>5. CASE raised' = TRUE /\ agenda' = queue /\ UNCHANGED orders
    <2>1. Base(agenda', orders', usdc', fdusd')
        BY <1>1, <1>3, <1>5
    <2>2. QED BY <1>5, <2>1 DEF Core, Offered
<1>6. CASE fdusd > 0 /\ NewOrder(queue, "SELL", fdusd, agenda[i].at) /\ UNCHANGED raised
    <2>1. fdusd \in Nat \ {0} /\ "SELL" \in Side
        BY <1>a, <1>6 DEF Side
    <2>2. /\ Base(agenda', orders', usdc, fdusd) /\ Len(orders') \in Working(orders', "SELL")
          /\ Left(orders'[Len(orders')]) = fdusd
        BY <1>3, <1>6, <2>1, NewOrderKeeps
    <2>3. Left(orders'[Len(orders')]) >= fdusd
        BY <1>a, <2>2
    <2>4. Offered(agenda', orders', fdusd, raised')
        BY <2>2, <2>3 DEF Offered
    <2>5. QED BY <1>1, <2>2, <2>4 DEF Core
<1>7. CASE fdusd = 0 /\ NextBuyQuantity > 0 /\ NewOrder(queue, "BUY", NextBuyQuantity, agenda[i].at)
           /\ UNCHANGED raised
    <2>1. NextBuyQuantity \in Nat \ {0} /\ "BUY" \in Side
        BY <1>3, <1>7, NextBuyType DEF Base, Side
    <2>2. Base(agenda', orders', usdc, fdusd)
        BY <1>3, <1>7, <2>1, NewOrderKeeps
    <2>3. Offered(agenda', orders', fdusd, raised')
        BY <1>7 DEF Offered
    <2>4. QED BY <1>1, <2>2, <2>3 DEF Core
<1>8. CASE buy
    <2>1. NoticeBuy(queue, agenda[i])
        BY <1>1, <1>8 DEF queue
    <2>2. QED BY <1>3, <1>4, <1>5, <1>6, <1>8, <1>a, <2>1 DEF NoticeBuy
<1>9. CASE ~ buy
    <2>1. NoticeSell(queue, agenda[i])
        BY <1>1, <1>9 DEF queue
    <2>2. QED BY <1>4, <1>7, <1>9, <2>1 DEF NoticeSell
<1>10. QED BY <1>8, <1>9

\* _on_order_arrival
LEMMA OrderArrivalKeeps == Core /\ book \in Books /\ OrderArrival => Core'
<1> SUFFICES ASSUME Core, book \in Books, OrderArrival PROVE Core'
    OBVIOUS
<1>1. PICK i \in DOMAIN agenda :
        /\ Pops(i, "ORDER_ARRIVAL") /\ agenda' = RemoveAt(agenda, i)
        /\ orders' = IF orders[agenda[i].order].status = "PENDING"
                     THEN [orders EXCEPT ![agenda[i].order] = Arrived(orders[agenda[i].order])]
                     ELSE orders
        /\ UNCHANGED <<usdc, fdusd, raised>>
    BY DEF OrderArrival
<1>2. Spent(agenda, orders, i) /\ NotNotice(agenda, orders, i)
    BY <1>1, OtherKinds DEF Pops
<1>3. CASE orders[agenda[i].order].status # "PENDING"
    BY <1>1, <1>2, <1>3, CoreQuiet
<1>4. CASE orders[agenda[i].order].status = "PENDING"
    <2> DEFINE o == agenda[i].order  p == Arrived(orders[o])
    <2>1. o \in DOMAIN orders /\ Base(RemoveAt(agenda, i), orders, usdc, fdusd)
          /\ Keeps(agenda, RemoveAt(agenda, i), i)
        BY <1>1, <1>2, CorePops DEF Pops
    <2>2. orders[o] \in OrderType /\ orders[o].status = "PENDING" /\ orders[o].cancelAt = 0
        <3>1. orders \in Seq(OrderType) /\ CancelComes(agenda, o, orders[o])
            BY <2>1 DEF Core, Base, OrdersOK, CancelsCome
        <3>2. QED BY <1>4, <2>1, <3>1 DEF CancelComes
    <2>3. /\ p \in OrderType /\ p.side = orders[o].side /\ p.filled = orders[o].filled
          /\ p.quantity = orders[o].quantity /\ p.cancelAt = 0
          /\ p.status \in {"OPEN", "REJECTED_POST_ONLY", "REJECTED_NO_OBSERVED_QUEUE_COVERAGE"}
        <3>1. QueueMultiplier * book.depth[orders[o].side] \in Nat
            <4>1. book.depth[orders[o].side] \in Nat
                BY <2>2 DEF Books, OrderType
            <4>2. QED BY <4>1, PassiveAssumption
        <3>2. {"OPEN", "REJECTED_POST_ONLY", "REJECTED_NO_OBSERVED_QUEUE_COVERAGE"}
                  \subseteq Active \union Closed
            BY DEF Active, Fillable, Closed
        <3>3. QED BY <2>2, <3>1, <3>2 DEF Arrived, OrderType
    <2>4. orders' = [orders EXCEPT ![o] = p]
        BY <1>1, <1>4
    <2> HIDE DEF p, o
    <2>5. Becomes(orders, orders', o, p)
        BY <2>1, <2>3, <2>4 DEF Becomes
    <2>6. CancelComes(RemoveAt(agenda, i), o, p)
        BY <2>3 DEF CancelComes
    <2>7. /\ Base(agenda', orders', usdc, fdusd) /\ DOMAIN orders' = DOMAIN orders
          /\ orders'[o] = p /\ \A k \in DOMAIN orders : k # o => orders'[k] = orders[k]
        BY <1>1, <2>1, <2>5, <2>6, BaseReplace
    <2>8. Stands(orders[o], p)
        BY <2>2, <2>3 DEF Stands, Left, Active, Fillable, Closed
    <2>9. AllStand(orders, orders')
        BY <2>1, <2>7, <2>8, OneStands
    <2>10. Offered(agenda', orders', fdusd, raised)
        BY <1>1, <1>2, <2>1, <2>9, OfferedKeeps DEF Core, Base
    <2>11. QED BY <1>1, <2>7, <2>10 DEF Core
<1>5. QED BY <1>3, <1>4

\* _on_cancel_request
LEMMA CancelRequestKeeps == Core /\ CancelRequest => Core'
<1> SUFFICES ASSUME Core, CancelRequest PROVE Core'
    OBVIOUS
<1>1. PICK t \in Nat, o \in DOMAIN orders :
        /\ IF orders[o].status \in Fillable
           THEN /\ orders' = [orders EXCEPT ![o].status = "CANCEL_PENDING",
                                            ![o].cancelAt = t + CancelLatency]
                /\ agenda' = Append(agenda, Effective(o, t))
           ELSE UNCHANGED <<orders, agenda>>
        /\ UNCHANGED <<usdc, fdusd, raised>>
    <2>1. 0..MaxTime \subseteq Nat
        OBVIOUS
    <2>2. QED BY <2>1 DEF CancelRequest
<1>2. CASE orders[o].status \notin Fillable
    BY <1>1, <1>2 DEF Core
<1>3. CASE orders[o].status \in Fillable
    <2> DEFINE p == [orders[o] EXCEPT !.status = "CANCEL_PENDING", !.cancelAt = t + CancelLatency]
               x == Effective(o, t)
    <2>1. orders \in Seq(OrderType) /\ orders[o] \in OrderType /\ DOMAIN orders = 1..Len(orders)
          /\ Len(orders) \in Nat /\ agenda \in Seq(ItemOf(Len(orders))) /\ AgendaOK(agenda, orders)
        BY DEF Core, Base, OrdersOK, AgendaOK, Belongs
    <2>2. orders' = [orders EXCEPT ![o] = p]
        BY <1>1, <1>3, <2>1
    <2>3. t + CancelLatency \in Nat /\ "CANCEL_PENDING" \in Active \union Closed
        BY PassiveAssumption DEF Active, Fillable
    <2>4. /\ p \in OrderType /\ p.side = orders[o].side /\ p.filled = orders[o].filled
          /\ p.quantity = orders[o].quantity /\ p.status = "CANCEL_PENDING"
          /\ p.cancelAt = t + CancelLatency
        BY <2>1, <2>3 DEF OrderType
    <2>5. /\ x \in ItemOf(Len(orders)) /\ x.order = o /\ x.kind = "CANCEL_EFFECTIVE"
          /\ x.at = t + CancelLatency
        BY <2>1, ItemTypes
    <2>6. agenda' = Append(agenda, x)
        BY <1>1, <1>3
    <2> HIDE DEF p, x
    <2>7. Base(agenda', orders, usdc, fdusd)
        BY <2>5, <2>6, BaseAdd DEF Core, Belongs
    <2>8. Keeps(agenda, agenda', 0) /\ \E j \in DOMAIN agenda' : agenda'[j] = x
        <3> DEFINE S == ItemOf(Len(orders))  B == agenda'
        <3>1. agenda \in Seq(S) /\ x \in S /\ Extends(B, agenda, x)
            BY <2>1, <2>5, <2>6 DEF Extends
        <3> HIDE DEF S, B
        <3>2. Keeps(agenda, B, 0) /\ \E j \in DOMAIN B : B[j] = x
            BY <3>1, AppendKeeps
        <3>3. QED BY <3>2 DEF B
    <2>9. CancelComes(agenda', o, p)
        BY <2>4, <2>5, <2>8 DEF CancelComes
    <2>10. Becomes(orders, orders', o, p)
        BY <2>2, <2>4 DEF Becomes
    <2>11. /\ Base(agenda', orders', usdc, fdusd) /\ DOMAIN orders' = DOMAIN orders
           /\ orders'[o] = p /\ \A k \in DOMAIN orders : k # o => orders'[k] = orders[k]
        BY <2>7, <2>9, <2>10, BaseReplace
    <2>12. Stands(orders[o], p)
        BY <1>3, <2>4 DEF Stands, Left, Active, Fillable
    <2>13. AllStand(orders, orders')
        BY <2>11, <2>12, OneStands
    <2>14. NotNotice(agenda, orders, 0)
        BY <2>1 DEF NotNotice
    <2>15. Offered(agenda', orders', fdusd, raised)
        BY <2>1, <2>8, <2>13, <2>14, OfferedKeeps DEF Core
    <2>16. QED BY <1>1, <2>11, <2>15 DEF Core
<1>4. QED BY <1>2, <1>3

\* _on_cancel_effective
LEMMA CancelEffectiveKeeps == Core /\ CancelEffective => Core'
<1> SUFFICES ASSUME Core, CancelEffective PROVE Core'
    OBVIOUS
<1>1. PICK i \in DOMAIN agenda :
        /\ Pops(i, "CANCEL_EFFECTIVE") /\ agenda' = RemoveAt(agenda, i)
        /\ orders' = IF /\ orders[agenda[i].order].status = "CANCEL_PENDING"
                        /\ orders[agenda[i].order].cancelAt = agenda[i].at
                     THEN [orders EXCEPT ![agenda[i].order].status = "CANCELED"]
                     ELSE orders
        /\ UNCHANGED <<usdc, fdusd, raised>>
    BY DEF CancelEffective
<1> DEFINE o == agenda[i].order
<1>2. agenda[i].kind = "CANCEL_EFFECTIVE"
    BY <1>1 DEF Pops
<1>3. NotNotice(agenda, orders, i)
    BY <1>2 DEF NotNotice
<1>4. CASE ~ (orders[o].status = "CANCEL_PENDING" /\ orders[o].cancelAt = agenda[i].at)
    <2>1. Spent(agenda, orders, i)
        BY <1>4 DEF Spent
    <2>2. QED BY <1>1, <1>3, <1>4, <2>1, CoreQuiet
<1>5. CASE orders[o].status = "CANCEL_PENDING" /\ orders[o].cancelAt = agenda[i].at
    <2> DEFINE p == [orders[o] EXCEPT !.status = "CANCELED"]
    <2>1. /\ o \in DOMAIN orders /\ orders[o] \in OrderType /\ AgendaOK(agenda, orders)
          /\ agenda \in Seq(ItemOf(Len(orders)))
        BY <1>2 DEF Core, Base, OrdersOK, AgendaOK, Belongs
    <2>2. orders' = [orders EXCEPT ![o] = p]
        BY <1>1, <1>5, <2>1
    <2>3. /\ p \in OrderType /\ p.side = orders[o].side /\ p.filled = orders[o].filled
          /\ p.quantity = orders[o].quantity /\ p.status = "CANCELED"
        BY <2>1 DEF OrderType, Closed
    <2> HIDE DEF p, o
    <2>4. Becomes(orders, orders', o, p)
        BY <2>1, <2>2, <2>3 DEF Becomes
    <2>5. CancelComes(agenda, o, p)
        BY <2>3 DEF CancelComes
    <2>6. /\ Base(agenda, orders', usdc, fdusd) /\ DOMAIN orders' = DOMAIN orders
          /\ orders'[o] = p /\ \A k \in DOMAIN orders : k # o => orders'[k] = orders[k]
        BY <2>4, <2>5, BaseReplace DEF Core
    <2>7. Spent(agenda, orders', i)
        BY <2>3, <2>6 DEF Spent, o
    <2>8. Base(agenda', orders', usdc, fdusd)
        BY <1>1, <2>6, <2>7, BaseRemove
    <2>9. orders'[o].status \in Closed \ {"FILLED"} /\ o \in DOMAIN orders'
        BY <2>1, <2>3, <2>6 DEF Closed
    <2>10. Offered(agenda', orders', fdusd, raised)
        BY <2>9 DEF Offered
    <2>11. QED BY <1>1, <2>8, <2>10 DEF Core
<1>6. QED BY <1>4, <1>5

\* A market event but a trade at a level of the strategy.
LEMMA MarketKeeps ==
    /\ Core
    /\ MarketSnapshot \/ MarketDelta \/ MarketGap \/ MarketHalt \/ MarketTradeElsewhere
    => Core'
<1> SUFFICES ASSUME Core, MarketSnapshot \/ MarketDelta \/ MarketGap \/ MarketHalt
                                         \/ MarketTradeElsewhere
             PROVE  Core'
    OBVIOUS
<1>1. CASE MarketTradeElsewhere
    <2>1. UNCHANGED <<agenda, orders, usdc, fdusd, raised>>
        BY <1>1 DEF MarketTradeElsewhere
    <2>2. QED BY <2>1 DEF Core
<1>2. CASE MarketSnapshot \/ MarketDelta \/ MarketGap \/ MarketHalt
    <2>1. PICK t \in 0..MaxTime, event \in {"SNAPSHOT", "DELTA", "GAP", "HALT"} :
            agenda' = Append(agenda, Delivery(event, t)) /\ UNCHANGED <<orders, usdc, fdusd, raised>>
        BY <1>2 DEF MarketSnapshot, MarketDelta, MarketGap, MarketHalt
    <2>2. Len(orders) \in Nat /\ t \in Nat
        BY DEF Core, Base, OrdersOK
    <2>3. /\ Delivery(event, t) \in ItemOf(Len(orders)) /\ Delivery(event, t).kind = "DELIVER_MARKET"
          /\ Delivery(event, t).event # "NONE"
        BY <2>2, ItemTypes
    <2>4. QED BY <2>1, <2>3, CoreSchedules
<1>3. QED BY <1>1, <1>2

\* Items are added behind.
LEMMA ConcatKeeps ==
    ASSUME NEW S, NEW A \in Seq(S), NEW N \in Seq(S)
    PROVE  /\ A \o N \in Seq(S) /\ Keeps(A, A \o N, 0) /\ Keeps(N, A \o N, 0)
           /\ \A j \in DOMAIN (A \o N) :
                 (\E k \in DOMAIN A : (A \o N)[j] = A[k]) \/ \E k \in DOMAIN N : (A \o N)[j] = N[k]
<1> DEFINE B == A \o N
<1>1. /\ B \in Seq(S) /\ Len(B) = Len(A) + Len(N) /\ Len(A) \in Nat /\ Len(N) \in Nat
      /\ DOMAIN A = 1..Len(A) /\ DOMAIN N = 1..Len(N)
      /\ \A j \in 1..(Len(A) + Len(N)) : B[j] = IF j <= Len(A) THEN A[j] ELSE N[j - Len(A)]
    BY ConcatProperties
<1> HIDE DEF B
<1>2. DOMAIN B = 1..(Len(A) + Len(N))
    BY <1>1
<1>3. Keeps(A, B, 0)
    <2>1. \A k \in DOMAIN A : k \in DOMAIN B /\ B[k] = A[k]
        BY <1>1, <1>2
    <2>2. QED BY <2>1 DEF Keeps
<1>4. Keeps(N, B, 0)
    <2>1. ASSUME NEW k \in DOMAIN N PROVE k + Len(A) \in DOMAIN B /\ B[k + Len(A)] = N[k]
        <3>1. k + Len(A) \in 1..(Len(A) + Len(N)) /\ ~ (k + Len(A) <= Len(A))
              /\ (k + Len(A)) - Len(A) = k
            BY <1>1
        <3>2. QED BY <1>1, <1>2, <3>1
    <2>2. QED BY <2>1 DEF Keeps
<1>5. ASSUME NEW j \in DOMAIN B
      PROVE  (\E k \in DOMAIN A : B[j] = A[k]) \/ \E k \in DOMAIN N : B[j] = N[k]
    <2>1. CASE j <= Len(A)
        BY <1>1, <1>2, <2>1
    <2>2. CASE ~ (j <= Len(A))
        <3>1. j - Len(A) \in DOMAIN N
            BY <1>1, <1>2, <2>2
        <3>2. QED BY <1>1, <1>2, <2>2, <3>1
    <2>3. QED BY <2>1, <2>2
<1>6. QED BY <1>1, <1>3, <1>4, <1>5 DEF B

\* The notices of the fills f of a print.
NoticesOf(f, t) == [k \in DOMAIN f |-> Notice(f[k][1], f[k][2], t)]

\* B is the agenda with these notices behind.
Noticed(B, f, t) == B = agenda \o NoticesOf(f, t)

\* Every fill of f has its notice in B.
AllNoticed(B, f) ==
    \A k \in DOMAIN f : \E j \in DOMAIN B :
        B[j].kind = "FILL_NOTICE" /\ B[j].order = f[k][1] /\ B[j].completes = f[k][2]

\* Matching a print keeps what holds of the orders and the ledger.
LEMMA MatchedBase ==
    ASSUME IInv, NEW side \in Side, NEW quantity \in Nat, NEW t \in Nat, NEW m,
           Matching(m, side, quantity, t, Len(orders)),
           NEW B, Noticed(B, m.fills, t)
    PROVE  Base(B, m.orders, m.usdc, m.fdusd) /\ Keeps(agenda, B, 0) /\ AllNoticed(B, m.fills)
<1> DEFINE N == NoticesOf(m.fills, t)  S == ItemOf(Len(orders))
<1>1. /\ MatchTyped(m) /\ LedgerOf(m.orders, m.usdc, m.fdusd) /\ MatchFrame(m, side, t, Len(orders))
    BY DEF Matching
<1>2. /\ TypeOK /\ Base(agenda, orders, usdc, fdusd) /\ agenda \in Seq(S)
      /\ AgendaOK(agenda, orders) /\ CancelsCome(agenda, orders)
    BY IInvIsCore DEF IInv, Core, Base, AgendaOK, Belongs
<1>3. /\ m.usdc \in Nat /\ m.fdusd \in Nat /\ m.orders \in Seq(OrderType)
      /\ m.fills \in Seq(Nat \X BOOLEAN) /\ DOMAIN m.orders = DOMAIN orders
      /\ Len(orders) \in Nat /\ DOMAIN orders = 1..Len(orders) /\ Len(m.orders) = Len(orders)
    BY <1>1, <1>2, MatchingTyped, OrdersTyped DEF MatchTyped
<1>4. ASSUME NEW k \in DOMAIN m.fills
      PROVE  /\ N[k] \in S /\ N[k].kind = "FILL_NOTICE" /\ N[k].order = m.fills[k][1]
             /\ N[k].completes = m.fills[k][2] /\ N[k].order \in DOMAIN orders
    <2>1. m.fills[k][1] \in 1..Len(orders) /\ m.fills[k][2] \in BOOLEAN
        BY <1>1, <1>3 DEF MatchTyped
    <2>2. N[k] = Notice(m.fills[k][1], m.fills[k][2], t)
        BY DEF NoticesOf
    <2> DEFINE j == m.fills[k][1]  c == m.fills[k][2]
    <2>3. /\ Notice(j, c, t) \in S /\ Notice(j, c, t).order = j
          /\ Notice(j, c, t).kind = "FILL_NOTICE" /\ Notice(j, c, t).completes = c
        <3>1. Len(orders) \in Nat /\ j \in 1..Len(orders) /\ c \in BOOLEAN
            BY <1>3, <2>1
        <3> HIDE DEF j, c
        <3>2. QED BY <3>1, ItemTypes
    <2>4. QED BY <1>3, <2>1, <2>2, <2>3
<1>5. DOMAIN N = DOMAIN m.fills /\ DOMAIN m.fills = 1..Len(m.fills) /\ Len(m.fills) \in Nat
    BY <1>3 DEF NoticesOf
<1>6. N \in Seq(S)
    <2>1. \A k \in 1..Len(m.fills) : N[k] \in S
        BY <1>4, <1>5
    <2>2. N \in [1..Len(m.fills) -> S]
        BY <1>5, <2>1 DEF NoticesOf
    <2> HIDE DEF N, S
    <2>3. QED BY <1>5, <2>2, SeqDef
<1> HIDE DEF N, S
<1>7. /\ B \in Seq(S) /\ Keeps(agenda, B, 0) /\ Keeps(N, B, 0)
      /\ \A j \in DOMAIN B :
            (\E k \in DOMAIN agenda : B[j] = agenda[k]) \/ \E k \in DOMAIN N : B[j] = N[k]
    BY <1>2, <1>6, ConcatKeeps DEF N, Noticed
<1>8. OrdersOK(m.orders)
    <2>1. ASSUME NEW i \in DOMAIN orders, m.orders[i].status = "PENDING" PROVE m.orders[i].queue = 0
        <3>1. /\ MatchedTo(orders[i], m.orders[i], side, t)
              /\ (orders[i].status = "PENDING" => orders[i].queue = 0)
            BY <1>1, <1>2 DEF MatchFrame, Base, OrdersOK
        <3>2. QED BY <2>1, <3>1 DEF MatchedTo
    <2>2. QED BY <1>1, <1>3, <2>1 DEF MatchTyped, OrdersOK
<1>9. AgendaOK(B, m.orders)
    <2>1. B \in Seq(ItemOf(Len(m.orders)))
        BY <1>3, <1>7 DEF S
    <2>2. \A j \in DOMAIN B : Belongs(B[j], orders)
        BY <1>2, <1>4, <1>5, <1>7 DEF AgendaOK, Belongs
    <2>3. QED BY <1>3, <2>1, <2>2 DEF AgendaOK, Belongs
<1>10. CancelsCome(B, m.orders)
    <2> SUFFICES ASSUME NEW i \in DOMAIN orders PROVE CancelComes(B, i, m.orders[i])
        BY <1>3 DEF CancelsCome
    <2>1. MatchedTo(orders[i], m.orders[i], side, t) /\ CancelComes(agenda, i, orders[i])
        BY <1>1, <1>2 DEF MatchFrame, CancelsCome
    <2>2. \A k \in DOMAIN agenda : k # 0
        BY <1>2
    <2>3. CancelComes(B, i, orders[i])
        <3>1. CASE orders[i].status = "CANCEL_PENDING"
            <4>1. PICK k \in DOMAIN agenda : /\ agenda[k].kind = "CANCEL_EFFECTIVE"
                                             /\ agenda[k].order = i
                                             /\ agenda[k].at = orders[i].cancelAt
                BY <2>1, <3>1 DEF CancelComes
            <4>2. PICK j \in DOMAIN B : B[j] = agenda[k]
                BY <1>7, <2>2 DEF Keeps
            <4>3. QED BY <3>1, <4>1, <4>2 DEF CancelComes
        <3>2. CASE orders[i].status # "CANCEL_PENDING"
            BY <2>1, <3>2 DEF CancelComes
        <3>3. QED BY <3>1, <3>2
    <2>4. CASE m.orders[i].status = orders[i].status
        BY <2>1, <2>3, <2>4 DEF MatchedTo, CancelComes
    <2>5. CASE m.orders[i].status # orders[i].status
        <3>1. m.orders[i].status # "CANCEL_PENDING" /\ m.orders[i].status \in {"FILLED", "PARTIALLY_FILLED"}
              /\ m.orders[i].cancelAt = orders[i].cancelAt
            BY <2>1, <2>5 DEF MatchedTo
        <3>2. m.orders[i].status = "PARTIALLY_FILLED" => orders[i].status \in {"OPEN", "PARTIALLY_FILLED"}
            BY <2>1, <2>5 DEF MatchedTo, Fillable
        <3>3. QED BY <2>1, <3>1, <3>2 DEF CancelComes
    <2>6. QED BY <2>4, <2>5
<1>11. Base(B, m.orders, m.usdc, m.fdusd)
    BY <1>1, <1>3, <1>8, <1>9, <1>10 DEF Base
<1>12. ASSUME NEW k \in DOMAIN m.fills
       PROVE  \E j \in DOMAIN B : /\ B[j].kind = "FILL_NOTICE" /\ B[j].order = m.fills[k][1]
                                  /\ B[j].completes = m.fills[k][2]
    <2>1. k \in DOMAIN N /\ k # 0
        BY <1>5
    <2>2. PICK j \in DOMAIN B : B[j] = N[k]
        BY <1>7, <2>1 DEF Keeps
    <2>3. QED BY <1>4, <2>2
<1>13. QED BY <1>7, <1>11, <1>12 DEF AllNoticed

\* Matching a print leaves the inventory offered.
LEMMA MatchedOffered ==
    ASSUME IInv, NEW side \in Side, NEW quantity \in Nat, NEW t \in Nat, NEW m,
           Matching(m, side, quantity, t, Len(orders)),
           NEW B, Noticed(B, m.fills, t), NEW r, raised => r
    PROVE  Offered(B, m.orders, m.fdusd, r)
<1>1. /\ MatchTyped(m) /\ MatchFrame(m, side, t, Len(orders)) /\ MatchNoted(m) /\ MatchOffers(m, side)
    BY DEF Matching
<1>2. Base(B, m.orders, m.usdc, m.fdusd) /\ Keeps(agenda, B, 0) /\ AllNoticed(B, m.fills)
    BY MatchedBase
<1>3. /\ TypeOK /\ Base(agenda, orders, usdc, fdusd) /\ Offered(agenda, orders, fdusd, raised)
      /\ AgendaOK(agenda, orders) /\ agenda \in Seq(ItemOf(Len(orders))) /\ fdusd \in Nat
    BY IInvIsCore DEF IInv, Core, Base, AgendaOK, Belongs
<1>4. DOMAIN m.orders = DOMAIN orders /\ m.fdusd \in Nat /\ orders \in Seq(OrderType)
    BY <1>1, <1>3, MatchingTyped
<1>5. ASSUME NEW i \in DOMAIN orders
      PROVE  /\ MatchedTo(orders[i], m.orders[i], side, t)
             /\ orders[i].filled \in Nat /\ orders[i].quantity \in Nat
             /\ m.orders[i].filled \in Nat /\ m.orders[i].quantity \in Nat
    BY <1>1, <1>3, <1>4, OrdersTyped, MatchingTyped DEF MatchFrame
<1>6. ASSUME NEW i \in DOMAIN orders, orders[i].side = "BUY", orders[i].status \in Active
      PROVE  Offered(B, m.orders, m.fdusd, r)
    <2>1. m.orders[i].side = "BUY"
        BY <1>5, <1>6 DEF MatchedTo
    <2>2. CASE m.orders[i].status \in Active
        BY <1>4, <2>1, <2>2 DEF Offered, Working
    <2>3. CASE m.orders[i].status \notin Active
        <3>1. m.orders[i].status = "FILLED" /\ orders[i].status # "FILLED"
            BY <1>5, <1>6, <2>3 DEF MatchedTo, Active, Fillable
        <3>2. PICK k \in DOMAIN m.fills : m.fills[k] = <<i, TRUE>>
            BY <1>1, <3>1 DEF MatchNoted
        <3>3. PICK j \in DOMAIN B : /\ B[j].kind = "FILL_NOTICE" /\ B[j].order = m.fills[k][1]
                                    /\ B[j].completes = m.fills[k][2]
            BY <1>2 DEF AllNoticed
        <3>4. B[j].order = i /\ B[j].completes
            BY <3>2, <3>3
        <3>5. NoticeComes(B, m.orders)
            BY <2>1, <3>3, <3>4 DEF NoticeComes
        <3>6. QED BY <3>5 DEF Offered
    <2>4. QED BY <2>2, <2>3
<1>7. CASE Working(orders, "BUY") # {}
    <2>1. PICK i \in DOMAIN orders : orders[i].side = "BUY" /\ orders[i].status \in Active
        BY <1>7 DEF Working
    <2>2. QED BY <1>6, <2>1
<1>8. CASE m.fdusd = 0 \/ r
    BY <1>8 DEF Offered
<1>9. CASE Working(orders, "BUY") = {} /\ m.fdusd # 0
    <2>1. m.fdusd <= fdusd /\ (side = "BUY" => m.fdusd = fdusd)
        BY <1>1, <1>3, <1>9 DEF MatchOffers, Side
    <2>2. fdusd # 0
        BY <1>3, <1>4, <1>9, <2>1
    <2>3. CASE \E i \in DOMAIN orders : orders[i].status \in Closed \ {"FILLED"}
        <3>1. PICK i \in DOMAIN orders : orders[i].status \in Closed \ {"FILLED"}
            BY <2>3
        <3>2. m.orders[i].status \in Closed \ {"FILLED"}
            BY <1>5, <3>1 DEF MatchedTo, Closed, Fillable
        <3>3. QED BY <1>4, <3>2 DEF Offered
    <2>4. CASE NoticeComes(agenda, orders)
        <3>1. PICK k \in DOMAIN agenda : /\ agenda[k].kind = "FILL_NOTICE" /\ agenda[k].completes
                                         /\ orders[agenda[k].order].side = "BUY"
            BY <2>4 DEF NoticeComes
        <3>2. k # 0
            BY <1>3
        <3>3. PICK j \in DOMAIN B : B[j] = agenda[k]
            BY <1>2, <3>2 DEF Keeps
        <3>4. agenda[k].order \in DOMAIN orders
            BY <1>3, <3>1 DEF AgendaOK, Belongs
        <3>5. m.orders[agenda[k].order].side = "BUY"
            BY <1>5, <3>1, <3>4 DEF MatchedTo
        <3>6. NoticeComes(B, m.orders)
            BY <3>1, <3>3, <3>5 DEF NoticeComes
        <3>7. QED BY <3>6 DEF Offered
    <2>5. CASE \E i \in Working(orders, "SELL") : Left(orders[i]) >= fdusd
        <3>1. PICK i \in DOMAIN orders : /\ orders[i].side = "SELL" /\ orders[i].status \in Active
                                         /\ Left(orders[i]) >= fdusd
            BY <2>5 DEF Working
        <3>2. m.orders[i].side = "SELL" /\ m.orders[i].quantity = orders[i].quantity
            BY <1>5, <3>1 DEF MatchedTo
        <3>3. Left(m.orders[i]) >= m.fdusd
            <4>1. CASE side = "BUY"
                <5>1. m.orders[i].filled = orders[i].filled
                    BY <1>5, <3>1, <4>1 DEF MatchedTo
                <5>2. QED BY <2>1, <3>1, <3>2, <4>1, <5>1 DEF Left
            <4>2. CASE side = "SELL"
                <5>1. m.fdusd - Left(m.orders[i]) <= fdusd - Left(orders[i])
                    BY <1>1, <3>1, <4>2 DEF MatchOffers
                <5>2. Left(m.orders[i]) \in Int /\ Left(orders[i]) \in Int
                    BY <1>5 DEF Left
                <5>3. QED BY <1>3, <1>4, <3>1, <5>1, <5>2
            <4>3. QED BY <4>1, <4>2 DEF Side
        <3>4. m.orders[i].status \in Active
            <4>1. CASE m.orders[i].status = "FILLED"
                <5>1. m.orders[i].filled = m.orders[i].quantity
                    BY <1>5, <3>1, <4>1 DEF MatchedTo, Active, Fillable
                <5>2. Left(m.orders[i]) = 0
                    BY <1>5, <5>1 DEF Left
                <5>3. QED BY <1>4, <1>9, <3>3, <5>2
            <4>2. CASE m.orders[i].status # "FILLED"
                BY <1>5, <3>1, <4>2 DEF MatchedTo, Active, Fillable
            <4>3. QED BY <4>1, <4>2
        <3>5. QED BY <1>4, <3>2, <3>3, <3>4 DEF Offered, Working
    <2>6. CASE raised
        BY <2>6 DEF Offered
    <2>7. QED BY <1>3, <1>9, <2>2, <2>3, <2>4, <2>5, <2>6 DEF Offered
<1>10. QED BY <1>7, <1>8, <1>9

\* A trade at a level of the strategy.
LEMMA MarketTradeKeeps == IInv /\ MarketTrade => Core'
<1> SUFFICES ASSUME IInv, MarketTrade PROVE Core'
    OBVIOUS
<1>1. TypeOK /\ LedgerFollowsFills /\ Core
    BY IInvIsCore DEF IInv
<1>2. PICK t \in 0..MaxTime, side \in Side, quantity \in 1..MaxPrint :
        LET m == Match(side, quantity, t)
        IN  /\ orders' = m.orders /\ usdc' = m.usdc /\ fdusd' = m.fdusd /\ raised' = m.raised
            /\ agenda' = agenda \o NoticesOf(m.fills, t)
            /\ ~ raised
    BY DEF MarketTrade, NoticesOf, Market, PopsInput
<1> DEFINE m == Match(side, quantity, t)
<1>3. t \in Nat /\ quantity \in Nat
    OBVIOUS
<1>4. Matching(m, side, quantity, t, Len(orders))
    BY <1>1, <1>3, MatchKeeps
<1>5. orders' = m.orders /\ usdc' = m.usdc /\ fdusd' = m.fdusd /\ raised' = m.raised
    BY <1>2
<1>6. Noticed(agenda', m.fills, t)
    BY <1>2 DEF Noticed
<1>7. raised => raised'
    BY <1>2
<1> HIDE DEF m
<1>8. Base(agenda', m.orders, m.usdc, m.fdusd)
    BY <1>3, <1>4, <1>6, MatchedBase
<1>9. Offered(agenda', m.orders, m.fdusd, raised')
    BY <1>3, <1>4, <1>6, <1>7, MatchedOffered
<1>10. QED BY <1>5, <1>8, <1>9 DEF Core

\* A level of the book after a print of this size.
LEMMA BookAfterPrint ==
    ASSUME NEW b \in Books, NEW side \in Side, NEW q \in Nat, b.depth[side] > 0
    PROVE  [b EXCEPT !.depth[side] = IF @ > q THEN @ - q ELSE 0] \in Books
<1> DEFINE d == [b.depth EXCEPT ![side] = IF @ > q THEN @ - q ELSE 0]
           p == [b EXCEPT !.depth = d]
<1>1. /\ b.depth \in [Side -> 0..MaxDepth] /\ b.opposed \in SUBSET Side /\ b.opposed # Side
      /\ \A x \in b.opposed : b.depth[x] = 0
      /\ b \in [depth : [Side -> 0..MaxDepth], opposed : SUBSET Side] /\ MaxDepth \in Nat
    BY PassiveAssumption DEF Books
<1>2. d \in [Side -> 0..MaxDepth]
    <2>1. (IF b.depth[side] > q THEN b.depth[side] - q ELSE 0) \in 0..MaxDepth
        BY <1>1
    <2>2. QED BY <1>1, <2>1
<1>3. side \notin b.opposed
    BY <1>1
<1>4. \A x \in b.opposed : d[x] = 0
    BY <1>1, <1>3
<1> HIDE DEF d
<1>5. p.depth = d /\ p.opposed = b.opposed
      /\ p \in [depth : [Side -> 0..MaxDepth], opposed : SUBSET Side]
    BY <1>1, <1>2
<1>6. p \in Books
    BY <1>1, <1>4, <1>5 DEF Books
<1>7. [b EXCEPT !.depth[side] = IF @ > q THEN @ - q ELSE 0] = p
    BY <1>1 DEF d
<1>8. QED BY <1>6, <1>7

\* A book that loses opponents.
LEMMA BookLosesOpponents ==
    ASSUME NEW b \in Books, NEW kept \in SUBSET b.opposed
    PROVE  [b EXCEPT !.opposed = kept] \in Books
<1> DEFINE p == [b EXCEPT !.opposed = kept]
<1>1. /\ b \in [depth : [Side -> 0..MaxDepth], opposed : SUBSET Side]
      /\ b.opposed \in SUBSET Side /\ b.opposed # Side /\ \A x \in b.opposed : b.depth[x] = 0
    BY DEF Books
<1>2. p \in [depth : [Side -> 0..MaxDepth], opposed : SUBSET Side] /\ p.opposed = kept /\ p.depth = b.depth
    BY <1>1
<1> HIDE DEF p
<1>3. p \in Books
    BY <1>1, <1>2 DEF Books
<1>4. QED BY <1>3 DEF p

\* A market event advances the clock and the tape.
LEMMA MarketClock ==
    ASSUME NEW t \in 0..MaxTime, NEW print \in 0..MaxPrint, Market(t, print),
           tape \in [events : 0..MaxEvents, cancels : 0..MaxCancels]
    PROVE  /\ clock' \in [at : Nat, class : 0..2, print : 0..MaxPrint]
           /\ clock'.print = print /\ clock'.at = t
           /\ tape' \in [events : 0..MaxEvents, cancels : 0..MaxCancels]
<1>1. clock' = [at |-> t, class |-> 0, print |-> print] /\ t \in Nat
    BY DEF Market, Class
<1>2. tape' = [tape EXCEPT !.events = @ + 1] /\ tape.events < MaxEvents
    BY DEF Market
<1>3. tape.events + 1 \in 0..MaxEvents
    BY <1>2, PassiveAssumption
<1>4. QED BY <1>1, <1>2, <1>3

\* A pop of the agenda advances the clock.
LEMMA PopsClock ==
    ASSUME Core, NEW i \in DOMAIN agenda, NEW kind, Pops(i, kind)
    PROVE  /\ clock' \in [at : Nat, class : 0..2, print : 0..MaxPrint]
           /\ clock'.print = 0 /\ UNCHANGED tape
<1>1. agenda[i].at \in Nat
    <2>1. agenda \in Seq(ItemOf(Len(orders)))
        BY DEF Core, Base, AgendaOK, Belongs
    <2>2. agenda[i] \in ItemOf(Len(orders))
        BY <2>1
    <2>3. QED BY <2>2 DEF ItemOf
<1>2. clock' = [at |-> agenda[i].at, class |-> 2, print |-> 0] /\ UNCHANGED tape
    BY DEF Pops, Class
<1>3. 0 \in 0..MaxPrint
    BY PassiveAssumption
<1>4. QED BY <1>1, <1>2, <1>3

\* The other variables keep their types, whatever happens.
LEMMA RestKeeps == IInv /\ Next => Rest'
<1> SUFFICES ASSUME IInv, Next PROVE Rest'
    OBVIOUS
<1>1. Rest /\ Core /\ TypeOK /\ LedgerFollowsFills
    BY IInvIsCore DEF IInv
<1>2. /\ tape \in [events : 0..MaxEvents, cancels : 0..MaxCancels] /\ book \in Books
      /\ {bookValid, strategyValid, halted, raised} \subseteq BOOLEAN /\ 0 \in 0..MaxPrint
    BY <1>1, PassiveAssumption DEF Rest
<1>3. CASE MarketSnapshot
    <2>1. PICK t \in 0..MaxTime, b \in Books : Market(t, 0) /\ book' = b
        BY <1>3 DEF MarketSnapshot
    <2>2. bookValid' = TRUE /\ UNCHANGED <<strategyValid, halted, raised>>
        BY <1>3 DEF MarketSnapshot
    <2>3. QED BY <1>2, <2>1, <2>2, MarketClock DEF Rest
<1>4. CASE MarketDelta
    <2>1. PICK t \in 0..MaxTime, b \in Books, continues \in BOOLEAN :
              Market(t, 0) /\ bookValid' = (bookValid /\ continues)
              /\ book' = IF bookValid' THEN b ELSE book
        BY <1>4 DEF MarketDelta
    <2>2. UNCHANGED <<strategyValid, halted, raised>>
        BY <1>4 DEF MarketDelta
    <2>3. QED BY <1>2, <2>1, <2>2, MarketClock DEF Rest
<1>5. CASE MarketGap \/ MarketHalt
    <2>1. PICK t \in 0..MaxTime : Market(t, 0)
        BY <1>5 DEF MarketGap, MarketHalt
    <2>2. bookValid' \in {FALSE, bookValid} /\ UNCHANGED <<book, strategyValid, halted, raised>>
        BY <1>5 DEF MarketGap, MarketHalt
    <2>3. QED BY <1>2, <2>1, <2>2, MarketClock DEF Rest
<1>6. CASE MarketTradeElsewhere
    <2>1. PICK t \in 0..MaxTime, kept \in SUBSET book.opposed :
              Market(t, 0) /\ book' = [book EXCEPT !.opposed = kept]
        BY <1>6 DEF MarketTradeElsewhere
    <2>2. UNCHANGED <<bookValid, strategyValid, halted, raised>>
        BY <1>6 DEF MarketTradeElsewhere
    <2>3. book' \in Books
        BY <1>2, <2>1, BookLosesOpponents
    <2>4. QED BY <1>2, <2>1, <2>2, <2>3, MarketClock DEF Rest
<1>7. CASE MarketTrade
    <2>1. PICK t \in 0..MaxTime, side \in Side, quantity \in 1..MaxPrint :
              /\ Market(t, quantity) /\ book.depth[side] > 0
              /\ raised' = Match(side, quantity, t).raised
              /\ book' = [book EXCEPT !.depth[side] = IF @ > quantity THEN @ - quantity ELSE 0]
        BY <1>7 DEF MarketTrade
    <2>2. UNCHANGED <<bookValid, strategyValid, halted>>
        BY <1>7 DEF MarketTrade
    <2>3. book' \in Books
        <3>1. quantity \in Nat
            OBVIOUS
        <3>2. QED BY <1>2, <2>1, <3>1, BookAfterPrint
    <2>4. raised' \in BOOLEAN
        <3>1. t \in Nat /\ quantity \in Nat
            OBVIOUS
        <3>2. Match(side, quantity, t) \in MatchState
            BY <1>1, <3>1, MatchKeeps DEF Matching, MatchTyped
        <3>3. QED BY <2>1, <3>2 DEF MatchState
    <2>5. quantity \in 0..MaxPrint
        OBVIOUS
    <2>6. QED BY <1>2, <2>1, <2>2, <2>3, <2>4, <2>5, MarketClock DEF Rest
<1>8. CASE DeliverMarket
    <2>1. PICK i \in DOMAIN agenda :
              /\ Pops(i, "DELIVER_MARKET") /\ halted' = (halted \/ agenda[i].event = "HALT")
              /\ strategyValid' = CASE agenda[i].event = "GAP" -> FALSE
                                    [] agenda[i].event = "SNAPSHOT" -> TRUE
                                    [] agenda[i].event = "DELTA" -> strategyValid /\ bookValid
                                    [] agenda[i].event = "HALT" -> strategyValid
        BY <1>8 DEF DeliverMarket
    <2>2. UNCHANGED <<book, bookValid, raised>>
        BY <1>8 DEF DeliverMarket
    <2>3. strategyValid' \in BOOLEAN
        <3>1. agenda \in Seq(ItemOf(Len(orders))) /\ Belongs(agenda[i], orders)
            BY <1>1, <2>1 DEF Core, Base, AgendaOK
        <3>2. agenda[i] \in ItemOf(Len(orders)) /\ agenda[i].event # "NONE"
            BY <2>1, <3>1 DEF Belongs, Pops
        <3>3. agenda[i].event \in {"SNAPSHOT", "DELTA", "GAP", "HALT"}
            BY <3>2 DEF ItemOf
        <3>4. QED BY <1>2, <2>1, <3>3
    <2>4. QED BY <1>1, <1>2, <2>1, <2>2, <2>3, PopsClock DEF Rest
<1>9. CASE FillNotice
    <2>1. PICK i \in DOMAIN agenda : Pops(i, "FILL_NOTICE")
        BY <1>9 DEF FillNotice
    <2>2. UNCHANGED <<book, bookValid, strategyValid, halted>>
        BY <1>9 DEF FillNotice
    <2>3. raised' \in {raised, TRUE}
        BY <1>9 DEF FillNotice, NoticeBuy, NoticeSell
    <2>4. QED BY <1>1, <1>2, <2>1, <2>2, <2>3, PopsClock DEF Rest
<1>10. CASE OrderArrival \/ CancelEffective
    <2>1. PICK i \in DOMAIN agenda, kind \in {"ORDER_ARRIVAL", "CANCEL_EFFECTIVE"} : Pops(i, kind)
        BY <1>10 DEF OrderArrival, CancelEffective
    <2>2. UNCHANGED <<book, bookValid, strategyValid, halted, raised>>
        BY <1>10 DEF OrderArrival, CancelEffective
    <2>3. QED BY <1>1, <1>2, <2>1, <2>2, PopsClock DEF Rest
<1>11. CASE CancelRequest
    <2>1. PICK t \in 0..MaxTime :
              /\ clock' = [at |-> t, class |-> Class.cancel, print |-> 0]
              /\ tape.cancels < MaxCancels /\ tape' = [tape EXCEPT !.cancels = @ + 1]
        BY <1>11 DEF CancelRequest
    <2>2. UNCHANGED <<book, bookValid, strategyValid, halted, raised>>
        BY <1>11 DEF CancelRequest
    <2>3. t \in Nat /\ clock' = [at |-> t, class |-> 1, print |-> 0]
        BY <2>1 DEF Class
    <2>4. tape.cancels + 1 \in 0..MaxCancels
        BY <1>2, <2>1, PassiveAssumption
    <2>5. tape' \in [events : 0..MaxEvents, cancels : 0..MaxCancels]
        BY <1>2, <2>1, <2>4
    <2>6. clock' \in [at : Nat, class : 0..2, print : 0..MaxPrint]
        BY <1>2, <2>3
    <2>7. QED BY <1>2, <2>2, <2>5, <2>6 DEF Rest
<1>12. QED BY <1>3, <1>4, <1>5, <1>6, <1>7, <1>8, <1>9, <1>10, <1>11 DEF Next

\* The invariant holds before the first event.
LEMMA Initially == Init => IInv
<1> SUFFICES ASSUME Init PROVE IInv
    OBVIOUS
<1> USE DEF Init
<1>1. Rest
    <2>1. clock = [at |-> 0, class |-> 0, print |-> 0]
        BY DEF Class
    <2>2. 0 \in 0..MaxPrint /\ 0 \in 0..MaxDepth /\ 0 \in 0..MaxEvents /\ 0 \in 0..MaxCancels
        BY PassiveAssumption
    <2>3. book \in Books
        <3>1. {} # Side
            BY DEF Side
        <3>2. book \in [depth : [Side -> 0..MaxDepth], opposed : SUBSET Side] /\ book.opposed = {}
            BY <2>2
        <3>3. ASSUME NEW b \in [depth : [Side -> 0..MaxDepth], opposed : SUBSET Side], b.opposed = {}
              PROVE  b \in Books
            BY <3>1, <3>3 DEF Books
        <3>4. QED BY <3>2, <3>3
    <2>4. bookValid = FALSE /\ strategyValid = FALSE /\ halted = FALSE /\ raised = FALSE
          /\ tape \in [events : 0..MaxEvents, cancels : 0..MaxCancels]
          /\ clock \in [at : Nat, class : 0..2, print : 0..MaxPrint]
        BY <2>1, <2>2
    <2> HIDE DEF Init
    <2>5. QED BY <2>3, <2>4 DEF Rest
<1>2. Core
    <2>1. OrdersOK(orders) /\ AgendaOK(agenda, orders) /\ CancelsCome(agenda, orders)
        BY DEF OrdersOK, AgendaOK, CancelsCome
    <2>2. usdc \in Nat /\ fdusd \in Nat
        BY PassiveAssumption
    <2>3. LedgerOf(orders, usdc, fdusd)
        <3>1. ASSUME NEW side PROVE Traded(orders, side) = 0
            <4> DEFINE h == FilledOf(orders, side)
            <4>1. Len(orders) = 0 /\ DOMAIN orders = {}
                OBVIOUS
            <4>2. Masked({}, h) \in [Nat -> Int] /\ 0 \in Nat
                BY MaskedType
            <4>3. Sigma(Masked({}, h))[0] = 0
                BY <4>2, SigmaEquation
            <4>4. QED BY <4>1, <4>3 DEF Traded, Total
        <3>2. QED BY <2>2, <3>1, PassiveAssumption DEF LedgerOf
    <2>4. QED BY <2>1, <2>2, <2>3 DEF Core, Base, Offered
<1>3. QED BY <1>1, <1>2, IInvIsCore

\* The invariant is inductive.
LEMMA Inductive == Spec => []IInv
<1>1. IInv /\ [Next]_vars => IInv'
    <2> SUFFICES ASSUME IInv, [Next]_vars PROVE IInv'
        OBVIOUS
    <2>1. Rest /\ Core /\ book \in Books
        BY IInvIsCore DEF Rest
    <2>2. CASE Next
        <3>1. Core'
            <4>1. CASE MarketSnapshot \/ MarketDelta \/ MarketGap \/ MarketHalt \/ MarketTradeElsewhere
                BY <2>1, <4>1, MarketKeeps
            <4>2. CASE MarketTrade
                BY <4>2, MarketTradeKeeps
            <4>3. CASE DeliverMarket
                BY <2>1, <4>3, DeliverMarketKeeps
            <4>4. CASE FillNotice
                BY <2>1, <4>4, FillNoticeKeeps
            <4>5. CASE OrderArrival
                BY <2>1, <4>5, OrderArrivalKeeps
            <4>6. CASE CancelRequest
                BY <2>1, <4>6, CancelRequestKeeps
            <4>7. CASE CancelEffective
                BY <2>1, <4>7, CancelEffectiveKeeps
            <4>8. QED BY <2>2, <4>1, <4>2, <4>3, <4>4, <4>5, <4>6, <4>7 DEF Next
        <3>2. Rest'
            BY <2>2, RestKeeps
        <3>3. QED BY <3>1, <3>2, IInvIsCorePrimed
    <2>3. CASE UNCHANGED vars
        <3>1. UNCHANGED <<clock, agenda, book, bookValid, strategyValid, halted, orders, usdc, fdusd,
                          raised, tape>>
            BY <2>3 DEF vars
        <3>2. Core'
            BY <2>1, <3>1 DEF Core
        <3>3. Rest'
            BY <2>1, <3>1 DEF Rest
        <3>4. QED BY <3>2, <3>3, IInvIsCorePrimed
    <2>4. QED BY <2>2, <2>3
<1>2. QED BY Initially, <1>1, PTL DEF Spec

\* Every variable keeps its type: the ledger never shows less than nothing, no
\* order is filled beyond its quantity.
THEOREM TypeCorrect == Spec => []TypeOK
<1>1. IInv => TypeOK
    BY DEF IInv
<1>2. QED BY Inductive, <1>1, PTL

\* The money and the inventory are the initial money moved by the fills of all
\* orders, whatever orders shared a print (_match_trade, _apply_fill).
THEOREM LedgerIsItsFills == Spec => []LedgerFollowsFills
<1>1. IInv => LedgerFollowsFills
    BY DEF IInv
<1>2. QED BY Inductive, <1>1, PTL

\* A requested cancel stays requested and scheduled until the order is closed
\* (_on_cancel_request, _apply_fill, _on_cancel_effective).
THEOREM CancelsTakeEffect == Spec => []CancelIsNotLost
<1>1. IInv => CancelIsNotLost
    BY DEF IInv
<1>2. QED BY Inductive, <1>1, PTL

\* Inventory that no order works and no notice will offer is there because the
\* exchange refused or canceled an order (_on_fill_notice, _consider_s0_order).
THEOREM InventoryStranded == Spec => []StrandedOnlyByExchange
<1>1. IInv => StrandedOnlyByExchange
    <2> SUFFICES ASSUME InventoryIsOffered, fdusd > 0, ~ raised,
                        ~ \E side \in Side : HasActive(side),
                        \A k \in DOMAIN agenda : agenda[k].kind # "FILL_NOTICE"
                 PROVE  \E i \in DOMAIN orders : orders[i].status \in Closed \ {"FILLED"}
        BY DEF IInv, StrandedOnlyByExchange
    <2>1. Working(orders, "BUY") = {} /\ Working(orders, "SELL") = {}
        BY DEF Working, HasActive, Side
    <2>2. ~ NoticeComes(agenda, orders)
        BY DEF NoticeComes
    <2>3. QED BY <2>1, <2>2 DEF InventoryIsOffered
<1>2. QED BY Inductive, <1>1, PTL

-----------------------------------------------------------------------------
(* E. What a step may never do.                                            *)

\* The order o may be added now: a BUY only while the strategy is not halted.
MayAdd(o) == Pending(o) /\ (o.side = "BUY" => ~ halted)

\* From O to P no print is matched.
NoPrint(O, P) ==
    \/ P = O
    \/ \E o : MayAdd(o) /\ Extends(P, O, o)
    \/ \E i, o : Becomes(O, P, i, o) /\ o.queue >= O[i].queue

\* _new_order adds one order of that side.
LEMMA NewOrderAdds ==
    ASSUME NEW queue, NEW side \in Side, NEW quantity \in Nat \ {0}, NEW now \in Nat,
           NewOrder(queue, side, quantity, now), side = "BUY" => ~ halted
    PROVE  NoPrint(orders, orders')
<1> DEFINE arrival == now + DecisionLatency + SubmitLatency
           o == [side |-> side, quantity |-> quantity, filled |-> 0, queue |-> 0,
                 status |-> "PENDING", arrival |-> arrival, cancelAt |-> 0]
<1>1. arrival \in Nat
    BY PassiveAssumption
<1>2. Extends(orders', orders, o)
    BY DEF NewOrder, Extends
<1> HIDE DEF arrival
<1>3. MayAdd(o)
    BY <1>1 DEF MayAdd, Pending, OrderType, Active
<1> HIDE DEF o
<1>4. QED BY <1>2, <1>3 DEF NoPrint

\* Every step but the match of a print.
LEMMA NoPrintElsewhere == IInv /\ Next /\ ~ MarketTrade => NoPrint(orders, orders')
<1> SUFFICES ASSUME IInv, Next, ~ MarketTrade PROVE NoPrint(orders, orders')
    OBVIOUS
<1>1. /\ Rest /\ Core /\ orders \in Seq(OrderType) /\ agenda \in Seq(ItemOf(Len(orders)))
      /\ usdc \in Nat /\ fdusd \in Nat
    BY IInvIsCore DEF Core, Base, OrdersOK, AgendaOK
<1>2. \A i \in DOMAIN agenda : agenda[i].at \in Nat
    <2>1. \A i \in DOMAIN agenda : agenda[i] \in ItemOf(Len(orders))
        BY <1>1
    <2>2. QED BY <2>1 DEF ItemOf
<1>3. "BUY" \in Side /\ "SELL" \in Side /\ "BUY" # "SELL"
    BY DEF Side
<1>4. CASE UNCHANGED orders
    BY <1>4 DEF NoPrint
<1>5. CASE MarketSnapshot \/ MarketDelta \/ MarketGap \/ MarketHalt \/ MarketTradeElsewhere
    BY <1>4, <1>5 DEF MarketSnapshot, MarketDelta, MarketGap, MarketHalt, MarketTradeElsewhere
<1>6. CASE DeliverMarket
    <2>1. PICK i \in DOMAIN agenda :
              UNCHANGED orders \/ Consider(RemoveAt(agenda, i), agenda[i].at)
        BY <1>6 DEF DeliverMarket
    <2>2. CASE MayBuy /\ NewOrder(RemoveAt(agenda, i), "BUY", NextBuyQuantity, agenda[i].at)
        <3>1. NextBuyQuantity \in Nat \ {0} /\ ~ halted
            BY <1>1, <2>2, NextBuyType DEF MayBuy
        <3>2. QED BY <1>2, <1>3, <2>2, <3>1, NewOrderAdds
    <2>3. QED BY <1>4, <2>1, <2>2 DEF Consider
<1>7. CASE FillNotice
    <2>1. PICK i \in DOMAIN agenda :
              NoticeBuy(RemoveAt(agenda, i), agenda[i]) \/ NoticeSell(RemoveAt(agenda, i), agenda[i])
        BY <1>7 DEF FillNotice
    <2>2. CASE fdusd > 0 /\ NewOrder(RemoveAt(agenda, i), "SELL", fdusd, agenda[i].at)
        <3>1. fdusd \in Nat \ {0}
            BY <1>1, <2>2
        <3>2. QED BY <1>2, <1>3, <2>2, <3>1, NewOrderAdds
    <2>3. CASE ~ halted /\ NextBuyQuantity > 0
               /\ NewOrder(RemoveAt(agenda, i), "BUY", NextBuyQuantity, agenda[i].at)
        <3>1. NextBuyQuantity \in Nat \ {0}
            BY <1>1, <2>3, NextBuyType
        <3>2. QED BY <1>2, <1>3, <2>3, <3>1, NewOrderAdds
    <2>4. CASE NoticeBuy(RemoveAt(agenda, i), agenda[i])
        BY <1>4, <2>2, <2>4 DEF NoticeBuy
    <2>5. CASE NoticeSell(RemoveAt(agenda, i), agenda[i])
        BY <1>4, <2>3, <2>5 DEF NoticeSell
    <2>6. QED BY <2>1, <2>4, <2>5
<1>8. CASE OrderArrival
    <2>1. PICK i \in DOMAIN agenda :
            /\ agenda[i].kind = "ORDER_ARRIVAL"
            /\ orders' = IF orders[agenda[i].order].status = "PENDING"
                         THEN [orders EXCEPT ![agenda[i].order] = Arrived(orders[agenda[i].order])]
                         ELSE orders
        BY <1>8 DEF OrderArrival, Pops
    <2> DEFINE o == agenda[i].order  p == Arrived(orders[o])
    <2>2. CASE orders[o].status = "PENDING"
        <3>1. o \in DOMAIN orders
            BY <1>1, <2>1 DEF Core, Base, AgendaOK, Belongs
        <3>2. orders[o] \in OrderType /\ orders[o].queue = 0
            BY <1>1, <2>2, <3>1 DEF Core, Base, OrdersOK
        <3>3. QueueMultiplier * book.depth[orders[o].side] \in Nat
            <4>1. book.depth[orders[o].side] \in Nat
                <5>1. book \in Books /\ orders[o].side \in Side
                    BY <1>1, <3>2 DEF Rest, OrderType
                <5>2. QED BY <5>1 DEF Books
            <4>2. QED BY <4>1, PassiveAssumption
        <3>4. {"OPEN", "REJECTED_POST_ONLY", "REJECTED_NO_OBSERVED_QUEUE_COVERAGE"}
                  \subseteq (Active \union Closed) \ {"PENDING"}
            BY DEF Active, Fillable, Closed
        <3>a. /\ p \in OrderType /\ p.side = orders[o].side /\ p.filled = orders[o].filled
              /\ p.quantity = orders[o].quantity /\ p.status # "PENDING"
            BY <3>2, <3>3, <3>4 DEF Arrived, OrderType
        <3>b. p.queue \in Nat
            BY <3>a DEF OrderType
        <3>5. /\ p \in OrderType /\ p.side = orders[o].side /\ p.filled = orders[o].filled
              /\ p.quantity = orders[o].quantity /\ p.status # "PENDING" /\ p.queue >= orders[o].queue
            <4> HIDE DEF p
            <4>1. QED BY <3>2, <3>a, <3>b
        <3>6. orders' = [orders EXCEPT ![o] = p]
            BY <2>1, <2>2
        <3> HIDE DEF o, p
        <3>7. Becomes(orders, orders', o, p)
            BY <3>1, <3>5, <3>6 DEF Becomes
        <3>8. QED BY <3>5, <3>7 DEF NoPrint
    <2>3. QED BY <1>4, <2>1, <2>2
<1>9. CASE CancelRequest
    <2>1. PICK t \in 0..MaxTime, o \in DOMAIN orders :
              IF orders[o].status \in Fillable
              THEN orders' = [orders EXCEPT ![o].status = "CANCEL_PENDING",
                                            ![o].cancelAt = t + CancelLatency]
              ELSE UNCHANGED orders
        BY <1>9 DEF CancelRequest
    <2>2. CASE orders[o].status \in Fillable
        <3> DEFINE p == [orders[o] EXCEPT !.status = "CANCEL_PENDING", !.cancelAt = t + CancelLatency]
        <3>1. orders[o] \in OrderType /\ t + CancelLatency \in Nat
            BY <1>1, PassiveAssumption
        <3>2. orders' = [orders EXCEPT ![o] = p]
            BY <1>1, <2>1, <2>2
        <3>3. /\ p \in OrderType /\ p.side = orders[o].side /\ p.filled = orders[o].filled
              /\ p.quantity = orders[o].quantity /\ p.status # "PENDING" /\ p.queue >= orders[o].queue
            <4>1. "CANCEL_PENDING" \in Active \union Closed
                BY DEF Active, Fillable
            <4>2. orders[o].queue \in Nat
                BY <3>1 DEF OrderType
            <4>3. p.status = "CANCEL_PENDING" /\ p.queue = orders[o].queue
                BY <3>1 DEF OrderType
            <4>4. /\ p \in OrderType /\ p.side = orders[o].side /\ p.filled = orders[o].filled
                  /\ p.quantity = orders[o].quantity
                BY <3>1, <4>1 DEF OrderType
            <4>5. QED BY <4>2, <4>3, <4>4
        <3> HIDE DEF p
        <3>4. Becomes(orders, orders', o, p)
            BY <3>2, <3>3 DEF Becomes
        <3>5. QED BY <3>3, <3>4 DEF NoPrint
    <2>3. QED BY <1>4, <2>1, <2>2
<1>10. CASE CancelEffective
    <2>1. PICK i \in DOMAIN agenda :
            /\ agenda[i].kind = "CANCEL_EFFECTIVE"
            /\ \/ orders' = [orders EXCEPT ![agenda[i].order].status = "CANCELED"]
               \/ UNCHANGED orders
        BY <1>10 DEF CancelEffective, Pops
    <2> DEFINE o == agenda[i].order  p == [orders[o] EXCEPT !.status = "CANCELED"]
    <2>2. CASE orders' = [orders EXCEPT ![o].status = "CANCELED"]
        <3>1. o \in DOMAIN orders /\ orders[o] \in OrderType
            BY <1>1, <2>1 DEF Core, Base, AgendaOK, Belongs
        <3>2. orders' = [orders EXCEPT ![o] = p]
            BY <1>1, <2>2, <3>1
        <3>3. /\ p \in OrderType /\ p.side = orders[o].side /\ p.filled = orders[o].filled
              /\ p.quantity = orders[o].quantity /\ p.status # "PENDING" /\ p.queue >= orders[o].queue
            BY <3>1 DEF OrderType, Closed
        <3> HIDE DEF p, o
        <3>4. Becomes(orders, orders', o, p)
            BY <3>1, <3>2, <3>3 DEF Becomes
        <3>5. QED BY <3>3, <3>4 DEF NoPrint
    <2>3. QED BY <1>4, <2>1, <2>2
<1>11. QED BY <1>5, <1>6, <1>7, <1>8, <1>9, <1>10 DEF Next

\* Where no print is matched, nothing is filled and nothing more is served.
LEMMA NoPrintServes ==
    ASSUME OrdersOK(orders), NEW P, NoPrint(orders, P)
    PROVE  /\ Served(P) \in Int /\ Served(P) <= Served(orders)
           /\ \A i \in DOMAIN orders : P[i].filled = orders[i].filled
<1>1. orders \in Seq(OrderType) /\ Served(orders) \in Int
    BY ServedType DEF OrdersOK
<1>2. CASE P = orders
    BY <1>1, <1>2
<1>3. CASE \E o : MayAdd(o) /\ Extends(P, orders, o)
    <2>1. PICK o : Pending(o) /\ Extends(P, orders, o)
        BY <1>3 DEF MayAdd
    <2>2. o \in OrderType /\ o.filled = 0 /\ o.queue = 0
        BY <2>1 DEF Pending
    <2>3. /\ P \in Seq(OrderType) /\ Len(P) = Len(orders) + 1 /\ Len(orders) \in Nat
          /\ DOMAIN orders = 1..Len(orders) /\ DOMAIN P = 1..(Len(orders) + 1)
          /\ P[Len(orders) + 1] = o /\ \A i \in DOMAIN orders : P[i] = orders[i]
        BY <1>1, <2>1, <2>2 DEF Extends
    <2>4. /\ \A i \in DOMAIN P : i \in DOMAIN orders \/ i = Len(orders) + 1
          /\ DOMAIN orders \subseteq DOMAIN P
        BY <2>3
    <2>5. Upto(DOMAIN orders, Len(orders)) /\ Upto(DOMAIN P, Len(P))
        BY <2>3 DEF Upto
    <2>6. Amounts(DOMAIN P, ServedOf(P))
        BY <2>3, OrdersTyped DEF Amounts, ServedOf
    <2>7. AddsNothing(DOMAIN orders, Len(orders), ServedOf(orders), DOMAIN P, Len(P), ServedOf(P))
        <3>1. \A i \in DOMAIN orders : ServedOf(orders)[i] = ServedOf(P)[i]
            BY <2>3, <2>4 DEF ServedOf
        <3>2. \A i \in DOMAIN P : i \notin DOMAIN orders => ServedOf(P)[i] = 0
            BY <2>2, <2>3, <2>4 DEF ServedOf
        <3>3. Len(P) = Len(orders) + 1
            BY <2>3
        <3>4. QED BY <3>1, <3>2, <3>3 DEF AddsNothing
    <2>8. Served(P) = Served(orders)
        BY <2>5, <2>6, <2>7, TotalOneMore DEF Served
    <2>9. QED BY <1>1, <2>3, <2>8
<1>4. CASE \E i, o : Becomes(orders, P, i, o) /\ o.queue >= orders[i].queue
    <2>1. PICK i, o : Becomes(orders, P, i, o) /\ o.queue >= orders[i].queue
        BY <1>4
    <2>2. /\ i \in DOMAIN orders /\ o \in OrderType /\ P = [orders EXCEPT ![i] = o]
          /\ o.side = orders[i].side /\ o.filled = orders[i].filled
        BY <2>1 DEF Becomes
    <2>3. o.queue \in Nat /\ o.filled \in Nat /\ orders[i].queue \in Nat /\ orders[i].filled \in Nat
        BY <1>1, <2>2, OrdersTyped DEF OrderType
    <2>4. PICK c \in Int : c = orders[i].queue - o.queue
        BY <2>3
    <2>5. c <= 0 /\ o.queue = orders[i].queue - c /\ o.filled = orders[i].filled + 0
        BY <2>1, <2>2, <2>3, <2>4
    <2>6. Given(orders, P, i, o, c, 0)
        BY <1>1, <2>2, <2>5 DEF Given
    <2>7. Served(P) = Served(orders) + c + 0
        BY <2>6, TotalsChange
    <2>8. \A k \in DOMAIN orders : P[k].filled = orders[k].filled
        BY <1>1, <2>2, OneOrderChanges
    <2>9. QED BY <1>1, <2>5, <2>7, <2>8
<1>5. QED BY <1>2, <1>3, <1>4 DEF NoPrint

\* What the match of a print does to the orders.
LEMMA PrintMatched ==
    ASSUME IInv, MarketTrade
    PROVE  QueueBeforeFill /\ PrintSpentOnce /\ Buys' = Buys
<1>1. TypeOK /\ LedgerFollowsFills /\ Rest /\ Core /\ OrdersOK(orders) /\ orders \in Seq(OrderType)
    BY IInvIsCore DEF IInv, Core, Base, OrdersOK
<1>2. PICK t \in 0..MaxTime, side \in Side, quantity \in 1..MaxPrint :
        Market(t, quantity) /\ orders' = Match(side, quantity, t).orders
    BY DEF MarketTrade
<1> DEFINE m == Match(side, quantity, t)
<1>3. t \in Nat /\ quantity \in Nat /\ quantity \in 0..MaxPrint
    OBVIOUS
<1>4. Matching(m, side, quantity, t, Len(orders))
    BY <1>1, <1>3, MatchKeeps
<1>5. orders' = m.orders
    BY <1>2
<1> HIDE DEF m
<1>6. /\ MatchTyped(m) /\ MatchServed(m, quantity) /\ MatchFrame(m, side, t, Len(orders))
    BY <1>4 DEF Matching
<1>7. clock'.at = t /\ clock'.print = quantity
    BY <1>1, <1>2, <1>3, MarketClock DEF Rest
<1>8. QueueBeforeFill
    <2> SUFFICES ASSUME NEW i \in DOMAIN orders, orders'[i].filled > orders[i].filled
                 PROVE  /\ orders'[i].queue = 0 /\ orders[i].arrival < clock'.at
                        /\ orders[i].status \notin Closed
        BY DEF QueueBeforeFill
    <2>1. MatchedTo(orders[i], m.orders[i], side, t)
        BY <1>6 DEF MatchFrame
    <2>2. m.orders[i].queue = 0 /\ orders[i].arrival < t /\ orders[i].status \in Fillable
        BY <1>5, <2>1 DEF MatchedTo
    <2>3. QED BY <1>5, <1>7, <2>2 DEF Fillable, Closed
<1>9. PrintSpentOnce
    <2>1. PICK x \in Int : x = Served(orders)
        BY <1>1, ServedType
    <2>2. m.left \in Nat
        BY <1>1, <1>6, MatchingTyped
    <2>3. Served(m.orders) = x + quantity - m.left
        BY <1>6, <2>1 DEF MatchServed
    <2>4. Served(m.orders) - x <= quantity
        BY <1>3, <2>1, <2>2, <2>3
    <2>5. QED BY <1>5, <1>7, <2>1, <2>4 DEF PrintSpentOnce
<1>10. Buys' = Buys
    <2>1. DOMAIN m.orders = DOMAIN orders
        BY <1>1, <1>6, MatchingTyped
    <2>2. \A i \in DOMAIN orders : m.orders[i].side = orders[i].side
        BY <1>6 DEF MatchFrame, MatchedTo
    <2>3. QED BY <1>5, <2>1, <2>2 DEF Buys
<1>11. QED BY <1>8, <1>9, <1>10

\* Every fill is supported by the recorded market: the queue ahead was used up,
\* the order had arrived before the trade, and all fills of a print together
\* take no more than its size (_match_trade).
THEOREM FillsSupported == Spec => FillsAreCausal
<1>1. IInv /\ [Next]_vars => [QueueBeforeFill /\ PrintSpentOnce]_vars
    <2> SUFFICES ASSUME IInv, Next PROVE QueueBeforeFill /\ PrintSpentOnce
        OBVIOUS
    <2>1. CASE MarketTrade
        BY <2>1, PrintMatched
    <2>2. CASE ~ MarketTrade
        <3>1. /\ Rest /\ Core /\ OrdersOK(orders) /\ orders \in Seq(OrderType)
            BY IInvIsCore DEF Core, Base, OrdersOK
        <3>2. NoPrint(orders, orders')
            BY <2>2, NoPrintElsewhere
        <3>3. /\ Served(orders') \in Int /\ Served(orders') <= Served(orders)
              /\ \A i \in DOMAIN orders : orders'[i].filled = orders[i].filled
            BY <3>1, <3>2, NoPrintServes
        <3>4. Served(orders) \in Int
            BY <3>1, ServedType
        <3>5. clock'.print \in Nat
            <4>1. Rest'
                BY RestKeeps
            <4>2. clock'.print \in 0..MaxPrint
                BY <4>1 DEF Rest
            <4>3. QED BY <4>2
        <3>6. \A i \in DOMAIN orders : ~ (orders'[i].filled > orders[i].filled)
            BY <3>1, <3>3, OrdersTyped
        <3>7. QueueBeforeFill
            BY <3>6 DEF QueueBeforeFill
        <3>8. PrintSpentOnce
            BY <3>3, <3>4, <3>5 DEF PrintSpentOnce
        <3>9. QED BY <3>7, <3>8
    <2>3. QED BY <2>1, <2>2
<1>2. QED BY Inductive, <1>1, PTL DEF Spec, FillsAreCausal

\* After a halt no BUY is placed any more, neither by the book nor by the notice
\* that completes a SELL (_consider_s0_order, _on_fill_notice).
THEOREM HaltKept == Spec => HaltStartsNoCycle
<1>1. IInv /\ [Next]_vars => [halted => Buys' = Buys]_vars
    <2> SUFFICES ASSUME IInv, Next, halted PROVE Buys' = Buys
        OBVIOUS
    <2>1. CASE MarketTrade
        BY <2>1, PrintMatched
    <2>2. CASE ~ MarketTrade
        <3>1. orders \in Seq(OrderType)
            BY IInvIsCore DEF Core, Base, OrdersOK
        <3>2. NoPrint(orders, orders')
            BY <2>2, NoPrintElsewhere
        <3>3. CASE orders' = orders
            BY <3>3 DEF Buys
        <3>4. CASE \E o : MayAdd(o) /\ Extends(orders', orders, o)
            <4>1. PICK o : o \in OrderType /\ o.side # "BUY" /\ orders' = Append(orders, o)
                BY <3>4 DEF MayAdd, Pending, Extends
            <4>2. /\ DOMAIN orders' = 1..(Len(orders) + 1) /\ DOMAIN orders = 1..Len(orders)
                  /\ Len(orders) \in Nat /\ orders'[Len(orders) + 1] = o
                  /\ \A i \in DOMAIN orders : orders'[i] = orders[i]
                BY <3>1, <4>1
            <4>3. \A i \in DOMAIN orders' : i \in DOMAIN orders \/ i = Len(orders) + 1
                BY <4>2
            <4>4. DOMAIN orders \subseteq DOMAIN orders'
                BY <4>2
            <4>5. QED BY <4>1, <4>2, <4>3, <4>4 DEF Buys
        <3>5. CASE \E i, o : Becomes(orders, orders', i, o) /\ o.queue >= orders[i].queue
            <4>1. PICK i, o : Becomes(orders, orders', i, o)
                BY <3>5
            <4>2. /\ DOMAIN orders' = DOMAIN orders /\ i \in DOMAIN orders
                  /\ orders'[i].side = orders[i].side
                  /\ \A k \in DOMAIN orders : k # i => orders'[k] = orders[k]
                BY <3>1, <4>1, OneOrderChanges DEF Becomes
            <4>3. \A k \in DOMAIN orders : orders'[k].side = orders[k].side
                BY <4>2
            <4>4. QED BY <4>2, <4>3 DEF Buys
        <3>6. QED BY <3>2, <3>3, <3>4, <3>5 DEF NoPrint
    <2>3. QED BY <2>1, <2>2
<1>2. QED BY Inductive, <1>1, PTL DEF Spec, HaltStartsNoCycle

=============================================================================
