---------------------------- MODULE CausalQueue ----------------------------
(***************************************************************************)
(* The queue accounting of CausalQueueEstimator, one instance of which     *)
(* every pair engine owns: at each (book, side, price) the displayed       *)
(* public quantity, then the lab's own orders in activation order, each    *)
(* with the public cohort (barrier) that arrived between it and the own    *)
(* order before it.                                                        *)
(*                                                                         *)
(* The nth order ever activated is the number n (activation_sequence + 1); *)
(* own_orders is the set of the orders with the group's key, since         *)
(* activate sorts it by (activated_at_us, activation_sequence) and nothing *)
(* else inserts.  order_group is the id and key of those orders: the code  *)
(* always changes the two together.                                        *)
(*                                                                         *)
(* Left out: what only the estimates read (compatible_flow, first and full *)
(* fill times, waits).                                                     *)
(***************************************************************************)
EXTENDS Integers, FiniteSets, LedgerArithmetic

CONSTANTS
    Book, Side,      \* physical books; {"BUY", "SELL"} or a part of it
    Price,           \* price ticks
    OrderId, EventId,
    MaxActivation,   \* bound: orders activated
    MaxTime,         \* bound: last event time
    OrderQuantity,   \* quantities the callers submit
    Observed,        \* displayed public quantities
    Traded           \* quantities of public trades

ASSUME QueueAssumption ==
    /\ Side \subseteq {"BUY", "SELL"}
    /\ Price \subseteq Nat
    /\ MaxActivation \in Nat /\ MaxTime \in Nat
    /\ OrderQuantity \subseteq Nat \ {0}
    /\ Observed \subseteq Nat /\ Traded \subseteq Nat

Key    == [book: Book, side: Side, price: Price]
Column == {1, 2}
Time   == 0..MaxTime

VARIABLES
    public,      \* key -> public_remaining, over the groups that exist
    orders,      \* number -> OwnQueueOrder, over the orders not cancelled
    processed,   \* processed_event_ids
    sequence,    \* next_activation_sequence
    lastTime     \* last_time_us

vars == <<public, orders, processed, sequence, lastTime>>

OwnQueueOrder ==
    [id: OrderId, key: Key, column: Column, quantity: OrderQuantity,
     remaining: Nat, activated: Time, barrier: Nat]

\* The types, and what _validate_group demands of a group after each change: two
\* own orders with quantity left at most, in different columns.
TypeOK ==
    /\ DOMAIN public \subseteq Key
    /\ public \in [DOMAIN public -> Nat]
    /\ sequence \in 0..MaxActivation
    /\ DOMAIN orders \subseteq 1..sequence
    /\ orders \in [DOMAIN orders -> OwnQueueOrder]
    /\ \A i \in DOMAIN orders : /\ orders[i].remaining <= orders[i].quantity
                                /\ orders[i].key \in DOMAIN public
    /\ \A i, j \in DOMAIN orders :
           /\ orders[i].key = orders[j].key /\ orders[i].column = orders[j].column
           /\ orders[i].remaining > 0 /\ orders[j].remaining > 0
           => i = j
    /\ processed \subseteq EventId
    /\ lastTime \in Time

Init ==
    /\ public = [k \in {} |-> 0]
    /\ orders = [i \in {} |-> 0]
    /\ processed = {}
    /\ sequence = 0
    /\ lastTime = 0

-----------------------------------------------------------------------------
\* _causal: every call first takes its time, also one that is then rejected.
AnyTime(now) == lastTime' = now                   \* faulty: time not compared
Causal(now) == now >= lastTime /\ lastTime' = now

RemainingOf(O) == [i \in DOMAIN O |-> O[i].remaining]
BarrierOf(O)   == [i \in DOMAIN O |-> O[i].barrier]
TotalOf(S, h)  == Total(S, h, MaxActivation)

At(O, k)     == {i \in DOMAIN O : O[i].key = k}
Active(O, k) == {i \in At(O, k) : O[i].remaining > 0}

\* The orders of i's group that stand before it.
OlderThan(O, i) ==
    {j \in At(O, O[i].key) : \/ O[j].activated < O[i].activated
                             \/ O[j].activated = O[i].activated /\ j < i}

\* queue_ahead
QueueAhead(P, O, i) ==
    P[O[i].key] + O[i].barrier
    + TotalOf(OlderThan(O, i), BarrierOf(O)) + TotalOf(OlderThan(O, i), RemainingOf(O))

\* Public quantity the group already accounts for when an order joins it.
OwnCountedAsPublic(k, opening) ==                 \* faulty: own quantity counted too
    opening + TotalOf(Active(orders, k), BarrierOf(orders)) + TotalOf(Active(orders, k), RemainingOf(orders))
Represented(k, opening) == opening + TotalOf(Active(orders, k), BarrierOf(orders))

AnyColumn(k, column) == TRUE                      \* faulty: column not checked
ColumnFree(k, column) == \A i \in Active(orders, k) : orders[i].column # column

\* activate: with no own order left the group starts over from what is
\* displayed; otherwise what is displayed beyond what is represented becomes
\* the new order's barrier.
Activate(k, id, column, quantity, observed, now) ==
    LET n       == sequence + 1
        live    == Active(orders, k)
        opening == IF live = {} THEN observed ELSE public[k]
        later   == observed - Represented(k, opening)
        barrier == IF live = {} \/ later < 0 THEN 0 ELSE later
    IN  /\ Causal(now)
        /\ n <= MaxActivation
        /\ \A i \in DOMAIN orders : orders[i].id # id
        /\ ColumnFree(k, column)
        /\ public' = [j \in DOMAIN public \cup {k} |-> IF j = k THEN opening ELSE public[j]]
        /\ orders' = [i \in DOMAIN orders \cup {n} |->
               IF i = n
               THEN [id |-> id, key |-> k, column |-> column, quantity |-> quantity,
                     remaining |-> quantity, activated |-> now, barrier |-> barrier]
               ELSE orders[i]]
        /\ sequence' = n
        /\ UNCHANGED processed

Removed(i) == [j \in DOMAIN orders \ {i} |-> orders[j]]

\* cancel_ack: only an order without a fill.
CancelAck(i, now) ==
    /\ Causal(now)
    /\ orders[i].remaining = orders[i].quantity
    /\ orders' = Removed(i)
    /\ UNCHANGED <<public, processed, sequence>>

\* cancel_ack_after_racing_fill: whatever it has been filled.
CancelAckAfterRacingFill(i, now) ==
    /\ Causal(now)
    /\ orders' = Removed(i)
    /\ UNCHANGED <<public, processed, sequence>>

-----------------------------------------------------------------------------
\* Better for the taker, hence served first: the higher bid, the lower ask.
SamePriceOnly(k, l) == FALSE                      \* faulty: levels not ordered
Better(k, l) == IF k.side = "BUY" THEN k.price > l.price ELSE k.price < l.price

\* What stands before order i when a trade sweeps `levels': the own orders at
\* better levels, and, where the trade printed, the public queue too.
BarriersIgnored(i, levels, printed) ==            \* faulty: cohorts not waited for
    LET better == {j \in DOMAIN orders : orders[j].key \in levels /\ Better(orders[j].key, orders[i].key)}
    IN  TotalOf(better \cup OlderThan(orders, i), RemainingOf(orders))
        + IF orders[i].key = printed THEN public[printed] ELSE 0
Before(i, levels, printed) ==
    LET better == {j \in DOMAIN orders : orders[j].key \in levels /\ Better(orders[j].key, orders[i].key)}
    IN  TotalOf(better, RemainingOf(orders))
        + IF orders[i].key = printed THEN QueueAhead(public, orders, i)
          ELSE TotalOf(OlderThan(orders, i), RemainingOf(orders))

\* The order after the sweep of a trade of that quantity.
Swept(i, levels, printed, quantity) ==
    LET o    == orders[i]
        left == quantity - Before(i, levels, printed)
    IN  IF o.key \notin levels THEN o
        ELSE [o EXCEPT !.remaining = @ - Clamp(left, o.remaining),
                       !.barrier = IF o.key = printed THEN @ - Clamp(left + @, @) ELSE @]

\* One trade goes through the levels best first; at the printed level the
\* public queue and the barriers come before the own orders behind them.
Sweep(levels, printed, quantity) ==
    LET better == {j \in DOMAIN orders : orders[j].key \in levels /\ Better(orders[j].key, printed)}
        left   == quantity - TotalOf(better, RemainingOf(orders))
    IN  /\ public' = [k \in DOMAIN public |->
                IF k = printed THEN public[k] - Clamp(left, public[k]) ELSE public[k]]
        /\ orders' = [i \in DOMAIN orders |-> Swept(i, levels, printed, quantity)]

AnyEvent(event) == TRUE                           \* faulty: a trade may come again
Unprocessed(event) == event \notin processed

\* consume_compatible_flow: a trade at one price.
ConsumeCompatibleFlow(event, k, quantity, now) ==
    /\ Causal(now)
    /\ Unprocessed(event)
    /\ processed' = processed \cup {event}
    /\ Sweep({k}, k, quantity)
    /\ UNCHANGED sequence

\* The levels a trade at that price touches.
Touched(k) == {l \in DOMAIN public : /\ l.book = k.book /\ l.side = k.side
                                     /\ (l = k \/ Better(l, k))}

\* consume_trade_through: a trade printed at k's price.
ConsumeTradeThrough(event, k, quantity, now) ==
    /\ Causal(now)
    /\ Unprocessed(event)
    /\ processed' = processed \cup {event}
    /\ Sweep(Touched(k), k, quantity)
    /\ UNCHANGED sequence

\* Any call that raises after _causal, and estimate, which only reads the rest.
RejectedCall(now) ==
    /\ Causal(now)
    /\ UNCHANGED <<public, orders, processed, sequence>>

Next == \E now \in Time :
    \/ \E k \in Key, id \in OrderId, column \in Column, quantity \in OrderQuantity, observed \in Observed :
           Activate(k, id, column, quantity, observed, now)
    \/ \E i \in DOMAIN orders : CancelAck(i, now) \/ CancelAckAfterRacingFill(i, now)
    \/ \E event \in EventId, k \in Key, quantity \in Traded :
           ConsumeCompatibleFlow(event, k, quantity, now) \/ ConsumeTradeThrough(event, k, quantity, now)
    \/ RejectedCall(now)

Spec == Init /\ [][Next]_vars

-----------------------------------------------------------------------------
\* Own orders at a price fill in activation order: one that has been filled at
\* all has nothing unfilled before it, whatever was cancelled and replaced in
\* between.
OldestFillsFirst ==
    \A i, j \in DOMAIN orders :
        /\ orders[i].key = orders[j].key /\ i < j
        /\ orders[j].remaining < orders[j].quantity
        => orders[i].remaining = 0

Live(O, i) == i \in DOMAIN O /\ O[i].remaining > 0

\* An order never loses ground: while it waits, no activation, replacement,
\* cancellation or trade puts more quantity before it.
QueueAheadNeverGrows ==
    [][\A i \in DOMAIN orders \cap DOMAIN orders' :
         Live(orders, i) => QueueAhead(public', orders', i) <= QueueAhead(public, orders, i)]_vars

\* A new order is at least as far back as the displayed queue and all of the
\* live own orders at its price: no priority is inherited, not even by the
\* replacement of an order that has just been cancelled there.
PriorityIsNotInherited ==
    [][\A k \in Key, id \in OrderId, column \in Column, quantity \in OrderQuantity,
          observed \in Observed, now \in Time :
         Activate(k, id, column, quantity, observed, now) =>
             QueueAhead(public', orders', sequence')
                 >= observed + TotalOf(Active(orders, k), RemainingOf(orders))]_vars

\* What a trade printed at k's price can still be spent on at those levels.
Depth(P, O, levels, k) ==
    TotalOf({i \in DOMAIN O : O[i].key \in levels}, RemainingOf(O))
    + IF k \in DOMAIN P THEN P[k] + TotalOf(At(O, k), BarrierOf(O)) ELSE 0

\* An own order is filled only by a trade that was never delivered before, and
\* no trade that was delivered is forgotten.
FilledByNewTrade ==
    [][/\ processed \subseteq processed'
       /\ \A i \in DOMAIN orders \cap DOMAIN orders' :
              orders'[i].remaining < orders[i].remaining => processed' # processed]_vars

\* What a trade is spent on, public and own orders together, is its quantity, or
\* all that stands at its levels if that is less.
SpentInFull ==
    [][\A event \in EventId, k \in Key, quantity \in Traded, now \in Time :
         LET spent(levels) == Depth(public, orders, levels, k) - Depth(public', orders', levels, k)
             due(levels)   == Clamp(quantity, Depth(public, orders, levels, k))
         IN  /\ ConsumeCompatibleFlow(event, k, quantity, now) => spent({k}) = due({k})
             /\ ConsumeTradeThrough(event, k, quantity, now) =>
                    LET levels == {l \in DOMAIN public : l.book = k.book /\ l.side = k.side
                                                        /\ (l = k \/ Better(l, k))}
                    IN  spent(levels) = due(levels)]_vars

\* A trade's quantity is spent exactly once: none of it is lost while something
\* before it is unfilled, and delivered again it fills nothing.
TradeSpentOnce == FilledByNewTrade /\ SpentInFull

\* A trade that sweeps several levels fills no order while one at a better
\* price is unfilled, and own orders at one price fill oldest first.
PriceTimePriority ==
    [][/\ OldestFillsFirst'
       /\ \A event \in EventId, k \in Key, quantity \in Traded, now \in Time :
         ConsumeTradeThrough(event, k, quantity, now) =>
             \A i, j \in DOMAIN orders :
                 /\ orders'[i].remaining < orders[i].remaining
                 /\ orders[j].key.book = orders[i].key.book /\ orders[j].key.side = orders[i].key.side
                 /\ IF k.side = "BUY" THEN orders[j].key.price > orders[i].key.price
                                      ELSE orders[j].key.price < orders[i].key.price
                 => orders'[j].remaining = 0]_vars

\* docs/microstructure/M032_ADAPTIVE_MULTI_STABLE_ARCHITECTURE.md:47: "a fully
\* empty own queue begins a new public-depth epoch".  A filled order stays in
\* the group, and a barrier it has left stands before the next epoch.
EpochStartsFresh ==
    [][\A k \in Key, id \in OrderId, column \in Column, quantity \in OrderQuantity,
          observed \in Observed, now \in Time :
         Activate(k, id, column, quantity, observed, now) /\ Active(orders, k) = {} =>
             QueueAhead(public', orders', sequence') = observed]_vars

\* docs/microstructure/M035_PARALLEL_PAIR_CAPITAL_MANAGER.md:30: "Preserve
\* queue-ahead, FIFO cohorts, ... and cancel ACK".  Cancelling an own order
\* removes its own quantity from before a younger one, and also the public
\* cohort it carries as its barrier.
CancelKeepsCohorts ==
    [][\A i \in DOMAIN orders \ DOMAIN orders', j \in DOMAIN orders' :
         i < j /\ orders[i].key = orders[j].key =>
             QueueAhead(public', orders', j) >= QueueAhead(public, orders, j) - orders[i].remaining]_vars
=============================================================================
