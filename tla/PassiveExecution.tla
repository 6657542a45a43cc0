------------------------- MODULE PassiveExecution -------------------------
(***************************************************************************)
(* PassiveExecutionSimulator (microstructure/execution.py): the replay     *)
(* engine of the two-level strategy S0, which a day run executes.  It buys *)
(* one lot at config.lower, sells it at config.upper and starts again.     *)
(* Market events, cancel requests and everything the simulator schedules   *)
(* are popped from one heap ordered by (timestamp, priority, serial);      *)
(* three latencies separate what happened, what the strategy hears of and  *)
(* when its orders arrive.                                                 *)
(*                                                                         *)
(* Abstractions.  The book keeps the public quantity at the one price of   *)
(* each side the strategy uses, and which sides' orders would cross.  The  *)
(* fee rate is 0 and step size, minimum quantity and minimum notional are  *)
(* one unit (S0Config's defaults, scaled).  average cost, mid price and    *)
(* metrics are left out, and so is the delivery of a trade, which only     *)
(* stores a timestamp nothing reads.                                       *)
(***************************************************************************)
EXTENDS Integers, FiniteSets, SequencesExt, LedgerArithmetic

CONSTANTS
    Lower, Upper,        \* config.lower, config.upper
    InitialUsdc,         \* config.initial_usdc
    FixedLot,            \* config.fixed_lot_usdc; 0 for COMPOUNDING_LOT
    QueueMultiplier,     \* 0 OPTIMISTIC, 1 REALISTIC_QUEUE, more: CONSERVATIVE
    MarketLatency, DecisionLatency, SubmitLatency, CancelLatency,
    MaxTime,             \* bound: the last timestamp of an input
    MaxEvents,           \* bound: market events of the tape
    MaxCancels,          \* bound: cancel requests
    MaxDepth,            \* bound: public quantity of a level
    MaxPrint             \* bound: quantity of one trade

ASSUME PassiveAssumption ==
    /\ {Lower, InitialUsdc} \subseteq Nat \ {0} /\ Upper \in Nat /\ Upper > Lower
    /\ {FixedLot, QueueMultiplier, MarketLatency, DecisionLatency, SubmitLatency,
        CancelLatency, MaxTime, MaxEvents, MaxCancels, MaxDepth, MaxPrint} \subseteq Nat

VARIABLES
    clock,          \* what was popped last: its time, class and, for a trade, size
    agenda,         \* self._queue without the inputs, in the order scheduled
    book,           \* self._bids at lower, self._asks at upper, and who would cross
    bookValid,      \* self._book_valid (_last_update_id is set exactly then)
    strategyValid,  \* self._strategy_book_valid
    halted,         \* self._risk_halt
    orders,         \* self._orders
    usdc, fdusd,    \* self._ledger
    raised,         \* an ExecutionIntegrityError or a refused order ended the run
    tape            \* how many inputs were used: [events, cancels]

vars == <<clock, agenda, book, bookValid, strategyValid, halted, orders, usdc, fdusd,
          raised, tape>>

Side == {"BUY", "SELL"}
PriceOf(side) == IF side = "BUY" THEN Lower ELSE Upper

Fillable == {"OPEN", "PARTIALLY_FILLED", "CANCEL_PENDING"}
Active == Fillable \union {"PENDING"}
Closed == {"FILLED", "CANCELED", "REJECTED_POST_ONLY",
           "REJECTED_NO_OBSERVED_QUEUE_COVERAGE"}

\* Every book a snapshot may carry: asks at or below lower leave no bid there,
\* bids at or above upper no ask, and both at once would be a crossed book.
Books == {b \in [depth : [Side -> 0..MaxDepth], opposed : SUBSET Side] :
            /\ b.opposed # Side
            /\ \A side \in b.opposed : b.depth[side] = 0}

Left(o) == o.quantity - o.filled
HasActive(side) == \E i \in DOMAIN orders : orders[i].side = side /\ orders[i].status \in Active

----------------------------------------------------------------------------
\* The heap.  Inputs were all scheduled before the loop: a market event
\* (priority 0) precedes everything of its time, a cancel request (priority 1,
\* lowest serials) everything of its time but the market events.

Item(kind, at) == [kind |-> kind, at |-> at, event |-> "NONE", order |-> 0, completes |-> FALSE]
Delivery(event, t) == [Item("DELIVER_MARKET", t + MarketLatency) EXCEPT !.event = event]
Arrival(i, t) == [Item("ORDER_ARRIVAL", t) EXCEPT !.order = i]
Notice(i, completes, t) ==
    [Item("FILL_NOTICE", t + MarketLatency) EXCEPT !.order = i, !.completes = completes]
Effective(i, t) == [Item("CANCEL_EFFECTIVE", t + CancelLatency) EXCEPT !.order = i]

Priority(item) == IF item.kind \in {"ORDER_ARRIVAL", "CANCEL_EFFECTIVE"} THEN 1 ELSE 2

Precedes(i, j) ==
    \/ agenda[i].at < agenda[j].at
    \/ agenda[i].at = agenda[j].at /\ Priority(agenda[i]) < Priority(agenda[j])
    \/ agenda[i].at = agenda[j].at /\ Priority(agenda[i]) = Priority(agenda[j]) /\ i < j

Class == [market |-> 0, cancel |-> 1, scheduled |-> 2]

\* The next item popped is an input of time t and this class.
PopsInput(class, t) ==
    /\ ~raised
    /\ \/ t > clock.at
       \/ t = clock.at /\ class >= clock.class
    /\ \A i \in DOMAIN agenda : t <= agenda[i].at

\* The next item popped is agenda[i]; every input left is later.
Pops(i, kind) ==
    /\ ~raised
    /\ agenda[i].kind = kind
    /\ \A j \in DOMAIN agenda \ {i} : Precedes(i, j)
    /\ clock' = [at |-> agenda[i].at, class |-> Class.scheduled, print |-> 0]
    /\ UNCHANGED tape

Market(t, print) ==
    /\ PopsInput(Class.market, t)
    /\ tape.events < MaxEvents
    /\ clock' = [at |-> t, class |-> Class.market, print |-> print]
    /\ tape' = [tape EXCEPT !.events = @ + 1]

----------------------------------------------------------------------------
\* _on_market: what happens at the exchange.

MarketSnapshot ==
    \E t \in 0..MaxTime, b \in Books :
        /\ Market(t, 0)
        /\ book' = b
        /\ bookValid' = TRUE
        /\ agenda' = Append(agenda, Delivery("SNAPSHOT", t))
        /\ UNCHANGED <<strategyValid, halted, orders, usdc, fdusd, raised>>

\* _apply_delta: a delta that does not continue the book invalidates it.
MarketDelta ==
    \E t \in 0..MaxTime, b \in Books, continues \in BOOLEAN :
        /\ Market(t, 0)
        /\ bookValid' = (bookValid /\ continues)
        /\ book' = IF bookValid' THEN b ELSE book
        /\ ~bookValid' => b = book
        /\ agenda' = Append(agenda, Delivery("DELTA", t))
        /\ UNCHANGED <<strategyValid, halted, orders, usdc, fdusd, raised>>

MarketGap ==
    \E t \in 0..MaxTime :
        /\ Market(t, 0)
        /\ bookValid' = FALSE
        /\ agenda' = Append(agenda, Delivery("GAP", t))
        /\ UNCHANGED <<book, strategyValid, halted, orders, usdc, fdusd, raised>>

MarketHalt ==
    \E t \in 0..MaxTime :
        /\ Market(t, 0)
        /\ agenda' = Append(agenda, Delivery("HALT", t))
        /\ UNCHANGED <<book, bookValid, strategyValid, halted, orders, usdc, fdusd, raised>>

\* A trade at a price the strategy does not use can only take away levels.
MarketTradeElsewhere ==
    \E t \in 0..MaxTime, kept \in SUBSET book.opposed :
        /\ Market(t, 0)
        /\ kept # book.opposed
        /\ book' = [book EXCEPT !.opposed = kept]
        /\ UNCHANGED <<agenda, bookValid, strategyValid, halted, orders, usdc, fdusd, raised>>

\* Faulty: the ledger is moved by the whole order, not by the part filled.
FillsWhole(m, i, q) ==
    LET o == m.orders[i]
    IN  [m EXCEPT !.left = @ - q,
                  !.orders[i].filled = @ + q,
                  !.orders[i].status = IF o.filled + q = o.quantity THEN "FILLED" ELSE @,
                  !.usdc = IF o.side = "BUY" THEN @ - o.quantity * Lower
                                             ELSE @ + o.quantity * Upper,
                  !.fdusd = IF o.side = "BUY" THEN @ + o.quantity ELSE @ - o.quantity,
                  !.fills = Append(@, <<i, o.filled + q = o.quantity>>)]

\* Faulty: a partial fill makes an order whose cancel is under way an ordinary one.
FillsForgettingCancel(m, i, q) ==
    LET o == m.orders[i]
    IN  [m EXCEPT !.left = @ - q,
                  !.orders[i].filled = @ + q,
                  !.orders[i].status = IF o.filled + q = o.quantity THEN "FILLED"
                                                                   ELSE "PARTIALLY_FILLED",
                  !.usdc = IF o.side = "BUY" THEN @ - q * Lower ELSE @ + q * Upper,
                  !.fdusd = IF o.side = "BUY" THEN @ + q ELSE @ - q,
                  !.fills = Append(@, <<i, o.filled + q = o.quantity>>)]

\* An order that is given q units; a cancel on its way stays on its way.
AfterFill(o, q) ==
    [o EXCEPT !.filled = @ + q,
              !.status = IF o.filled + q = o.quantity THEN "FILLED"
                         ELSE IF o.status = "CANCEL_PENDING" THEN @
                         ELSE "PARTIALLY_FILLED"]

\* _apply_fill of q units to the i-th order of m, the matching so far; money or
\* inventory the ledger does not have ends the run.
FilledBy(m, i, q) ==
    LET o == m.orders[i]
        buys == o.side = "BUY"
    IN  IF IF buys THEN q * Lower > m.usdc ELSE q > m.fdusd
        THEN [m EXCEPT !.raised = TRUE]
        ELSE [m EXCEPT
                !.left = @ - q,
                !.orders[i] = AfterFill(@, q),
                !.usdc = IF buys THEN @ - q * Lower ELSE @ + q * Upper,
                !.fdusd = IF buys THEN @ + q ELSE @ - q,
                !.fills = Append(@, <<i, o.filled + q = o.quantity>>)]

\* Faulty: the order is offered the whole print after its queue took a part.
MatchesWholePrint(m, i, side, t) ==
    LET o == m.orders[i]
        q == IF Left(o) < m.left THEN Left(o) ELSE m.left
    IN  IF \/ m.left <= o.queue \/ o.side # side
           \/ o.status \notin Fillable \/ o.arrival >= t
        THEN m
        ELSE [FilledBy([m EXCEPT !.orders[i].queue = 0], i, q) EXCEPT !.left = m.left - q]

\* One turn of the loop of _match_trade over the orders of that side and price
\* that had arrived before the trade: the queue ahead is served first.
MatchOne(m, i, side, t) ==
    LET o == m.orders[i]
        consumed == IF o.queue < m.left THEN o.queue ELSE m.left
        served == [m EXCEPT !.left = @ - consumed, !.orders[i].queue = @ - consumed]
        q == IF Left(o) < served.left THEN Left(o) ELSE served.left
    IN  IF \/ m.raised \/ m.left = 0
           \/ o.side # side \/ o.status \notin Fillable \/ o.arrival >= t
        THEN m
        ELSE IF q = 0 THEN served ELSE FilledBy(served, i, q)

Match(side, quantity, t) ==
    LET matched[i \in 0..Len(orders)] ==
            IF i = 0
            THEN [left |-> quantity, orders |-> orders, usdc |-> usdc, fdusd |-> fdusd,
                  fills |-> <<>>, raised |-> FALSE]
            ELSE MatchOne(matched[i - 1], i, side, t)
    IN  matched[Len(orders)]

\* _match_trade at the level of a side; a level without observed depth matches
\* nothing.
MarketTrade ==
    \E t \in 0..MaxTime, side \in Side, quantity \in 1..MaxPrint :
        /\ Market(t, quantity)
        /\ book.depth[side] > 0
        /\ LET m == Match(side, quantity, t)
           IN  /\ orders' = m.orders /\ usdc' = m.usdc /\ fdusd' = m.fdusd
               /\ raised' = m.raised
               /\ agenda' = agenda \o [k \in DOMAIN m.fills |->
                                          Notice(m.fills[k][1], m.fills[k][2], t)]
        /\ book' = [book EXCEPT !.depth[side] = IF @ > quantity THEN @ - quantity ELSE 0]
        /\ UNCHANGED <<bookValid, strategyValid, halted>>

----------------------------------------------------------------------------
\* What the strategy decides, at what is delivered to it.

\* _next_buy_quantity
NextBuyQuantity ==
    (IF FixedLot > 0 /\ FixedLot < usdc THEN FixedLot ELSE usdc) \div Lower

\* _new_order; it schedules the arrival.
NewOrder(queue, side, quantity, now) ==
    LET arrival == now + DecisionLatency + SubmitLatency
    IN  /\ orders' = Append(orders,
               [side |-> side, quantity |-> quantity, filled |-> 0, queue |-> 0,
                status |-> "PENDING", arrival |-> arrival, cancelAt |-> 0])
        /\ agenda' = Append(queue, Arrival(Len(orders) + 1, arrival))

\* _consider_s0_order
MayBuy ==
    /\ ~halted
    /\ ~HasActive("BUY")
    /\ fdusd = 0
    /\ NextBuyQuantity > 0
    /\ usdc >= Lower * NextBuyQuantity

Consider(queue, now) ==
    \/ MayBuy /\ NewOrder(queue, "BUY", NextBuyQuantity, now)
    \/ ~MayBuy /\ agenda' = queue /\ UNCHANGED orders

\* _on_market_delivery.  The book's validity is read at the delivery, not as of
\* the event delivered.
DeliverMarket ==
    \E i \in DOMAIN agenda :
        LET event == agenda[i].event IN
        /\ Pops(i, "DELIVER_MARKET")
        /\ halted' = (halted \/ event = "HALT")
        /\ strategyValid' = CASE event = "GAP" -> FALSE
                              [] event = "SNAPSHOT" -> TRUE
                              [] event = "DELTA" -> strategyValid /\ bookValid
                              [] event = "HALT" -> strategyValid
        /\ IF event \in {"SNAPSHOT", "DELTA"} /\ strategyValid'
           THEN Consider(RemoveAt(agenda, i), agenda[i].at)
           ELSE agenda' = RemoveAt(agenda, i) /\ UNCHANGED orders
        /\ UNCHANGED <<book, bookValid, usdc, fdusd, raised>>

\* Faulty: the notice that completes a SELL does not ask for the halt.
NoticeSellHalted(queue, item) ==
    IF item.completes /\ fdusd = 0 /\ NextBuyQuantity > 0
    THEN NewOrder(queue, "BUY", NextBuyQuantity, item.at) /\ UNCHANGED raised
    ELSE agenda' = queue /\ UNCHANGED <<orders, raised>>

\* _on_fill_notice of a SELL: the cycle is accounted and the next BUY placed.
NoticeSell(queue, item) ==
    IF /\ ~halted /\ item.completes /\ fdusd = 0
       /\ NextBuyQuantity > 0
    THEN NewOrder(queue, "BUY", NextBuyQuantity, item.at) /\ UNCHANGED raised
    ELSE agenda' = queue /\ UNCHANGED <<orders, raised>>

\* Faulty: a halt also keeps the inventory from being offered.
NoticeBuyUnlessHalted(queue, item) ==
    IF item.completes /\ fdusd > 0 /\ ~halted
    THEN NewOrder(queue, "SELL", fdusd, item.at) /\ UNCHANGED raised
    ELSE agenda' = queue /\ UNCHANGED <<orders, raised>>

\* _on_fill_notice of a BUY: all the inventory is offered; an order of quantity
\* 0 is refused by PassiveOrder and ends the run.
NoticeBuy(queue, item) ==
    CASE item.completes /\ fdusd > 0 ->
             NewOrder(queue, "SELL", fdusd, item.at) /\ UNCHANGED raised
      [] item.completes /\ fdusd = 0 ->
             raised' = TRUE /\ agenda' = queue /\ UNCHANGED orders
      [] OTHER -> agenda' = queue /\ UNCHANGED <<orders, raised>>

FillNotice ==
    \E i \in DOMAIN agenda :
        LET queue == RemoveAt(agenda, i)
        IN  /\ Pops(i, "FILL_NOTICE")
            /\ IF orders[agenda[i].order].side = "BUY"
               THEN NoticeBuy(queue, agenda[i])
               ELSE NoticeSell(queue, agenda[i])
            /\ UNCHANGED <<book, bookValid, strategyValid, halted, usdc, fdusd>>

\* _on_order_arrival: post-only, and only at a level with observed depth.
Arrived(o) ==
    IF ~bookValid \/ o.side \in book.opposed
    THEN [o EXCEPT !.status = "REJECTED_POST_ONLY"]
    ELSE IF book.depth[o.side] = 0
    THEN [o EXCEPT !.status = "REJECTED_NO_OBSERVED_QUEUE_COVERAGE"]
    ELSE [o EXCEPT !.status = "OPEN", !.queue = QueueMultiplier * book.depth[o.side]]

OrderArrival ==
    \E i \in DOMAIN agenda :
        LET o == agenda[i].order
        IN  /\ Pops(i, "ORDER_ARRIVAL")
            /\ agenda' = RemoveAt(agenda, i)
            /\ orders' = IF orders[o].status = "PENDING"
                         THEN [orders EXCEPT ![o] = Arrived(@)]
                         ELSE orders
            /\ UNCHANGED <<book, bookValid, strategyValid, halted, usdc, fdusd, raised>>

\* _on_cancel_request, for an order that exists; a repeated one moves the time
\* at which the cancel takes effect.
CancelRequest ==
    \E t \in 0..MaxTime, o \in DOMAIN orders :
        /\ PopsInput(Class.cancel, t)
        /\ tape.cancels < MaxCancels
        /\ clock' = [at |-> t, class |-> Class.cancel, print |-> 0]
        /\ tape' = [tape EXCEPT !.cancels = @ + 1]
        /\ IF orders[o].status \in Fillable
           THEN /\ orders' = [orders EXCEPT ![o].status = "CANCEL_PENDING",
                                            ![o].cancelAt = t + CancelLatency]
                /\ agenda' = Append(agenda, Effective(o, t))
           ELSE UNCHANGED <<orders, agenda>>
        /\ UNCHANGED <<book, bookValid, strategyValid, halted, usdc, fdusd, raised>>

\* _on_cancel_effective
CancelEffective ==
    \E i \in DOMAIN agenda :
        LET o == agenda[i].order
        IN  /\ Pops(i, "CANCEL_EFFECTIVE")
            /\ agenda' = RemoveAt(agenda, i)
            /\ orders' = IF /\ orders[o].status = "CANCEL_PENDING"
                            /\ orders[o].cancelAt = agenda[i].at
                         THEN [orders EXCEPT ![o].status = "CANCELED"]
                         ELSE orders
            /\ UNCHANGED <<book, bookValid, strategyValid, halted, usdc, fdusd, raised>>

----------------------------------------------------------------------------
Init ==
    /\ clock = [at |-> 0, class |-> Class.market, print |-> 0]
    /\ agenda = <<>> /\ orders = <<>>
    /\ book = [depth |-> [side \in Side |-> 0], opposed |-> {}]
    /\ bookValid = FALSE /\ strategyValid = FALSE
    /\ halted = FALSE /\ raised = FALSE
    /\ usdc = InitialUsdc /\ fdusd = 0
    /\ tape = [events |-> 0, cancels |-> 0]

Next ==
    \/ MarketSnapshot \/ MarketDelta \/ MarketGap \/ MarketHalt
    \/ MarketTrade \/ MarketTradeElsewhere
    \/ DeliverMarket \/ FillNotice \/ OrderArrival
    \/ CancelRequest \/ CancelEffective

Spec == Init /\ [][Next]_vars

----------------------------------------------------------------------------
\* Properties

OrderType ==
    [side : Side, quantity : Nat \ {0}, filled : Nat, queue : Nat,
     status : Active \union Closed, arrival : Nat, cancelAt : Nat]

ItemType ==
    [kind : {"DELIVER_MARKET", "ORDER_ARRIVAL", "FILL_NOTICE", "CANCEL_EFFECTIVE"},
     at : Nat, event : {"NONE", "SNAPSHOT", "DELTA", "GAP", "HALT"},
     order : 0..Len(orders), completes : BOOLEAN]

TypeOK ==
    /\ clock \in [at : Nat, class : 0..2, print : 0..MaxPrint]
    /\ orders \in Seq(OrderType)
    /\ \A i \in DOMAIN orders : orders[i].filled <= orders[i].quantity
    /\ agenda \in Seq(ItemType)
    /\ book \in Books
    /\ {bookValid, strategyValid, halted, raised} \subseteq BOOLEAN
    /\ usdc \in Nat /\ fdusd \in Nat
    /\ tape \in [events : 0..MaxEvents, cancels : 0..MaxCancels]

\* What the orders O of a side have been filled, and what prints have given them
\* or taken from the queues before them.
FilledOf(O, side) == [i \in DOMAIN O |-> IF O[i].side = side THEN O[i].filled ELSE 0]
Traded(O, side) == Total(DOMAIN O, FilledOf(O, side), Len(O))
ServedOf(O) == [i \in DOMAIN O |-> O[i].filled - O[i].queue]
Served(O) == Total(DOMAIN O, ServedOf(O), Len(O))

\* The ledger holds what the fills of all orders leave of the initial money,
\* whatever orders shared a print (_match_trade, _apply_fill).
LedgerFollowsFills ==
    /\ usdc + Lower * Traded(orders, "BUY") = InitialUsdc + Upper * Traded(orders, "SELL")
    /\ fdusd + Traded(orders, "SELL") = Traded(orders, "BUY")

\* STRATEGY_SPEC.md: "Queue volume must be consumed before our order".  A fill
\* happens to an order that had arrived before the trade, whose queue ahead is
\* used up, and never to one that is closed.
QueueBeforeFill ==
    \A i \in DOMAIN orders :
        orders'[i].filled > orders[i].filled =>
            /\ orders'[i].queue = 0
            /\ orders[i].arrival < clock'.at
            /\ orders[i].status \notin Closed

\* What one print takes from the queues and gives to the orders at its level is
\* at most its size, however many orders stand there (_match_trade's available).
PrintSpentOnce == Served(orders') - Served(orders) <= clock'.print

\* No fill the recorded market does not support.
FillsAreCausal == [][QueueBeforeFill /\ PrintSpentOnce]_vars

\* A cancel on its way is neither forgotten by a partial fill nor by a repeated
\* request: its order stays pending and the effect at its last time stays
\* scheduled (_apply_fill keeps CANCEL_PENDING, _on_cancel_effective).
CancelIsNotLost ==
    \A i \in DOMAIN orders :
        /\ orders[i].status \in {"PENDING", "OPEN", "PARTIALLY_FILLED"} =>
               orders[i].cancelAt = 0
        /\ orders[i].status = "CANCEL_PENDING" =>
               \E k \in DOMAIN agenda : /\ agenda[k].kind = "CANCEL_EFFECTIVE"
                                        /\ agenda[k].order = i
                                        /\ agenda[k].at = orders[i].cancelAt

\* Inventory without a working order or a notice under way is there because the
\* exchange refused or canceled an order, never because a decision was missed
\* (_on_fill_notice, _consider_s0_order).
StrandedOnlyByExchange ==
    /\ fdusd > 0 /\ ~raised
    /\ ~ \E side \in Side : HasActive(side)
    /\ \A k \in DOMAIN agenda : agenda[k].kind # "FILL_NOTICE"
    => \E i \in DOMAIN orders : orders[i].status \in Closed \ {"FILLED"}

\* STRATEGY_SPEC.md on RISK_HALT: "the current cycle may finish at its existing
\* target, but no new cycle starts", neither from the book nor from the notice
\* that completes a SELL.
Buys == {i \in DOMAIN orders : orders[i].side = "BUY"}
HaltStartsNoCycle == [][halted => Buys' = Buys]_vars

\* STRATEGY_SPEC.md: "Exactly one lot".  The code: a book event delivered between
\* the fill that completes a SELL and its notice places a BUY, because the ledger
\* already shows the fill; the notice then places another one.
OneLot == Cardinality({i \in DOMAIN orders : orders[i].status \in Active}) <= 1

============================================================================
