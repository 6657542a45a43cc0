---------------------------- MODULE PairEngine ----------------------------
(***************************************************************************)
(* PairEngine (microstructure/parallel_pair_capital_manager.py): the grid  *)
(* of one pair.  It ties three authorities together: its own orders and    *)
(* hotline, the queue estimator (module CausalQueue) and the shared bank   *)
(* (module GlobalCapitalLedger).  Every handler changes two or three of    *)
(* them, and a cancel requested in one may race with a fill in another.    *)
(*                                                                         *)
(* Abstractions.  Prices are ticks.  Of the estimator the model keeps the  *)
(* own orders in activation order: a trade fills any amounts at one price  *)
(* that serve the older order first.  Of the bank it keeps this pair's     *)
(* positions.  Fees and costs are zero, calls come in time order, books    *)
(* are valid, and every trade is a PUBLIC_TRADE with an id of its own.     *)
(***************************************************************************)
EXTENDS Integers, FiniteSets, SequencesExt, LedgerArithmetic

CONSTANTS
    Side,            \* {"BUY", "SELL"}, or the part that is looked at
    Rank,            \* 1..7
    Lot,             \* units of a grid order (quantity 1)
    Hotline,         \* the hotlines the books lead to
    Price,           \* prices of replacements and returns
    Grant,           \* amounts the allocator reserves for this pair
    MaxOrder,        \* bound: orders created
    MaxCapital       \* bound: capital ids issued to this pair

ASSUME PairAssumption ==
    /\ Side \subseteq {"BUY", "SELL"} /\ Rank \subseteq 1..7
    /\ Lot \in Nat \ {0}
    /\ Hotline \subseteq Nat /\ Price \subseteq Nat \ {0}
    /\ \A h \in Hotline, r \in Rank : h - r > 0
    /\ Grant \subseteq Nat \ {0}
    /\ MaxOrder \in Nat /\ MaxCapital \in Nat

VARIABLES
    hotline,    \* state.hotline; None before the first book
    orders,     \* state.orders, numbered as created
    queue,      \* the estimator's own orders, in activation order
    positions,  \* the bank's positions of this pair, numbered as issued
    inventory,  \* state.inventory_quantity
    dust        \* the bank's dust of this pair

vars == <<hotline, orders, queue, positions, inventory, dust>>

None == 0

Live == {"ACTIVE", "PARTIAL", "CANCEL_PENDING"}

\* _target_price
Target(o, center) == IF o.side = "BUY" THEN center - o.rank ELSE center + o.rank

Left(o) == o.quantity - o.filled
OrdersOf(cap, role) ==
    {i \in DOMAIN orders : orders[i].capital = cap /\ orders[i].role = role
                           /\ orders[i].status \in Live \union {"UNFUNDED"}}

\* What the estimator still holds at a price; activate refuses a column in use.
Standing(side, price) ==
    {i \in Range(queue) : orders[i].side = side /\ orders[i].price = price /\ Left(orders[i]) > 0}
ColumnFree(side, price, column) ==
    \A i \in Standing(side, price) : orders[i].column # column

\* _new_order of an entry, without capital.
Entry(side, rank, column, price) ==
    [side |-> side, rank |-> rank, column |-> column, price |-> price, role |-> "ENTRY",
     quantity |-> Lot, filled |-> 0, status |-> "UNFUNDED", capital |-> None,
     replacement |-> None, authorized |-> FALSE]

Reserved(cash) == [state |-> "RESERVED", cash |-> cash, quantity |-> 0, unit |-> 0]
Inventory(quantity, unit) ==
    [state |-> "INVENTORY", cash |-> 0, quantity |-> quantity, unit |-> unit]
Gone == [state |-> "GONE", cash |-> 0, quantity |-> 0, unit |-> 0]

----------------------------------------------------------------------------
\* initialize_grid
InitializeGrid ==
    /\ hotline # None
    /\ orders = <<>>
    /\ orders' = SetToSeq({LET e == Entry(side, rank, column, hotline)
                           IN  [e EXCEPT !.price = Target(e, hotline)] :
                               side \in Side, rank \in Rank, column \in {1, 2}})
    /\ UNCHANGED <<hotline, queue, positions, inventory, dust>>

\* _reconcile_for_hotline: a C2 order away from its target asks for its cancel.
IsCanceled(o, center) ==
    /\ o.role = "ENTRY" /\ o.column = 2 /\ o.status \in {"ACTIVE", "PARTIAL"}
    /\ Target(o, center) # o.price

\* Faulty: a cancel under way keeps the target it was requested for.
ReconciledOnce(o, center) ==
    CASE o.role = "ENTRY" /\ o.status = "UNFUNDED" -> [o EXCEPT !.price = Target(o, center)]
      [] IsCanceled(o, center) ->
             [o EXCEPT !.replacement = Target(o, center), !.status = "CANCEL_PENDING"]
      [] OTHER -> o

\* Unfunded orders move, and a cancel under way goes to the latest target; C1
\* stays.
Reconciled(o, center) ==
    CASE o.role = "ENTRY" /\ o.status = "UNFUNDED" -> [o EXCEPT !.price = Target(o, center)]
      [] o.role = "ENTRY" /\ o.column = 2 /\ o.status = "CANCEL_PENDING" ->
             [o EXCEPT !.replacement = Target(o, center)]
      [] IsCanceled(o, center) ->
             [o EXCEPT !.replacement = Target(o, center), !.status = "CANCEL_PENDING"]
      [] OTHER -> o

\* Faulty: the request already frees the capital.
CancelsFree(canceled) ==
    positions' = [id \in DOMAIN positions |->
        IF id \in {orders[i].capital : i \in canceled} THEN Gone ELSE positions[id]]

\* GlobalCapitalLedger.request_cancel, for the orders whose cancel is requested.
CancelsRequested(canceled) ==
    LET ids == {orders[i].capital : i \in canceled}
    IN  /\ \A id \in ids : positions[id].state = "RESERVED"
        /\ positions' = [id \in DOMAIN positions |->
               IF id \in ids THEN [positions[id] EXCEPT !.state = "CANCEL_PENDING"]
                             ELSE positions[id]]

\* receive_book
ReceiveBook(target) ==
    /\ hotline' = target
    /\ target # hotline
    /\ orders' = [i \in DOMAIN orders |-> Reconciled(orders[i], target)]
    /\ CancelsRequested({i \in DOMAIN orders : IsCanceled(orders[i], target)})
    /\ UNCHANGED <<queue, inventory, dust>>

\* request_c1_move, when the move is worth it; the bank refuses it for a return.
RequestC1Move(i, price) ==
    /\ orders[i].column = 1 /\ orders[i].status = "ACTIVE" /\ orders[i].role = "ENTRY"
    /\ orders' = [orders EXCEPT ![i].replacement = price, ![i].status = "CANCEL_PENDING"]
    /\ CancelsRequested({i})
    /\ UNCHANGED <<hotline, queue, inventory, dust>>

\* Where the estimator holds order i.
PlaceOf(i) == CHOOSE k \in DOMAIN queue : queue[k] = i

\* acknowledge_cancel of the bank; a filled order's position may be inventory by
\* then, which is left alone.
Released(id) ==
    IF positions[id].state = "CANCEL_PENDING" THEN [positions EXCEPT ![id] = Gone] ELSE positions

\* acknowledge_grid_cancel: an order without a fill is replaced by an unfunded
\* one, an order with a fill is only taken out of the queue.
AcknowledgeGridCancel(i) ==
    LET o == orders[i]
    IN  /\ o.status = "CANCEL_PENDING" /\ o.replacement # None
        /\ i \in Range(queue)
        /\ queue' = RemoveAt(queue, PlaceOf(i))
        /\ positions' = Released(o.capital)
        /\ \/ /\ o.filled > 0
              /\ orders' = [orders EXCEPT ![i].status = "PARTIAL_FILLED"]
           \/ /\ o.filled = 0
              /\ positions[o.capital].state = "CANCEL_PENDING"
              /\ Len(orders) < MaxOrder
              /\ orders' = Append([orders EXCEPT ![i].status = "CANCELLED"],
                                  Entry(o.side, o.rank, o.column, o.replacement))
        /\ UNCHANGED <<hotline, inventory, dust>>

----------------------------------------------------------------------------
\* The allocator's grant (ParallelPairCapitalAllocator.allocate).
Reserve(amount) ==
    /\ Len(positions) < MaxCapital
    /\ positions' = Append(positions, Reserved(amount))
    /\ UNCHANGED <<hotline, orders, queue, inventory, dust>>

\* Faulty: the amount reserved is not compared with the order's price.
BindableUnchecked(i, id) ==
    LET o == orders[i]
    IN  /\ positions[id].state = "RESERVED"
        /\ o.side = "BUY" /\ o.role = "ENTRY"
        /\ o.capital = None
        /\ OrdersOf(id, "ENTRY") = {}
        /\ ColumnFree(o.side, o.price, o.column)

\* bind_order_capital
Bindable(i, id) ==
    LET o == orders[i]
    IN  /\ positions[id].state = "RESERVED"
        /\ o.side = "BUY" /\ o.role = "ENTRY"
        /\ positions[id].cash >= o.price * o.quantity
        /\ o.capital = None
        /\ OrdersOf(id, "ENTRY") = {}
        /\ ColumnFree(o.side, o.price, o.column)

BindOrderCapital(i, id) ==
    /\ Bindable(i, id)
    /\ orders' = [orders EXCEPT ![i].capital = id, ![i].status = "ACTIVE"]
    /\ queue' = Append(queue, i)
    /\ UNCHANGED <<hotline, positions, inventory, dust>>

\* submit_owned_return: in the first free column at that price.
Returnable(id, quantity) ==
    /\ positions[id].state \in {"INVENTORY", "RETURN"}
    /\ quantity <= positions[id].quantity
    /\ OrdersOf(id, "RETURN") = {}

SubmitOwnedReturn(id, price, quantity, authorized) ==
    /\ Returnable(id, quantity)
    /\ Len(orders) < MaxOrder
    /\ \E column \in {1, 2} :
        /\ ColumnFree("SELL", price, column)
        /\ column = 2 => ~ColumnFree("SELL", price, 1)
        /\ orders' = Append(orders,
               [Entry("SELL", 1, column, price) EXCEPT
                    !.rank = 0, !.role = "RETURN", !.status = "ACTIVE", !.capital = id,
                    !.quantity = quantity, !.authorized = authorized])
    /\ positions' = [positions EXCEPT ![id].state = "RETURN"]
    /\ queue' = Append(queue, Len(orders) + 1)
    /\ UNCHANGED <<hotline, inventory, dust>>

----------------------------------------------------------------------------
\* The state a trade changes, as one record, to apply its fills in turn.
Books == [orders |-> orders, positions |-> positions, inventory |-> inventory, dust |-> dust]

\* Faulty: every fill is charged the whole order.
EntryChargedWhole(m, i, amount) ==
    LET o == m.orders[i]
    IN  [m EXCEPT
            !.positions = Append([@ EXCEPT ![o.capital].cash = @ - o.quantity * o.price],
                                 Inventory(amount, o.price)),
            !.inventory = @ + amount]

\* record_entry_fill: the whole reservation becomes inventory, or a part of it
\* does under a new id.
EntryFilled(m, i, amount) ==
    LET o == m.orders[i]
        input == amount * o.price
        p == m.positions[o.capital]
    IN  [m EXCEPT
            !.positions = IF input = p.cash
                          THEN [@ EXCEPT ![o.capital] = Inventory(amount, o.price)]
                          ELSE Append([@ EXCEPT ![o.capital].cash = p.cash - input],
                                      Inventory(amount, o.price)),
            !.inventory = @ + amount]

\* Faulty: what the last fill does not sell is forgotten.
ReturnForgetsResidue(m, i, amount) ==
    LET o == m.orders[i]
        left == m.positions[o.capital].quantity - amount
    IN  [m EXCEPT
            !.positions[o.capital] = IF o.filled + amount = o.quantity THEN Gone
                                     ELSE [@ EXCEPT !.quantity = left],
            !.inventory = @ - amount]

\* _settle_owned_return: the last fill closes the position, what it does not
\* sell becomes dust.
ReturnFilled(m, i, amount) ==
    LET o == m.orders[i]
        left == m.positions[o.capital].quantity - amount
        complete == o.filled + amount = o.quantity
    IN  [m EXCEPT
            !.positions[o.capital] = IF complete THEN Gone ELSE [@ EXCEPT !.quantity = left],
            !.dust = IF complete THEN @ + left ELSE @,
            !.inventory = @ - amount]

\* Faulty: a fill makes an order whose cancel is under way an ordinary one.
StatusForgetsCancel(o, amount) ==
    IF o.filled + amount = o.quantity THEN "FILLED" ELSE "PARTIAL"

Status(o, amount) ==
    IF o.status = "CANCEL_PENDING" THEN o.status
    ELSE IF o.filled + amount = o.quantity THEN "FILLED" ELSE "PARTIAL"

FillOne(m, i, amount) ==
    LET o == m.orders[i]
        filled == [m EXCEPT !.orders[i].filled = @ + amount,
                            !.orders[i].status = Status(o, amount)]
    IN  IF o.role = "ENTRY"
        THEN [EntryFilled(m, i, amount) EXCEPT !.orders = filled.orders]
        ELSE [ReturnFilled(m, i, amount) EXCEPT !.orders = filled.orders]

\* The checks every planned fill must pass before any is applied; the last one
\* is the bank's (M035_NEGATIVE_ORDINARY_CYCLE_PROHIBITED).
Funded(i, amount) ==
    LET o == orders[i]
        p == positions[o.capital]
    IN  /\ o.capital # None
        /\ o.role = "ENTRY" => /\ o.side = "BUY"
                               /\ p.state \in {"RESERVED", "CANCEL_PENDING"}
                               /\ amount * o.price <= p.cash
        /\ o.role = "RETURN" => /\ p.state = "RETURN" /\ amount <= p.quantity
                                /\ o.price < p.unit => o.authorized

\* The books after the fills of the queue's orders, the oldest first.
FilledInTurn(amounts) ==
    LET m[k \in 0..Len(queue)] ==
            IF k = 0 THEN Books
            ELSE LET i == queue[k]
                 IN  IF i \in DOMAIN amounts /\ amounts[i] > 0
                     THEN FillOne(m[k - 1], i, amounts[i]) ELSE m[k - 1]
    IN  m[Len(queue)]

\* consume_public_trade, with the amounts the estimator plans for one price.
ConsumePublicTrade(amounts) ==
    LET filled == {i \in DOMAIN amounts : amounts[i] > 0}
        m == FilledInTurn(amounts)
    IN  /\ filled # {}
        /\ \A i \in filled : Funded(i, amounts[i])
        /\ Len(m.positions) <= MaxCapital
        /\ orders' = m.orders /\ positions' = m.positions
        /\ inventory' = m.inventory /\ dust' = m.dust
        /\ UNCHANGED <<hotline, queue>>

\* The amounts the estimator may plan at one price: the older order is served
\* before the younger one gets anything.
Planned(side, price) ==
    LET standing == Standing(side, price)
    IN  {a \in [standing -> 0..Lot] :
            /\ \A i \in standing : a[i] <= Left(orders[i])
            /\ \A i, j \in standing :
                   /\ PlaceOf(i) < PlaceOf(j)
                   /\ a[j] > 0
                   => a[i] = Left(orders[i])}

----------------------------------------------------------------------------
Init ==
    /\ hotline = None
    /\ orders = <<>> /\ queue = <<>> /\ positions = <<>>
    /\ inventory = 0 /\ dust = 0

Next ==
    \/ InitializeGrid
    \/ \E target \in Hotline : ReceiveBook(target)
    \/ \E i \in DOMAIN orders, price \in Price : RequestC1Move(i, price)
    \/ \E i \in DOMAIN orders : AcknowledgeGridCancel(i)
    \/ \E amount \in Grant : Reserve(amount)
    \/ \E i \in DOMAIN orders, id \in DOMAIN positions : BindOrderCapital(i, id)
    \/ \E id \in DOMAIN positions, price \in Price, authorized \in BOOLEAN :
           \E quantity \in 1..positions[id].quantity :
               SubmitOwnedReturn(id, price, quantity, authorized)
    \/ \E i \in Range(queue) :
           \E amounts \in Planned(orders[i].side, orders[i].price) :
               ConsumePublicTrade(amounts)

Spec == Init /\ [][Next]_vars

----------------------------------------------------------------------------
\* Properties

Order ==
    [side : {"BUY", "SELL"}, rank : Rank \union {0}, column : {1, 2}, price : Nat \ {0},
     role : {"ENTRY", "RETURN"}, quantity : 1..Lot, filled : 0..Lot,
     status : Live \union {"UNFUNDED", "FILLED", "PARTIAL_FILLED", "CANCELLED"},
     capital : 0..Len(positions), replacement : Nat, authorized : BOOLEAN]

TypeOK ==
    /\ hotline \in Hotline \union {None}
    /\ orders \in Seq(Order) /\ \A i \in DOMAIN orders : Left(orders[i]) >= 0
    /\ IsInjective(queue) /\ Range(queue) \subseteq DOMAIN orders
    /\ positions \in Seq([state : {"RESERVED", "CANCEL_PENDING", "INVENTORY", "RETURN", "GONE"},
                          cash : Nat, quantity : Nat, unit : Nat])
    /\ inventory \in Nat /\ dust \in Nat

\* Whatever the estimator may still fill has capital for all of it: the checks of
\* consume_public_trade (M035_ENTRY_FILL_NOT_FUNDED and its like) never refuse a
\* trade, whatever cancels are under way.
FillsAreFunded ==
    \A i \in Range(queue) : Left(orders[i]) > 0 =>
        LET o == orders[i]
            p == positions[o.capital]
        IN  /\ o.capital # None
            /\ o.role = "ENTRY" => /\ p.state \in {"RESERVED", "CANCEL_PENDING"}
                                   /\ p.cash >= o.price * Left(o)
            /\ o.role = "RETURN" => p.state = "RETURN" /\ p.quantity >= Left(o)

\* The bank's cancel is pending exactly while that of a fillable order is, so the
\* request in the middle of a hotline move never raises, nor does the ACK.
CancelsAgree ==
    \A i \in DOMAIN orders :
        /\ orders[i].role = "ENTRY" /\ orders[i].status \in Live
        /\ Left(orders[i]) > 0
        => /\ i \in Range(queue)
           /\ orders[i].status = "CANCEL_PENDING" <=>
                  positions[orders[i].capital].state = "CANCEL_PENDING"

\* A capital id backs one working order at most (bind_order_capital,
\* submit_owned_return).
OneOrderPerCapital ==
    \A i, j \in Range(queue) :
        /\ orders[i].capital = orders[j].capital
        /\ Left(orders[i]) > 0 /\ Left(orders[j]) > 0
        => i = j

\* An order and the capital behind it agree, whoever asked for what in between.
OrdersAgreeWithBank == CancelsAgree /\ OneOrderPerCapital

\* "Multi-tick moves reconcile directly to the final causal hotline": however
\* books, cancels and acknowledgements interleave, a C2 entry stands at its
\* target of now, or its replacement will.
GridFollowsHotline ==
    \A i \in DOMAIN orders :
        LET o == orders[i] IN
        o.role = "ENTRY" /\ o.column = 2 =>
            /\ o.status \in {"UNFUNDED", "ACTIVE", "PARTIAL"} => o.price = Target(o, hotline)
            /\ o.status = "CANCEL_PENDING" => o.replacement = Target(o, hotline)

\* The pair's own count of its inventory is what the bank holds for it, dust
\* included, so that M035_NEGATIVE_PAIR_INVENTORY is never raised.
InventoryIsBanked ==
    inventory = dust + Total(DOMAIN positions,
                             [id \in DOMAIN positions |-> positions[id].quantity], MaxCapital)

\* "C2 capital is not reusable before cancel ACK": reserved cash leaves a position
\* by the ACK that takes its order out of the queue, or as the price of what has
\* been filled of its order, and never otherwise, not even in part.
CashFreedOnlyByAck ==
    [][\A id \in DOMAIN positions :
          positions'[id].cash # positions[id].cash =>
              \E i \in Range(queue) :
                  /\ orders[i].capital = id
                  /\ IF positions'[id].state = "GONE" THEN i \notin Range(queue')
                     ELSE positions[id].cash - positions'[id].cash
                              = (orders'[i].filled - orders[i].filled) * orders[i].price]_vars

============================================================================
