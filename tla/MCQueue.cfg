\* Two sides, two prices each, two columns: activation, replacement, cancel,
\* and two trades that sweep the prices.
SPECIFICATION Spec
CONSTANTS
    Book = {"USDCUSDT"}
    Side = {"BUY", "SELL"}
    Price = {1, 2}
    OrderId = {o1, o2}
    EventId = {e1, e2}
    MaxActivation = 3
    MaxTime = 1
    OrderQuantity = {2}
    Observed = {0, 1}
    Traded = {3}
    o1 = o1
    o2 = o2
    e1 = e1
    e2 = e2
SYMMETRY Symmetry
INVARIANTS TypeOK
PROPERTIES QueueAheadNeverGrows PriorityIsNotInherited TradeSpentOnce PriceTimePriority
