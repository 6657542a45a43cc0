\* A cancel drops the public cohort behind the order.
SPECIFICATION Spec
CONSTANTS
    Book = {"USDCUSDT"}
    Side = {"BUY"}
    Price = {1}
    OrderId = {o1, o2, o3}
    EventId = {e1, e2}
    MaxActivation = 4
    MaxTime = 0
    OrderQuantity = {1}
    Observed = {0, 1, 2}
    Traded = {1}
    o1 = o1
    o2 = o2
    o3 = o3
    e1 = e1
    e2 = e2
PROPERTIES CancelKeepsCohorts
