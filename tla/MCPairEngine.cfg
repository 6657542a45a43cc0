CONSTANTS
    Side = {"BUY", "SELL"}
    Rank = {1}
    Lot = 2
    Hotline = {3,4}
    Price = {2}
    Grant = {6}
    MaxOrder = 6
    MaxCapital = 3
SPECIFICATION Spec
CHECK_DEADLOCK FALSE
INVARIANTS TypeOK FillsAreFunded OrdersAgreeWithBank GridFollowsHotline InventoryIsBanked
PROPERTIES CashFreedOnlyByAck
