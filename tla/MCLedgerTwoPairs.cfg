SPECIFICATION Spec
CONSTANTS
    Asset = {"USDT", "AAA", "BBB"}
    TradedAsset <- MCTradedAsset
    EntryGain <- MCEntryGain
    ReturnGain <- MCReturnGain
    NoAuthorization = NoAuthorization
    Pair = {"PAIR_A", "PAIR_B"}
    InitialBank = 4
    MaxCapital = 3
    MaxCycle = 2
    AuthorizationId = {}
    MaxTime = 0
    Grant = {2, 3}
    Mark = {1}
    Cost = {0, 1}
    ExitQuantity = {2}
    Loss = {1}
INVARIANTS
    TypeOK
    Conservation
    ReconcileHolds
    PendingCapitalIsCash
    BooksAreExplained
PROPERTIES
    CashReturnsOnce
    ImplementsSharedBank
