CONSTANTS
    Lower = 2
    Upper = 3
    InitialUsdc = 4
    FixedLot = 0
    QueueMultiplier = 1
    MarketLatency = 1
    DecisionLatency = 0
    SubmitLatency = 0
    CancelLatency = 1
    MaxTime = 4
    MaxEvents = 4
    MaxCancels = 2
    MaxDepth = 1
    MaxPrint = 3
SPECIFICATION Spec
CHECK_DEADLOCK FALSE
INVARIANTS TypeOK LedgerFollowsFills CancelIsNotLost StrandedOnlyByExchange
PROPERTIES FillsAreCausal HaltStartsNoCycle
