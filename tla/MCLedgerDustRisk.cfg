\* One pair with residues, dust of two ages, and losses that are authorized.
SPECIFICATION Spec
CONSTANTS
    Asset = {"USDT", "AAA", "BBB"}
    TradedAsset <- MCTradedAsset
    EntryGain <- MCEntryGain
    ReturnGain <- MCReturnGain
    NoAuthorization = NoAuthorization
    Pair = {"PAIR_A"}
    InitialBank = 4
    MaxCapital = 4
    MaxCycle = 2
    AuthorizationId = {a1}
    MaxTime = 1
    Grant = {3}
    Mark = {1}
    Cost = {0}
    ExitQuantity = {2, 3}
    Loss = {1}
INVARIANTS
    LossesAuthorized
PROPERTIES
    DustMovesByRule
