SPECIFICATION Spec
CONSTANTS
    c1 = c1
    c2 = c2
    s1 = s1
    a = a
    b = b
    None = None
    Config <- MCConfig
    Scenario <- MCScenario
    Commit <- MCCommit
    FrozenProtocol <- MCFrozenProtocol
    RetryId = 1
    FailureKind = {"representation", "report"}
    History <- MCHistory
PROPERTY
    FailuresAreKept
CHECK_DEADLOCK FALSE
