SPECIFICATION FairSpec
CONSTANTS
    u = u
    v = v
    None = None
    HostBridge = FALSE
    Tools <- Everything
    Urls <- TwoUrls
    MaxSteps = 1
    MaxRetries = 2
    HistoryMax = 5
    MaxTurns = 2
    StepBound = 2
INVARIANTS TypeOK TurnHasFetch RequestsAccounted HistoryInOrder
PROPERTIES TurnEnds
