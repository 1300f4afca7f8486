SPECIFICATION FairSpec
CONSTANTS
    MaxRetries = 1
    DefaultSteps = 3
    Budgets <- AnyBudget
INVARIANTS TypeOK TaskHasFetch PayloadTrue CompletedIsEarned RequestsBounded CompletedAsItSeems
PROPERTIES TaskEnds
