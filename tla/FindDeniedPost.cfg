SPECIFICATION Spec
CONSTANTS
    MaxRetries = 1
    DefaultSteps = 3
    Budgets <- AnyBudget
INVARIANTS DeniedNotCompleted
