SPECIFICATION Spec
CONSTANTS
    Responses <- MCResponses
    Base = 2
    HeaderMax = 6
    BodyMax = 2
    WholeEnds = FALSE
    MaxRounds = 0
    MaxFetches = 2
INVARIANTS
    BodyIntact
CHECK_DEADLOCK FALSE
