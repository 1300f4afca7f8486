SPECIFICATION Spec
CONSTANTS
    Responses <- MCResponses
    Base = 2
    HeaderMax = 6
    BodyMax = 2
    WholeEnds = TRUE
    MaxRounds = 1
    MaxFetches = 2
INVARIANTS
    RoundBody
CHECK_DEADLOCK FALSE
