SPECIFICATION Spec
CONSTANTS
    Responses <- MCResponses
    Base = 2
    HeaderMax = 6
    BodyMax = 2
    WholeEnds = TRUE
    MaxRounds = 1
    MaxFetches = 2
INVARIANTS
    TypeOK
    BodyIntact
    CompleteExactly
    CaptureTrue
CHECK_DEADLOCK FALSE
