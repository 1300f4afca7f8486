SPECIFICATION Spec
CONSTANTS
    StreamLen = 14
    Start = 60
    SeqSpan = 64
    Window = 6
    MaxSeg = 3
    Slots = 3
    SlotLen = 2
    BufLen = 13
    YieldAt = 4
    Burst = 3
INVARIANTS TypeOK StreamIntact
PROPERTIES StreamRead
