SPECIFICATION Spec
CONSTANTS
    BufCount = 4
    QueueSize = 4
    IndexSpan = 8
    MaxFrames = 10
    MaxSends = 4
INVARIANTS TypeOK OneOwner OwnFrame
PROPERTIES LossesKnown TxBufferOwned StuckOnlyByLateRead
