\* Two batches, rings of two cells that both fill up, room for one event, and
\* a stop at every point.
SPECIFICATION FairSpec
CONSTANTS
    BatchSize = 2
    RingCap = 2
    DecBatch = 2
    DspBatch = 2
    PullCap = 1
    EnableCANFuse = TRUE
    MaxFrames = 4
    KindsOf <- MCKindsOf
INVARIANTS TypeOK FramesAccounted SamplesAccounted InCaptureOrder EveryHitDispatched
PROPERTIES CancelEnds Drained
\* The gateway stops for good once every loop has ended.
CHECK_DEADLOCK FALSE
