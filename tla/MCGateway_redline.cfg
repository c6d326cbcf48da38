\* One batch with two redline events, and room for one in pullBuf.
SPECIFICATION Spec
CONSTANTS
    BatchSize = 2
    RingCap = 2
    DecBatch = 2
    DspBatch = 2
    PullCap = 1
    EnableCANFuse = TRUE
    MaxFrames = 2
    KindsOf <- MCRedlines
INVARIANTS EveryRedlineStops
CHECK_DEADLOCK FALSE
