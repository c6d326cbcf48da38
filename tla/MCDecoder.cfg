\* Simulated frames, whole, damaged and cut, and frames made by hand.
SPECIFICATION FairSpec
CONSTANTS
    Frames <- MCFrames
    Batches <- MCBatches
INVARIANTS TypeOK SlicesOK RoundTrip CutRejected
PROPERTIES Returns
\* A call ends.
CHECK_DEADLOCK FALSE
