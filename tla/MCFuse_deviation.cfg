\* One frame with the deviation of the unit test.
SPECIFICATION Spec
CONSTANTS
    Devices = {1}
    SeqMod = 2
    BondIDs = {42}
    Reasons = {17}
    PullGrams = {499}
    DevPcts <- MCNegative
    MaxFrames = 1
INVARIANT DeviationReadable
\* The bound on frames ends the behaviour.
CHECK_DEADLOCK FALSE
