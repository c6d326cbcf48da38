\* Two devices, and enough frames for the sequence number to wrap.
SPECIFICATION Spec
CONSTANTS
    Devices = {1, 2}
    SeqMod = 2
    BondIDs = {42}
    Reasons = {17}
    PullGrams = {499}
    DevPcts <- MCNone
    MaxFrames = 3
INVARIANTS TypeOK IdsDiffer EmergencyReadable StatsMatchBus
\* The bound on frames ends the behaviour.
CHECK_DEADLOCK FALSE
