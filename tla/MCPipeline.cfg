\* Buffers of two and three cells that wrap, and one Reset.
SPECIFICATION Spec
CONSTANTS
    Window = 2
    Rows = 3
    MaxAnom = 2
    MaxPull = 2
    BaselineN = 2
    SoftMin = 2
    MaxSamples = 7
    MaxResets = 1
INVARIANTS TypeOK WindowInOrder RowsAreRecent EventsAreRecent IdsNumberEvents NoTwoAlarmsMissed BaselineOfFirstRows
\* The bounds end the behaviour.
CHECK_DEADLOCK FALSE
