\* Trackers of three and two rows that wrap, timestamps that jump back.
SPECIFICATION Spec
CONSTANTS
    Interval = 1
    SoftWindow = 2
    EnergyWindow = 2
    MinSoft = 3
    MinEnergy = 2
    SoftMin = 2
    Modulus = 16
    Powers = {1, 4}
    Jumps <- MCJumps
    MaxTime = 5
    MaxPushes = 5
    MaxResets = 1
INVARIANTS TypeOK RowsAreFresh EnergyOfNewest
PROPERTIES ImplementsOutcome
\* The bounds end the behaviour.
CHECK_DEADLOCK FALSE
