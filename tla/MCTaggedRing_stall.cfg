\* One producer may stall in mid-call, the other is scheduled.
SPECIFICATION FairSpec
CONSTANTS
    p1 = p1
    p2 = p2
    c1 = c1
    c2 = c2
    Producers <- TwoProducers
    Consumers <- NoThread
    Size = 4
    MaxItems = 2
    NoItem = NoItem
    Stalled <- OneProducer
PROPERTIES LockFree
CHECK_DEADLOCK FALSE
