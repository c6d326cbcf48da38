\* Two producers and two consumers on the smallest buffer, two laps of it;
\* every thread is scheduled.  No symmetry, which liveness would not survive.
SPECIFICATION FairSpec
CONSTANTS
    p1 = p1
    p2 = p2
    c1 = c1
    c2 = c2
    Producers <- TwoProducers
    Consumers <- TwoConsumers
    Size = 2
    MaxItems = 2
    NoItem = NoItem
    Stalled = {}
INVARIANTS TypeOK RingInv NoDataRace DequeuedInOrder
PROPERTIES SequencesGrow ImplementsQueue AllDelivered
