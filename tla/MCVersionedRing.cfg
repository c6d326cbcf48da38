\* One producer and one consumer, as in the test that is skipped.
SPECIFICATION Spec
CONSTANTS
    p1 = p1
    c1 = c1
    Producers <- OneProducer
    Consumers <- OneConsumer
    Size = 2
    MaxItems = 3
    NoItem = NoItem
PROPERTIES ImplementsQueue
