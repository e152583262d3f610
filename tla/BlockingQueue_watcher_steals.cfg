\* wait_empty beside two consumers: it can take the wakeup of a dequeue.
CONSTANTS
    p1 = p1
    p2 = p2
    c1 = c1
    c2 = c2
    w1 = w1
    e1 = e1
    e2 = e2
    None = None
    Producers <- TwoProducers
    Consumers <- TwoConsumers
    Watchers <- OneWatcher
    Elements <- OneElement
    Timeouts <- MaxOnly
    Capacity = 2
SPECIFICATION FairSpec
PROPERTIES DequeueServed
