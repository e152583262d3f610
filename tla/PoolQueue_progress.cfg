\* submit and shutdown only, two workers: no wakeup is lost, everyone is served.
CONSTANTS
    p1 = p1
    p2 = p2
    c1 = c1
    c2 = c2
    w1 = w1
    e1 = e1
    e2 = e2
    None = None
    Producers <- TwoClients
    Consumers <- TwoWorkers
    Watchers <- OneOwner
    Elements <- TwoElements
    Timeouts <- MaxOnly
    Capacity = 2
SPECIFICATION FairPoolSpec
INVARIANTS DequeuersCovered ProducersCovered
PROPERTIES EnqueueServed DequeueServed WaitEmptyServed
