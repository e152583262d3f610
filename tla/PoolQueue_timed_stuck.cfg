\* submit beside try_submit: a wakeup can be lost.
CONSTANTS
    p1 = p1
    p2 = p2
    c1 = c1
    c2 = c2
    w1 = w1
    e1 = e1
    e2 = e2
    None = None
    Producers <- TwoClients
    Consumers <- TwoWorkers
    Watchers <- OneOwner
    Elements <- OneElement
    Timeouts <- MaxFinite
    Capacity = 1
SPECIFICATION FairPoolSpec
PROPERTIES EnqueueServed
