\* Two producers, two consumers, a wait_empty caller, calls with and without a
\* timeout: everything that is true of every use of the queue.
CONSTANTS
    p1 = p1
    p2 = p2
    c1 = c1
    c2 = c2
    w1 = w1
    e1 = e1
    e2 = e2
    None = None
    Producers <- TwoProducers
    Consumers <- TwoConsumers
    Watchers <- OneWatcher
    Elements <- TwoElements
    Timeouts <- MaxFinite
    Capacity = 2
SPECIFICATION Spec
SYMMETRY Symmetry
INVARIANTS TypeOK FlagsAgree WatchersAlerted
PROPERTIES ImplementsBoundedQueue
