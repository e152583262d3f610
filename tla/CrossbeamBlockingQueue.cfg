\* Everything the queue is used for, with two distinguishable elements.
CONSTANTS
    p1 = p1
    c1 = c1
    a1 = a1
    e1 = e1
    e2 = e2
    None = None
    Producers <- ProducerAndAny
    Consumers <- ConsumerAndAny
    Watchers <- OnlyAny
    Elements <- TwoElements
    Timeouts <- MaxFinite
    Capacity = 2
SPECIFICATION FairSpec
INVARIANTS TypeOK
PROPERTIES ImplementsBoundedQueue AnswersWereTrue
           EnqueueServed DequeueServed WaitEmptyServed
