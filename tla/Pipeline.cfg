\* All examples, with four items, two threads per stage and queues of two.
CONSTANTS
    Items = 4
    QueueSize = 2
    Many = 2
SPECIFICATION FairSpec
INVARIANTS TypeOK Conserved StageFinished NobodyPanics Complete
PROPERTIES Finishes
\* the process ends with main
CHECK_DEADLOCK FALSE
