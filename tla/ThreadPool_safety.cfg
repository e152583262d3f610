\* CompletePending: failing and panicking commands, two clients, two rounds.
CONSTANTS
    m1 = m1
    m2 = m2
    j1 = j1
    j2 = j2
    j3 = j3
    r1 = r1
    r2 = r2
    Start = Start
    Empty = Empty
    None = None
    Tasks = 2
    QueueSize = 2
    ShutdownMode = "CompletePending"
    HandlerPanics = FALSE
    ShutdownAgain = TRUE
    Clients <- TwoClients
    Jobs <- ThreeJobs
    Rounds <- TwoRounds
    MutRounds <- OneRound
    Failures <- AllFailures
SPECIFICATION Spec
SYMMETRY Symmetry
INVARIANTS TypeOK NothingLost CompletePendingCompletes OneMoreCommand
           InAllThreadsFlushes EveryWorkerIsWoken ShutdownHasRoom
           EveryFailureReported
PROPERTIES ImplementsExecutor
\* the pool stops when its threads have ended, have panicked or wait at a barrier
CHECK_DEADLOCK FALSE
