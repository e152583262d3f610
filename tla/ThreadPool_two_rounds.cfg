\* Two clients call in_all_threads at the same time.
CONSTANTS
    m1 = m1
    m2 = m2
    j1 = j1
    j2 = j2
    j3 = j3
    r1 = r1
    r2 = r2
    Start = Start
    Empty = Empty
    None = None
    Tasks = 2
    QueueSize = 2
    ShutdownMode = "CompletePending"
    HandlerPanics = FALSE
    ShutdownAgain = FALSE
    Clients <- TwoClients
    Jobs <- OneJob
    Rounds <- TwoRounds
    MutRounds <- NoRounds
    Failures <- NoFailures
SPECIFICATION FairSpec
PROPERTIES InAllThreadsTerminates
\* the pool stops when its threads have ended, have panicked or wait at a barrier
CHECK_DEADLOCK FALSE
