\* CompletePending with a queue as large as the number of threads: calls return.
CONSTANTS
    m1 = m1
    m2 = m2
    j1 = j1
    j2 = j2
    j3 = j3
    r1 = r1
    r2 = r2
    Start = Start
    Empty = Empty
    None = None
    Tasks = 2
    QueueSize = 2
    ShutdownMode = "CompletePending"
    HandlerPanics = TRUE
    ShutdownAgain = FALSE
    Clients <- TwoClients
    Jobs <- TwoJobs
    Rounds <- OneRound
    MutRounds <- OneRound
    Failures <- OnlyErr
SPECIFICATION FairSpec
PROPERTIES ShutdownTerminates JoinTerminates JobsFinish InAllThreadsTerminates
\* the pool stops when its threads have ended, have panicked or wait at a barrier
CHECK_DEADLOCK FALSE
