\* shutdown() returns while commands are still executing.
CONSTANTS
    m1 = m1
    m2 = m2
    j1 = j1
    j2 = j2
    j3 = j3
    r1 = r1
    r2 = r2
    Start = Start
    Empty = Empty
    None = None
    Tasks = 2
    QueueSize = 2
    ShutdownMode = "CompletePending"
    HandlerPanics = FALSE
    ShutdownAgain = FALSE
    Clients <- OneClient
    Jobs <- TwoJobs
    Rounds <- NoRounds
    MutRounds <- NoRounds
    Failures <- NoFailures
SPECIFICATION Spec
PROPERTIES ShutdownMeansComplete
\* the pool stops when its threads have ended, have panicked or wait at a barrier
CHECK_DEADLOCK FALSE
