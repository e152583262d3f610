\* Immediate: jobs stay in the queue, whose room is too small for them and every empty command;
\* the default error handler, which panics.
CONSTANTS
    m1 = m1
    m2 = m2
    j1 = j1
    j2 = j2
    j3 = j3
    r1 = r1
    r2 = r2
    Start = Start
    Empty = Empty
    None = None
    Tasks = 2
    QueueSize = 3
    ShutdownMode = "Immediate"
    HandlerPanics = TRUE
    ShutdownAgain = FALSE
    Clients <- TwoClients
    Jobs <- TwoJobs
    Rounds <- NoRounds
    MutRounds <- NoRounds
    Failures <- OnlyErr
SPECIFICATION FairSpec
INVARIANTS OneMoreCommand EveryWorkerIsWoken EveryFailureReported
PROPERTIES ImplementsExecutor ShutdownWaitsOnlyIfAbandoned JoinTerminates
\* the pool stops when its threads have ended, also with shutdown before a full queue
CHECK_DEADLOCK FALSE
