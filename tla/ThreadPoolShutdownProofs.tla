----------------------- MODULE ThreadPoolShutdownProofs -----------------------
(***************************************************************************)
(* Proofs about the end of a pool: what shutdown finds and leaves in the   *)
(* queue, who it wakes, and what join reports.                             *)
(***************************************************************************)
EXTENDS ThreadPoolProofs

(* join reports every failure.                                             *)

\* What join has reported and what it will: r of a worker's loop, or its panic,
\* stands for every command that failed in it.
FailuresKept ==
    /\ \A w \in Workers : w \in erred <=> Failed(w)
    /\ \A w \in Workers : w \in reported <=> w > threads /\ w \in erred

LEMMA WorkFails ==
    ASSUME TypeOK, NEW w \in Workers, Work(w), w \in erred <=> Failed(w)
    PROVE  /\ UNCHANGED <<threads, reported>>
           /\ ~Terminated(w)
           /\ w \in erred' <=> Failed(w)'
           /\ \A v \in Workers \ {w} : /\ v \in erred' <=> v \in erred
                                       /\ Failed(v)' <=> Failed(v)
<1> USE DEF TypeOK, OnlyWorker, Moves, Goto, clientVars, Terminated, Failed
<1>1. \A j \in Jobs : j # None
  BY PoolAssumption
<1>2. CASE ExecuteJob(w)
  BY <1>1, <1>2 DEF ExecuteJob, Ends
<1>3. CASE EnterF(w) \/ LeaveF(w) \/ PanicInF(w)
  BY <1>3 DEF EnterF, LeaveF, PanicInF
<1>4. CASE Begin(w) \/ LeaveBarrier(w) \/ TestStopped(w) \/ Dequeue(w) \/ ExecuteEmpty(w)
  BY <1>4 DEF Begin, LeaveBarrier, TestStopped, Dequeue, ExecuteEmpty
<1> QED BY <1>2, <1>3, <1>4 DEF Work

LEMMA ClientFails ==
    ASSUME NEW c \in Clients, Proceed(c) \/ Invoke(c)
    PROVE  /\ UNCHANGED <<worker, failure, erred>>
           /\ JoinThread(c) \/ UNCHANGED <<threads, reported>>
BY DEF Proceed, Invoke, Submit, SubmitGivesUp, SubmitRound, WaitRound,
       InAllThreadsReturns, WaitEmpty, StoreStopped, SubmitEmpty, ShutdownReturns,
       JoinThread, JoinReturns, CallSubmit, CallInAllThreads, Shutdown, Join,
       OnlyClient, OnlyPool, OnlyCall, workerVars, clientVars

LEMMA NextFailuresKept ==
    CompletionInv /\ FailuresKept /\ [Next]_vars => FailuresKept'
<1> SUFFICES ASSUME CompletionInv, FailuresKept, [Next]_vars PROVE FailuresKept'
  OBVIOUS
<1>0. TypeOK /\ Joined
  BY DEF CompletionInv
<1>1. ASSUME NEW w \in Workers, Work(w) PROVE FailuresKept'
  <2>1. /\ UNCHANGED <<threads, reported>>
        /\ ~Terminated(w)
        /\ w \in erred' <=> Failed(w)'
        /\ \A v \in Workers \ {w} : /\ v \in erred' <=> v \in erred
                                    /\ Failed(v)' <=> Failed(v)
    BY <1>0, <1>1, WorkFails DEF FailuresKept
  <2>2. ~(w > threads)
    BY <1>0, <2>1 DEF Joined
  <2>3. \A v \in Workers : v \in erred' <=> Failed(v)'
    BY <2>1 DEF FailuresKept
  <2>4. \A v \in Workers : v \in reported' <=> v > threads' /\ v \in erred'
    BY <2>1, <2>2 DEF FailuresKept
  <2> QED BY <2>3, <2>4 DEF FailuresKept
<1>2. ASSUME NEW c \in Clients, Proceed(c) \/ Invoke(c) PROVE FailuresKept'
  <2>1. /\ UNCHANGED <<worker, failure, erred>>
        /\ JoinThread(c) \/ UNCHANGED <<threads, reported>>
    BY <1>2, ClientFails
  <2>2. CASE UNCHANGED <<threads, reported>>
    BY <2>1, <2>2 DEF FailuresKept, Failed
  <2>3. CASE JoinThread(c)
    <3>1. threads \in Workers /\ threads \in Nat /\ threads' = threads - 1
      BY <1>0, <2>3, PoolAssumption DEF JoinThread, TypeOK, Workers
    <3>2. reported' = reported \cup (IF Failed(threads) THEN {threads} ELSE {})
      BY <2>3 DEF JoinThread
    <3>3. \A w \in Workers : w > threads' <=> w > threads \/ w = threads
      BY <3>1 DEF Workers
    <3> QED BY <2>1, <3>1, <3>2, <3>3 DEF FailuresKept, Failed
  <2> QED BY <2>1, <2>2, <2>3
<1>3. CASE New \/ UNCHANGED vars
  BY <1>3 DEF FailuresKept, Failed, New, OnlyClient, workerVars, clientVars, vars
<1> QED BY <1>1, <1>2, <1>3 DEF Next

\* join has handed exactly the threads in which a command failed to
\* join_error_handler: of those it has reached, in whatever order their commands
\* failed and succeeded.
THEOREM EveryFailureReportedAlways == Spec => []EveryFailureReported
<1>1. Init => FailuresKept
  BY PoolAssumption DEF Init, FailuresKept, Failed, Workers
<1>2. FailuresKept => EveryFailureReported
  BY DEF FailuresKept, EveryFailureReported
<1> QED BY <1>1, <1>2, InitCompletionInv, NextCompletionInv, NextFailuresKept, PTL
        DEF Spec

-------------------------------------------------------------------------------
(* shutdown has the pool to itself.                                        *)

\* &mut self: while a call has the pool to itself nobody else is in a call.
Alone == \A c, d \in Clients : c # d /\ client[c].op \in Exclusive =>
                                  client[d].op \in {"idle", "panicked"}

InACall(c) == client[c].op \notin {"idle", "panicked"}

LEMMA AgainEffect ==
    ASSUME TypeOK, NEW c \in Clients, Again(c)
    PROVE  /\ client'[c].op = client[c].op /\ client'[c].n = client[c].n + 1
           /\ \A d \in Clients \ {c} : client'[d] = client[d]
BY DEF TypeOK, ClientOK, ClientStates, Again

\* What the state of a client that goes on with its call, or makes one, becomes.
LEMMA ClientMoves ==
    ASSUME TypeOK, NEW c \in Clients, Proceed(c) \/ Invoke(c)
    PROVE  /\ \A d \in Clients \ {c} : client'[d] = client[d]
           /\ \/ InACall(c) /\ (client'[c].op \in Exclusive => client[c].op \in Exclusive)
              \/ Borrows(c) /\ client'[c].op \notin Exclusive
              \/ BorrowsMut(c)
<1>0. \A op : ReturnTo(c, op) =>
         /\ client'[c].op = op
         /\ \A d \in Clients \ {c} : client'[d] = client[d]
  BY ClientEffect
<1>1. \A op, arg : Call(c, op, arg) =>
         /\ client'[c].op = op
         /\ \A d \in Clients \ {c} : client'[d] = client[d]
  BY ClientEffect
<1>2. Again(c) => /\ client'[c].op = client[c].op
                  /\ \A d \in Clients \ {c} : client'[d] = client[d]
  BY AgainEffect
<1> USE DEF OnlyPool, OnlyCall, InACall, At, Exclusive, Submits, clientVars
<1>3. CASE Submit(c) \/ SubmitGivesUp(c) \/ InAllThreadsReturns(c) \/ ShutdownReturns(c)
           \/ JoinReturns(c)
  BY <1>0, <1>3 DEF Submit, SubmitGivesUp, InAllThreadsReturns, ShutdownReturns, JoinReturns
<1>4. CASE SubmitRound(c) \/ WaitRound(c) \/ SubmitEmpty(c)
  BY <1>2, <1>4 DEF SubmitRound, WaitRound, SubmitEmpty
<1>5. CASE WaitEmpty(c) \/ StoreStopped(c)
  BY <1>1, <1>5 DEF WaitEmpty, StoreStopped
<1>6. CASE JoinThread(c)
  BY <1>0, <1>6 DEF JoinThread
<1>7. CASE \E j \in Jobs, op \in Submits : CallSubmit(c, j, op)
  BY <1>0, <1>1, <1>7 DEF CallSubmit
<1>8. CASE \E r \in Rounds : CallInAllThreads(c, r)
  BY <1>0, <1>1, <1>8 DEF CallInAllThreads
<1>9. CASE Shutdown(c) \/ Join(c)
  BY <1>1, <1>9 DEF Shutdown, Join
<1> QED BY <1>3, <1>4, <1>5, <1>6, <1>7, <1>8, <1>9 DEF Proceed, Invoke

LEMMA NextAlone == TypeOK /\ Alone /\ [Next]_vars => Alone'
<1> SUFFICES ASSUME TypeOK, Alone, [Next]_vars PROVE Alone'
  OBVIOUS
<1>1. CASE UNCHANGED client
  BY <1>1 DEF Alone
<1>2. ASSUME NEW c \in Clients, Proceed(c) \/ Invoke(c) PROVE Alone'
  <2>1. /\ \A d \in Clients \ {c} : client'[d] = client[d]
        /\ \/ InACall(c) /\ (client'[c].op \in Exclusive => client[c].op \in Exclusive)
           \/ Borrows(c) /\ client'[c].op \notin Exclusive
           \/ BorrowsMut(c)
    BY <1>2, ClientMoves
  <2>2. SUFFICES ASSUME NEW a \in Clients, NEW d \in Clients, a # d,
                        client'[a].op \in Exclusive
                 PROVE  client'[d].op \in {"idle", "panicked"}
    BY DEF Alone
  <2>3. CASE a # c /\ d # c
    BY <2>1, <2>2, <2>3 DEF Alone
  <2>4. CASE a = c
    BY <2>1, <2>2, <2>4 DEF Alone, BorrowsMut
  <2>5. CASE d = c
    BY <2>1, <2>2, <2>5 DEF Alone, BorrowsMut, Borrows, InACall, Exclusive
  <2> QED BY <2>3, <2>4, <2>5
<1>3. ASSUME NEW w \in Workers, Work(w) PROVE UNCHANGED client
  BY <1>3, WorkFrame
<1> QED BY <1>1, <1>2, <1>3, NewFrame DEF Next
-------------------------------------------------------------------------------
(* The empty commands of shutdown.                                         *)

LEMMA EnqueueLength ==
    ASSUME TypeOK, NEW e \in Commands, Enqueue(e)
    PROVE  Len(queue') = Len(queue) + 1 /\ Len(queue) \in Nat
BY DEF TypeOK, Enqueue

LEMMA DequeueLength ==
    ASSUME TypeOK, NEW w \in Workers, Dequeue(w)
    PROVE  Len(queue') = Len(queue) - 1 /\ Len(queue) \in Nat /\ queue # <<>>
BY DEF TypeOK, Dequeue

\* The steps of a client, from where it is in shutdown.
LEMMA ClientShutdown ==
    ASSUME TypeOK, NEW c \in Clients, Proceed(c) \/ Invoke(c)
    PROVE  \/ StoreStopped(c) \/ SubmitEmpty(c) \/ ShutdownReturns(c)
           \/ /\ UNCHANGED stopped
              /\ client[c].op # "shutdown" /\ client'[c].op # "shutdown"
              /\ UNCHANGED queue \/ \E e \in Commands : Enqueue(e)
              /\ client'[c].op = "stop" => WaitEmpty(c) \/ ShutdownMode = "Immediate"
<1>0. \A op : ReturnTo(c, op) => client'[c].op = op
  BY ClientEffect
<1>1. \A op, arg : Call(c, op, arg) => client'[c].op = op
  BY ClientEffect
<1>2. Again(c) => client'[c].op = client[c].op
  BY AgainEffect
<1>a. \A op \in Submits : op \notin {"stop", "shutdown"}
  BY DEF Submits
<1> USE DEF OnlyPool, OnlyCall, At, clientVars
<1>3. CASE Submit(c)
  <2>1. client[c].arg \in Commands
    BY <1>3 DEF Submit, TypeOK, ClientOK, Commands
  <2> QED BY <1>0, <1>a, <1>3, <2>1 DEF Submit
<1>4. CASE SubmitGivesUp(c) \/ InAllThreadsReturns(c) \/ JoinReturns(c)
  BY <1>0, <1>4 DEF SubmitGivesUp, InAllThreadsReturns, JoinReturns
<1>5. CASE SubmitRound(c)
  <2>1. client[c].arg \in Commands
    BY <1>5 DEF SubmitRound, TypeOK, ClientOK, Commands
  <2> QED BY <1>2, <1>5, <2>1 DEF SubmitRound
<1>6. CASE WaitRound(c)
  BY <1>6 DEF WaitRound
<1>7. CASE WaitEmpty(c)
  BY <1>1, <1>7 DEF WaitEmpty
<1>8. CASE JoinThread(c)
  BY <1>0, <1>8 DEF JoinThread
<1>9. CASE \E j \in Jobs, op \in Submits : CallSubmit(c, j, op)
  <2>1. PICK j \in Jobs, op \in Submits : CallSubmit(c, j, op)
    BY <1>9
  <2>2. client'[c].op \in {op, "panicked"}
    BY <1>0, <1>1, <2>1 DEF CallSubmit
  <2> QED BY <1>a, <2>1, <2>2 DEF CallSubmit, Borrows
<1>10. CASE \E r \in Rounds : CallInAllThreads(c, r)
  BY <1>0, <1>1, <1>10 DEF CallInAllThreads, Borrows
<1>11. CASE Shutdown(c) \/ Join(c)
  <2>1. client[c].op = "idle" /\ UNCHANGED <<stopped, queue>>
    BY <1>11 DEF Shutdown, Join, BorrowsMut
  <2>2. client'[c].op # "shutdown"
    BY <1>1, <1>11 DEF Shutdown, Join
  <2>3. client'[c].op = "stop" => ShutdownMode = "Immediate"
    BY <1>1, <1>11 DEF Shutdown, Join
  <2> QED BY <2>1, <2>2, <2>3
<1> QED BY <1>3, <1>4, <1>5, <1>6, <1>7, <1>8, <1>9, <1>10, <1>11
        DEF Proceed, Invoke

\* CompletePending: what shutdown has seen empty holds its own commands only.
OwnCommandsOnly ==
    ShutdownMode = "CompletePending" =>
        \A c \in Clients : /\ At(c, "stop") => queue = <<>>
                           /\ At(c, "shutdown") => Len(queue) <= client[c].n

LEMMA NextOwnCommandsOnly ==
    TypeOK /\ Alone /\ OwnCommandsOnly /\ [Next]_vars => OwnCommandsOnly'
<1> SUFFICES ASSUME TypeOK, Alone, OwnCommandsOnly, [Next]_vars,
                    ShutdownMode = "CompletePending", NEW d \in Clients
             PROVE  /\ client'[d].op = "stop" => queue' = <<>>
                    /\ client'[d].op = "shutdown" => Len(queue') <= client'[d].n
  BY DEF OwnCommandsOnly, At
<1>0. client[d].n \in 0 .. Tasks /\ Tasks \in Nat /\ Len(queue) \in Nat
  BY PoolAssumption DEF TypeOK, ClientOK, ClientStates
<1>1. ASSUME NEW w \in Workers, Work(w)
      PROVE  /\ client'[d].op = "stop" => queue' = <<>>
             /\ client'[d].op = "shutdown" => Len(queue') <= client'[d].n
  <2>1. CASE Dequeue(w)
    BY <1>0, <1>1, <2>1, WorkFrame, DequeueLength DEF OwnCommandsOnly, At
  <2>2. CASE ~Dequeue(w)
    BY <1>1, <2>2, WorkFrame, WorkExecutes DEF OwnCommandsOnly, At
  <2> QED BY <2>1, <2>2
<1>2. ASSUME NEW c \in Clients, Proceed(c) \/ Invoke(c)
      PROVE  /\ client'[d].op = "stop" => queue' = <<>>
             /\ client'[d].op = "shutdown" => Len(queue') <= client'[d].n
  <2>1. CASE d # c
    <3>1. client'[d] = client[d] /\ (InACall(c) \/ Borrows(c) \/ BorrowsMut(c))
      BY <1>2, <2>1, ClientMoves
    <3>2. client[d].op \notin {"stop", "shutdown"}
      BY <2>1, <3>1 DEF Alone, InACall, Borrows, BorrowsMut, Exclusive
    <3> QED BY <3>1, <3>2
  <2>2. CASE d = c /\ StoreStopped(c)
    <3>1. queue' = queue /\ queue = <<>>
      BY <2>2 DEF StoreStopped, OwnCommandsOnly, At
    <3>2. client'[c] = [op |-> "shutdown", arg |-> None, n |-> 0]
      BY <2>2 DEF StoreStopped, Call, TypeOK, ClientOK
    <3> QED BY <2>2, <3>1, <3>2
  <2>3. CASE d = c /\ SubmitEmpty(c)
    <3>1. Len(queue') = Len(queue) + 1
      BY <2>3, EnqueueLength DEF SubmitEmpty, Commands
    <3>2. client'[c].op = "shutdown" /\ client'[c].n = client[c].n + 1
          /\ client[c].op = "shutdown"
      BY <2>3, AgainEffect DEF SubmitEmpty, At
    <3> QED BY <1>0, <2>3, <3>1, <3>2 DEF OwnCommandsOnly, At
  <2>4. CASE d = c /\ ShutdownReturns(c)
    <3>1. client'[c].op = "idle"
      BY <2>4, ClientEffect DEF ShutdownReturns
    <3> QED BY <2>4, <3>1
  <2>5. CASE d = c /\ ~StoreStopped(c) /\ ~SubmitEmpty(c) /\ ~ShutdownReturns(c)
    <3>1. /\ client'[c].op # "shutdown"
          /\ client'[c].op = "stop" => WaitEmpty(c)
      BY <1>2, <2>5, ClientShutdown
    <3>2. WaitEmpty(c) => queue' = <<>>
      BY DEF WaitEmpty, OnlyCall
    <3> QED BY <2>5, <3>1, <3>2
  <2> QED BY <2>1, <2>2, <2>3, <2>4, <2>5
<1>3. CASE New \/ UNCHANGED vars
  BY <1>3, NewFrame DEF OwnCommandsOnly, At
<1> QED BY <1>1, <1>2, <1>3 DEF Next

\* In CompletePending mode the empty commands find room in a queue that is no
\* smaller than the number of threads: nobody else has put anything there.
THEOREM ShutdownHasRoomAlways == Spec => []ShutdownHasRoom
<1>1. Init => Alone /\ OwnCommandsOnly
  BY DEF Init, Alone, OwnCommandsOnly, Idle, At, Exclusive
<1>2. TypeOK /\ OwnCommandsOnly => ShutdownHasRoom
  <2> SUFFICES ASSUME TypeOK, OwnCommandsOnly, ShutdownMode = "CompletePending",
                      Tasks <= QueueSize, NEW c \in Clients, At(c, "shutdown"),
                      client[c].n < Tasks
               PROVE  HasRoom
    BY DEF ShutdownHasRoom
  <2>1. Len(queue) <= client[c].n
    BY DEF OwnCommandsOnly
  <2>2. Len(queue) \in Nat /\ client[c].n \in 0 .. Tasks
    BY DEF TypeOK, ClientOK, ClientStates
  <2> QED BY <2>1, <2>2, PoolAssumption DEF HasRoom
<1> QED BY <1>1, <1>2, InitTypeOK, NextTypeOK, NextAlone, NextOwnCommandsOnly, PTL
        DEF Spec
-------------------------------------------------------------------------------
(* Whom shutdown wakes.                                                    *)

\* Workers that are, or are about to be, asleep in dequeue().
Sleepers == {w \in Workers : worker[w] = "dequeue"}

LEMMA SleepersFinite ==
    /\ IsFiniteSet(Sleepers) /\ Cardinality(Sleepers) \in 0 .. Tasks
    /\ \A S \in SUBSET Sleepers : Cardinality(S) \in Nat
                                 /\ Cardinality(S) <= Cardinality(Sleepers)
<1>1. IsFiniteSet(Workers) /\ Cardinality(Workers) = Tasks /\ Tasks \in Nat
  BY PoolAssumption, FS_Interval DEF Workers
<1>2. Sleepers \subseteq Workers
  BY DEF Sleepers
<1>3. IsFiniteSet(Sleepers) /\ Cardinality(Sleepers) <= Tasks
  BY <1>1, <1>2, FS_Subset
<1>4. Cardinality(Sleepers) \in Nat
  BY <1>3, FS_CardinalityType
<1>5. ASSUME NEW S \in SUBSET Sleepers
      PROVE  Cardinality(S) \in Nat /\ Cardinality(S) <= Cardinality(Sleepers)
  BY <1>3, FS_Subset, FS_CardinalityType
<1> QED BY <1>1, <1>3, <1>4, <1>5

\* ToCome, with and without a client in shutdown.
ToComeOK ==
    /\ ToCome \in Nat
    /\ \A c \in Clients : At(c, "shutdown") => ToCome = Tasks - client[c].n
    /\ (\A c \in Clients : ~At(c, "shutdown")) => ToCome = 0

LEMMA ToComeIs == TypeOK /\ Alone => ToComeOK
<1> SUFFICES ASSUME TypeOK, Alone PROVE ToComeOK
  OBVIOUS
<1>1. ASSUME NEW c \in Clients, At(c, "shutdown") PROVE ToCome = Tasks - client[c].n
  <2> DEFINE P(n) == \E d \in Clients : At(d, "shutdown") /\ client[d].n = n
  <2>1. client[c].n \in 0 .. Tasks /\ P(client[c].n)
    BY <1>1 DEF TypeOK, ClientOK, ClientStates
  <2>2. \A n : P(n) => n = client[c].n
    BY <1>1 DEF Alone, At, Exclusive
  <2>3. (CHOOSE n \in 0 .. Tasks : P(n)) = client[c].n
    BY <2>1, <2>2
  <2> QED BY <1>1, <2>3 DEF ToCome
<1>2. ASSUME \A c \in Clients : ~At(c, "shutdown") PROVE ToCome = 0
  BY <1>2 DEF ToCome
<1>3. \A c \in Clients : client[c].n \in 0 .. Tasks /\ Tasks \in Nat
  BY PoolAssumption DEF TypeOK, ClientOK, ClientStates
<1>4. ToCome \in Nat
  BY <1>1, <1>2, <1>3
<1> QED BY <1>1, <1>2, <1>4 DEF ToComeOK

LEMMA WorkWoken ==
    ASSUME TypeOK, Alone, EveryWorkerIsWoken, NEW w \in Workers, Work(w)
    PROVE  EveryWorkerIsWoken'
<1>1. UNCHANGED <<stopped, client>>
  BY WorkFrame
<1>2. ToCome' = ToCome
  BY <1>1 DEF ToCome, At
<1>3. SUFFICES ASSUME stopped
               PROVE  Cardinality(Sleepers') <= Len(queue') + ToCome
  BY <1>1, <1>2 DEF EveryWorkerIsWoken, Sleepers, Workers
<1>4. Cardinality(Sleepers) <= Len(queue) + ToCome
  BY <1>3 DEF EveryWorkerIsWoken, Sleepers
<1>5. Len(queue) \in Nat /\ ToCome \in Nat
  BY ToComeIs DEF TypeOK, ToComeOK
<1>6. CASE Dequeue(w)
  <2>1. w \in Sleepers /\ Sleepers' = Sleepers \ {w}
    BY <1>6, DequeueExecutes DEF Sleepers, Workers
  <2>2. Cardinality(Sleepers') = Cardinality(Sleepers) - 1
    BY <2>1, SleepersFinite, FS_RemoveElement
  <2> QED BY <1>4, <1>5, <1>6, <2>2, SleepersFinite, DequeueLength
<1>7. CASE ~Dequeue(w)
  <2>1. worker'[w] # "dequeue"
    BY <1>3, <1>7 DEF Work, Begin, LeaveBarrier, TestStopped, ExecuteJob, Ends,
                      ExecuteEmpty, EnterF, LeaveF, PanicInF, Moves, Goto, TypeOK
  <2>2. UNCHANGED queue /\ \A v \in Workers \ {w} : worker'[v] = worker[v]
    BY <1>7, WorkExecutes
  <2>3. Sleepers' \in SUBSET Sleepers
    BY <2>1, <2>2 DEF Sleepers, Workers
  <2>4. Cardinality(Sleepers') \in Nat /\ Cardinality(Sleepers') <= Cardinality(Sleepers)
    BY <2>3, SleepersFinite
  <2> QED BY <1>4, <1>5, <2>2, <2>4, SleepersFinite
<1> QED BY <1>6, <1>7

LEMMA ClientWoken ==
    ASSUME TypeOK, Alone, TypeOK', Alone', EveryWorkerIsWoken,
           NEW c \in Clients, Proceed(c) \/ Invoke(c)
    PROVE  EveryWorkerIsWoken'
<1>1. Sleepers' = Sleepers
  BY ClientFrame DEF Sleepers
<1>2. SUFFICES ASSUME stopped'
               PROVE  Cardinality(Sleepers) <= Len(queue') + ToCome'
  BY <1>1 DEF EveryWorkerIsWoken, Sleepers
<1>3. /\ Len(queue) \in Nat /\ ToCome \in Nat /\ Tasks \in Nat
      /\ Cardinality(Sleepers) \in 0 .. Tasks
      /\ client[c].n \in 0 .. Tasks
  BY SleepersFinite, ToComeIs, PoolAssumption
     DEF TypeOK, ClientOK, ClientStates, ToComeOK
<1>4. stopped => Cardinality(Sleepers) <= Len(queue) + ToCome
  BY DEF EveryWorkerIsWoken, Sleepers
<1>5. ToComeOK /\ ToComeOK'
  BY ToComeIs, PTL
<1>a. \A d \in Clients \ {c} : client'[d] = client[d]
  BY ClientMoves
<1>6. CASE StoreStopped(c)
  <2>1. UNCHANGED queue /\ client'[c].op = "shutdown" /\ client'[c].n = 0
    BY <1>6 DEF StoreStopped, Call, TypeOK, ClientOK
  <2>2. ToCome' = Tasks
    BY <1>3, <1>5, <2>1 DEF ToComeOK, At
  <2> QED BY <1>3, <2>1, <2>2
<1>7. CASE SubmitEmpty(c)
  <2>1. Len(queue') = Len(queue) + 1 /\ stopped
    BY <1>2, <1>7, EnqueueLength DEF SubmitEmpty, Commands, OnlyPool
  <2>2. client[c].op = "shutdown" /\ client'[c].op = "shutdown"
        /\ client'[c].n = client[c].n + 1
    BY <1>7, AgainEffect DEF SubmitEmpty, At
  <2>3. ToCome = Tasks - client[c].n
    BY <1>5, <2>2 DEF ToComeOK, At
  <2>4. ToCome' = Tasks - client'[c].n
    BY <1>5, <2>2 DEF ToComeOK, At
  <2>5. ToCome' = ToCome - 1
    <3>1. PICK n \in 0 .. Tasks : n = client[c].n
      BY <1>3
    <3>2. ToCome = Tasks - n /\ ToCome' = Tasks - (n + 1)
      BY <2>2, <2>3, <2>4, <3>1
    <3> QED BY <1>3, <3>2
  <2> QED BY <1>3, <1>4, <2>1, <2>5
<1>8. CASE ShutdownReturns(c)
  <2>1. UNCHANGED <<queue, stopped>> /\ At(c, "shutdown") /\ client[c].n = Tasks
    BY <1>8 DEF ShutdownReturns, OnlyCall, OnlyPool
  <2>2. ToCome = 0
    BY <1>3, <1>5, <2>1 DEF ToComeOK
  <2>3. ToCome' \in Nat
    BY <1>5 DEF ToComeOK
  <2> QED BY <1>2, <1>3, <1>4, <2>1, <2>2, <2>3
<1>9. CASE ~StoreStopped(c) /\ ~SubmitEmpty(c) /\ ~ShutdownReturns(c)
  <2>1. /\ UNCHANGED stopped
        /\ client[c].op # "shutdown" /\ client'[c].op # "shutdown"
        /\ UNCHANGED queue \/ \E e \in Commands : Enqueue(e)
    BY <1>9, ClientShutdown
  <2>2. Len(queue') >= Len(queue) /\ Len(queue') \in Nat
    BY <1>3, <2>1, EnqueueLength
  <2>3. ToCome' = ToCome
    <3>1. \A d \in Clients : /\ client'[d].op = "shutdown" <=> client[d].op = "shutdown"
                             /\ client[d].op = "shutdown" => client'[d] = client[d]
      BY <1>a, <2>1
    <3>2. CASE \E d \in Clients : client[d].op = "shutdown"
      <4>1. PICK d \in Clients : client[d].op = "shutdown"
        BY <3>2
      <4> QED BY <1>5, <3>1, <4>1 DEF ToComeOK, At
    <3>3. CASE \A d \in Clients : client[d].op # "shutdown"
      BY <1>5, <3>1, <3>3 DEF ToComeOK, At
    <3> QED BY <3>2, <3>3
  <2> QED BY <1>2, <1>3, <1>4, <2>1, <2>2, <2>3
<1> QED BY <1>6, <1>7, <1>8, <1>9

\* A worker that is asleep in dequeue() when the pool is stopped has a command
\* coming for it: shutdown's empty commands are enough, wherever each worker was
\* when `stopped` was set.
THEOREM EveryWorkerIsWokenAlways == Spec => []EveryWorkerIsWoken
<1>1. Init => Alone /\ EveryWorkerIsWoken
  BY DEF Init, Alone, Idle, Exclusive, EveryWorkerIsWoken
<1>2. TypeOK /\ Alone /\ EveryWorkerIsWoken /\ [Next]_vars => EveryWorkerIsWoken'
  <2> SUFFICES ASSUME TypeOK, Alone, EveryWorkerIsWoken, [Next]_vars
               PROVE  EveryWorkerIsWoken'
    OBVIOUS
  <2>1. TypeOK' /\ Alone'
    BY NextTypeOK, NextAlone
  <2>2. CASE New \/ UNCHANGED vars
    BY <2>2, NewFrame DEF EveryWorkerIsWoken, ToCome, At
  <2> QED BY <2>1, <2>2, WorkWoken, ClientWoken DEF Next
<1> QED BY <1>1, <1>2, InitTypeOK, NextTypeOK, NextAlone, PTL DEF Spec
===============================================================================
