--------------------------- MODULE ThreadPoolProofs ---------------------------
(***************************************************************************)
(* Theorems about ThreadPool, for every number of threads, clients, jobs   *)
(* and rounds, both shutdown modes and every way user code may end.        *)
(***************************************************************************)
EXTENDS ThreadPool, FiniteSetTheorems, TLAPS

-------------------------------------------------------------------------------
(* Type correctness.                                                       *)

\* What the three ways to change a client's state leave it in.
LEMMA ClientTyped ==
    ASSUME ClientOK, NEW c \in Clients,
           \/ \E op \in Submits, j \in Jobs : Call(c, op, j)
           \/ \E r \in Rounds : Call(c, "in_all_threads", r)
           \/ \E op \in Exclusive : Call(c, op, None)
           \/ \E op \in {"idle", "panicked"} : ReturnTo(c, op)
           \/ Again(c) /\ client[c].n < Tasks
    PROVE  ClientOK'
<1> USE PoolAssumption DEF ClientOK, ClientStates, At, Submits, Exclusive
<1>1. ASSUME NEW op \in Submits, NEW j \in Jobs, Call(c, op, j) PROVE ClientOK'
  BY <1>1 DEF Call
<1>2. ASSUME NEW r \in Rounds, Call(c, "in_all_threads", r) PROVE ClientOK'
  BY <1>2 DEF Call
<1>3. ASSUME NEW op \in Exclusive, Call(c, op, None) PROVE ClientOK'
  BY <1>3 DEF Call
<1>4. ASSUME NEW op \in {"idle", "panicked"}, ReturnTo(c, op) PROVE ClientOK'
  BY <1>4 DEF ReturnTo, Idle
<1>5. ASSUME Again(c), client[c].n < Tasks PROVE ClientOK'
  BY <1>5 DEF Again
<1> QED BY <1>1, <1>2, <1>3, <1>4, <1>5

LEMMA InitTypeOK == Init => TypeOK
<1> SUFFICES ASSUME Init PROVE TypeOK
  OBVIOUS
<1>1. queue \in Seq(Commands) /\ Len(queue) <= QueueSize
  BY PoolAssumption DEF Init
<1>2. ClientOK
  BY PoolAssumption DEF Init, Idle, ClientOK, ClientStates, At, Submits
<1>3. arrived \in [Barriers -> SUBSET Participants]
  BY DEF Init
<1>4. threads \in 0 .. Tasks
  BY PoolAssumption DEF Init
<1> QED BY <1>1, <1>2, <1>3, <1>4 DEF Init, TypeOK, Commands

\* Every step preserves the type invariant.
LEMMA NextTypeOK == TypeOK /\ [Next]_vars => TypeOK'
<1> SUFFICES ASSUME TypeOK, [Next]_vars PROVE TypeOK'
  OBVIOUS
<1> USE PoolAssumption DEF OnlyWorker, Moves, OnlyClient, OnlyPool, OnlyCall, workerVars,
                           clientVars, history, Goto, Arrive, Barriers, Participants, Commands
<1>0. UNCHANGED client => ClientOK'
  BY DEF TypeOK, ClientOK, At
<1>1. ASSUME NEW w \in Workers, Begin(w) PROVE TypeOK'
  BY <1>0, <1>1 DEF Begin, TypeOK, Workers
<1>2. ASSUME NEW w \in Workers, LeaveBarrier(w) PROVE TypeOK'
  BY <1>0, <1>2 DEF LeaveBarrier, TypeOK
<1>3. ASSUME NEW w \in Workers, TestStopped(w) PROVE TypeOK'
  BY <1>0, <1>3 DEF TestStopped, TypeOK
<1>4. ASSUME NEW w \in Workers, Dequeue(w) PROVE TypeOK'
  <2>1. /\ queue' \in Seq(Commands) /\ Len(queue') <= QueueSize
        /\ Head(queue) \in Commands
    BY <1>4 DEF Dequeue, TypeOK
  <2>2. late' \subseteq Workers
    BY <1>4 DEF Dequeue, TypeOK
  <2> QED BY <1>0, <1>4, <2>1, <2>2 DEF Dequeue, TypeOK
<1>5. ASSUME NEW w \in Workers, ExecuteJob(w) PROVE TypeOK'
  BY <1>0, <1>5 DEF ExecuteJob, Ends, TypeOK
<1>6. ASSUME NEW w \in Workers, ExecuteEmpty(w) PROVE TypeOK'
  BY <1>0, <1>6 DEF ExecuteEmpty, TypeOK
<1>7. ASSUME NEW w \in Workers, EnterF(w) PROVE TypeOK'
  BY <1>0, <1>7 DEF EnterF, TypeOK
<1>8. ASSUME NEW w \in Workers, LeaveF(w) PROVE TypeOK'
  BY <1>0, <1>8 DEF LeaveF, TypeOK, Workers
<1>9. ASSUME NEW w \in Workers, PanicInF(w) PROVE TypeOK'
  BY <1>0, <1>9 DEF PanicInF, TypeOK
<1>10. ASSUME New PROVE TypeOK'
  BY <1>0, <1>10 DEF New, TypeOK
<1>11. ASSUME NEW c \in Clients, NEW j \in Jobs,
              NEW op \in Submits, CallSubmit(c, j, op)
       PROVE  TypeOK'
  <2>1. ClientOK'
    BY <1>11, ClientTyped DEF CallSubmit, TypeOK
  <2> QED BY <1>11, <2>1 DEF CallSubmit, TypeOK
<1>12. ASSUME NEW c \in Clients, NEW r \in Rounds, CallInAllThreads(c, r)
       PROVE  TypeOK'
  <2>1. ClientOK'
    BY <1>12, ClientTyped DEF CallInAllThreads, TypeOK
  <2>2. before' \in [Rounds -> SUBSET Jobs]
    BY <1>12 DEF CallInAllThreads, TypeOK
  <2> QED BY <1>12, <2>1, <2>2 DEF CallInAllThreads, TypeOK
<1>13. ASSUME NEW c \in Clients, Submit(c) PROVE TypeOK'
  <2>1. ClientOK'
    BY <1>13, ClientTyped DEF Submit, TypeOK
  <2>2. client[c].arg \in Jobs
    BY <1>13 DEF Submit, TypeOK, ClientOK
  <2> QED BY <1>13, <2>1, <2>2 DEF Submit, Enqueue, HasRoom, TypeOK
<1>14. ASSUME NEW c \in Clients, SubmitGivesUp(c) PROVE TypeOK'
  BY <1>14, ClientTyped DEF SubmitGivesUp, TypeOK
<1>15. ASSUME NEW c \in Clients, SubmitRound(c) PROVE TypeOK'
  <2>1. client[c].arg \in Rounds
    BY <1>15 DEF SubmitRound, TypeOK, ClientOK
  <2>2. ClientOK'
    BY <1>15, ClientTyped DEF SubmitRound, TypeOK
  <2> QED BY <1>15, <2>1, <2>2 DEF SubmitRound, Enqueue, HasRoom, TypeOK
<1>16. ASSUME NEW c \in Clients, WaitRound(c) PROVE TypeOK'
  <2>1. client[c].arg \in Rounds
    BY <1>16 DEF WaitRound, TypeOK, ClientOK
  <2>2. ClientOK'
    BY <1>0, <1>16 DEF WaitRound
  <2> QED BY <1>16, <2>1, <2>2 DEF WaitRound, TypeOK
<1>17. ASSUME NEW c \in Clients, InAllThreadsReturns(c) PROVE TypeOK'
  BY <1>17, ClientTyped DEF InAllThreadsReturns, TypeOK
<1>18. ASSUME NEW c \in Clients, Shutdown(c) PROVE TypeOK'
  <2>1. ClientOK'
    BY <1>18, ClientTyped DEF Shutdown, TypeOK, Exclusive
  <2> QED BY <1>18, <2>1 DEF Shutdown, TypeOK
<1>19. ASSUME NEW c \in Clients, WaitEmpty(c) PROVE TypeOK'
  <2>1. ClientOK'
    BY <1>19, ClientTyped DEF WaitEmpty, TypeOK, Exclusive
  <2> QED BY <1>19, <2>1 DEF WaitEmpty, TypeOK
<1>20. ASSUME NEW c \in Clients, StoreStopped(c) PROVE TypeOK'
  <2>1. ClientOK'
    BY <1>20, ClientTyped DEF StoreStopped, TypeOK, Exclusive
  <2> QED BY <1>20, <2>1 DEF StoreStopped, TypeOK
<1>21. ASSUME NEW c \in Clients, SubmitEmpty(c) PROVE TypeOK'
  <2>1. ClientOK'
    BY <1>21, ClientTyped DEF SubmitEmpty, TypeOK
  <2> QED BY <1>21, <2>1 DEF SubmitEmpty, Enqueue, HasRoom, TypeOK
<1>22. ASSUME NEW c \in Clients, ShutdownReturns(c) PROVE TypeOK'
  BY <1>22, ClientTyped DEF ShutdownReturns, TypeOK
<1>23. ASSUME NEW c \in Clients, Join(c) PROVE TypeOK'
  <2>1. ClientOK'
    BY <1>23, ClientTyped DEF Join, TypeOK, Exclusive
  <2> QED BY <1>23, <2>1 DEF Join, TypeOK
<1>24. ASSUME NEW c \in Clients, JoinThread(c) PROVE TypeOK'
  <2>1. ClientOK'
    BY <1>0, <1>24, ClientTyped DEF JoinThread, TypeOK
  <2>2. threads' \in 0 .. Tasks /\ threads \in Workers
    BY <1>24 DEF JoinThread, TypeOK, Workers
  <2>3. reported' \subseteq Workers
    BY <1>24, <2>2 DEF JoinThread, TypeOK
  <2> QED BY <1>24, <2>1, <2>2, <2>3 DEF JoinThread, TypeOK
<1>25. ASSUME NEW c \in Clients, JoinReturns(c) PROVE TypeOK'
  BY <1>25, ClientTyped DEF JoinReturns, TypeOK
<1>26. CASE UNCHANGED vars
  BY <1>0, <1>26 DEF vars, TypeOK
<1> QED BY <1>1, <1>2, <1>3, <1>4, <1>5, <1>6, <1>7, <1>8, <1>9, <1>10, <1>11,
           <1>12, <1>13, <1>14, <1>15, <1>16, <1>17, <1>18, <1>19, <1>20, <1>21,
           <1>22, <1>23, <1>24, <1>25, <1>26
        DEF Next, Work, Proceed, Invoke

\* The state keeps its shape.
THEOREM TypeCorrect == Spec => []TypeOK
<1> QED BY InitTypeOK, NextTypeOK, PTL DEF Spec

-------------------------------------------------------------------------------
(* A worker that took a command after `stopped` was set.                   *)

\* OneMoreCommand with what makes it inductive: `stopped` is never reset.
LateLeaves == \A w \in late : stopped /\ worker[w] # "dequeue"

LEMMA NextLateLeaves == TypeOK /\ LateLeaves /\ [Next]_vars => LateLeaves'
<1> SUFFICES ASSUME TypeOK, LateLeaves, [Next]_vars PROVE LateLeaves'
  OBVIOUS
<1> USE DEF TypeOK, LateLeaves, OnlyWorker, Moves, OnlyClient, OnlyPool, OnlyCall,
            workerVars, clientVars, history, Goto
<1>1. ASSUME NEW w \in Workers, TestStopped(w) PROVE LateLeaves'
  BY <1>1 DEF TestStopped
<1>2. ASSUME NEW w \in Workers, Dequeue(w) PROVE LateLeaves'
  BY <1>2 DEF Dequeue
<1>3. ASSUME NEW w \in Workers,
             Begin(w) \/ LeaveBarrier(w) \/ ExecuteEmpty(w) \/ LeaveF(w)
      PROVE  LateLeaves'
  BY <1>3 DEF Begin, LeaveBarrier, ExecuteEmpty, LeaveF
<1>4. ASSUME NEW w \in Workers, ExecuteJob(w) \/ EnterF(w) \/ PanicInF(w)
      PROVE  LateLeaves'
  BY <1>4 DEF ExecuteJob, Ends, EnterF, PanicInF
<1>5. ASSUME NEW c \in Clients, StoreStopped(c) PROVE LateLeaves'
  BY <1>5 DEF StoreStopped
<1>6. ASSUME NEW c \in Clients, Proceed(c) \/ Invoke(c), ~StoreStopped(c)
      PROVE  UNCHANGED <<stopped, worker, late>>
  BY <1>6 DEF Proceed, Invoke, Submit, SubmitGivesUp, SubmitRound, WaitRound,
       InAllThreadsReturns, WaitEmpty, SubmitEmpty, ShutdownReturns, JoinThread,
       JoinReturns, CallSubmit, CallInAllThreads, Shutdown, Join
<1>7. New \/ UNCHANGED vars => UNCHANGED <<stopped, worker, late>>
  BY DEF New, vars
<1> QED BY <1>1, <1>2, <1>3, <1>4, <1>5, <1>6, <1>7 DEF Next, Work

\* A worker executes at most one more command once `stopped` is set.
THEOREM OneMoreCommandAlways == Spec => []OneMoreCommand
<1>1. Init => LateLeaves
  BY DEF Init, LateLeaves
<1>2. LateLeaves => OneMoreCommand
  BY DEF LateLeaves, OneMoreCommand
<1> QED BY <1>1, <1>2, TypeCorrect, NextLateLeaves, PTL DEF Spec

-------------------------------------------------------------------------------
(* CompletePending completes what was pending.                             *)

\* No accepted job gets lost.
Placed == \A j \in accepted : Queued(j) \/ Executing(j) \/ j \in finished

\* A job is submitted by one client, and never after it was accepted.
Owned ==
    \A c \in Clients : client[c].op \in Submits =>
        /\ client[c].arg \notin accepted
        /\ \A d \in Clients \ {c} :
              client[d].op \in Submits => client[d].arg # client[c].arg

\* The pool expires before shutdown does anything else: what it has promised is
\* settled by then.
ExpiredFirst ==
    stopped \/ (\E c \in Clients : client[c].op \in {"wait_empty", "stop"})
        => expired

\* Once shutdown has seen the queue empty, no promised job is in it again.
Drained ==
    ShutdownMode = "CompletePending"
        /\ (stopped \/ \E c \in Clients : client[c].op = "stop")
            => \A j \in promised : ~Queued(j)

\* A thread whose handle was popped has terminated.
Joined == \A w \in Workers : w > threads => Terminated(w)

CompletionInv ==
    TypeOK /\ Placed /\ Owned /\ ExpiredFirst /\ Drained /\ Joined

LEMMA InitCompletionInv == Init => CompletionInv
<1> SUFFICES ASSUME Init PROVE CompletionInv
  OBVIOUS
<1>1. TypeOK
  BY InitTypeOK
<1>2. Joined
  BY PoolAssumption DEF Init, Joined, Workers
<1> QED BY <1>1, <1>2 DEF Init, CompletionInv, Placed, Owned, ExpiredFirst,
                          Drained, Idle, Submits

\* What an enqueue and a dequeue do to what is in the queue.
LEMMA EnqueueQueues ==
    ASSUME TypeOK, NEW command \in Commands, Enqueue(command), NEW j
    PROVE  Queued(j)' <=> Queued(j) \/ j = command
<1>1. queue \in Seq(Commands) /\ queue' = Append(queue, command)
  BY DEF TypeOK, Enqueue
<1>2. /\ Len(queue') = Len(queue) + 1 /\ Len(queue) \in Nat
      /\ queue'[Len(queue) + 1] = command
      /\ \A i \in 1 .. Len(queue) : queue'[i] = queue[i]
  BY <1>1
<1> QED BY <1>2 DEF Queued

LEMMA DequeueQueues ==
    ASSUME TypeOK, queue # <<>>, queue' = Tail(queue), NEW j
    PROVE  Queued(j) <=> Queued(j)' \/ j = Head(queue)
<1>1. queue \in Seq(Commands)
  BY DEF TypeOK
<1>2. /\ Len(queue') = Len(queue) - 1 /\ Len(queue) \in Nat \ {0}
      /\ Head(queue) = queue[1]
      /\ \A i \in 1 .. Len(queue') : queue'[i] = queue[i + 1]
  BY <1>1
<1>3. ASSUME Queued(j), j # Head(queue) PROVE Queued(j)'
  <2>1. PICK i \in 1 .. Len(queue) : queue[i] = j
    BY <1>3 DEF Queued
  <2>2. i - 1 \in 1 .. Len(queue') /\ queue'[i - 1] = j
    BY <1>2, <1>3, <2>1
  <2> QED BY <2>2 DEF Queued
<1>4. ASSUME Queued(j)' PROVE Queued(j)
  <2>1. PICK i \in 1 .. Len(queue') : queue'[i] = j
    BY <1>4 DEF Queued
  <2>2. i + 1 \in 1 .. Len(queue) /\ queue[i + 1] = j
    BY <1>2, <2>1
  <2> QED BY <2>2 DEF Queued
<1>5. Queued(Head(queue))
  BY <1>2 DEF Queued
<1> QED BY <1>3, <1>4, <1>5

\* A worker's step keeps an accepted job in its place or moves it on: from the
\* queue to the worker, and from the worker to the finished jobs.
LEMMA WorkKeepsPlaced ==
    ASSUME TypeOK, Placed, NEW w \in Workers, Work(w)
    PROVE  Placed'
<1> USE DEF TypeOK, OnlyWorker, Moves, Goto, Executing
<1>1. ASSUME Dequeue(w), NEW j \in accepted
      PROVE  Queued(j)' \/ Executing(j)' \/ j \in finished'
  <2>1. Queued(j) => Queued(j)' \/ j = Head(queue)
    BY <1>1, DequeueQueues DEF Dequeue
  <2>2. j = Head(queue) => Executing(j)'
    BY <1>1 DEF Dequeue
  <2>3. ASSUME Executing(j) PROVE Executing(j)'
    <3>1. PICK v \in Workers : worker[v] = "execute" /\ cmd[v] = j
      BY <2>3
    <3>2. v # w
      BY <1>1, <3>1 DEF Dequeue
    <3>3. worker'[v] = worker[v] /\ cmd'[v] = cmd[v]
      BY <1>1, <3>2 DEF Dequeue
    <3> QED BY <3>1, <3>3
  <2> QED BY <1>1, <2>1, <2>2, <2>3 DEF Placed, Dequeue
<1>2. ASSUME ~Dequeue(w) PROVE UNCHANGED queue
  BY <1>2 DEF Work, Begin, LeaveBarrier, TestStopped, ExecuteJob, ExecuteEmpty,
              EnterF, LeaveF, PanicInF
<1>3. ASSUME ~Dequeue(w), NEW j \in Jobs, Executing(j)
      PROVE  Executing(j)' \/ j \in finished'
  <2>1. PICK v \in Workers : worker[v] = "execute" /\ cmd[v] = j
    BY <1>3
  <2>2. CASE v # w
    <3>1. worker'[v] = worker[v] /\ cmd'[v] = cmd[v]
      BY <1>3, <2>2 DEF Work, Begin, LeaveBarrier, TestStopped, ExecuteJob, Ends,
                        ExecuteEmpty, EnterF, LeaveF, PanicInF
    <3> QED BY <2>1, <3>1
  <2>3. CASE v = w
    <3>1. cmd[w] \notin Rounds \cup {Empty}
      BY <2>1, <2>3, PoolAssumption
    <3>2. ExecuteJob(w)
      BY <1>3, <2>1, <2>3, <3>1
         DEF Work, Begin, LeaveBarrier, TestStopped, ExecuteEmpty, EnterF, LeaveF,
             PanicInF
    <3> QED BY <2>1, <2>3, <3>2 DEF ExecuteJob
  <2> QED BY <2>2, <2>3
<1>4. finished \subseteq finished' /\ accepted' = accepted
  BY DEF Work, Begin, LeaveBarrier, TestStopped, Dequeue, ExecuteJob,
         ExecuteEmpty, EnterF, LeaveF, PanicInF, history
<1>5. CASE Dequeue(w)
  BY <1>1, <1>4, <1>5 DEF Placed
<1>6. CASE ~Dequeue(w)
  BY <1>2, <1>3, <1>4, <1>6 DEF Placed, Queued
<1> QED BY <1>5, <1>6

\* Who changes what.
LEMMA WorkFrame ==
    ASSUME NEW w \in Workers, Work(w)
    PROVE  UNCHANGED <<stopped, expired, client, threads, accepted, promised>>
BY DEF Work, Begin, LeaveBarrier, TestStopped, Dequeue, ExecuteJob, ExecuteEmpty,
       EnterF, LeaveF, PanicInF, OnlyWorker, Moves, clientVars, history

LEMMA ClientFrame ==
    ASSUME NEW c \in Clients, Proceed(c) \/ Invoke(c)
    PROVE  UNCHANGED <<worker, cmd, finished>>
BY DEF Proceed, Invoke, Submit, SubmitGivesUp, SubmitRound, WaitRound,
       InAllThreadsReturns, WaitEmpty, StoreStopped, SubmitEmpty, ShutdownReturns,
       JoinThread, JoinReturns, CallSubmit, CallInAllThreads, Shutdown, Join,
       OnlyClient, OnlyPool, OnlyCall, workerVars

LEMMA NewFrame ==
    ASSUME New \/ UNCHANGED vars
    PROVE  UNCHANGED <<queue, stopped, expired, worker, cmd, client, threads,
                       accepted, finished, promised>>
BY DEF New, OnlyClient, workerVars, clientVars, history, vars

\* The only steps of a client that touch the queue.
LEMMA ClientQueues ==
    ASSUME TypeOK, NEW c \in Clients, Proceed(c) \/ Invoke(c)
    PROVE  \/ Submit(c)
           \/ /\ UNCHANGED accepted
              /\ \A j \in Jobs : Queued(j)' <=> Queued(j)
<1> USE DEF OnlyPool, OnlyCall
<1>1. CASE Submit(c)
  BY <1>1
<1>2. CASE SubmitRound(c)
  <2>1. client[c].arg \in Rounds
    BY <1>2 DEF SubmitRound, TypeOK, ClientOK
  <2>2. \A j \in Jobs : j # client[c].arg
    BY <2>1, PoolAssumption
  <2> QED BY <1>2, <2>1, <2>2, EnqueueQueues DEF SubmitRound, Commands
<1>3. CASE SubmitEmpty(c)
  <2>1. \A j \in Jobs : j # Empty
    BY PoolAssumption
  <2> QED BY <1>3, <2>1, EnqueueQueues DEF SubmitEmpty, Commands
<1>4. CASE ~Submit(c) /\ ~SubmitRound(c) /\ ~SubmitEmpty(c)
  <2>1. UNCHANGED <<queue, accepted>>
    BY <1>4 DEF Proceed, Invoke, SubmitGivesUp, WaitRound, InAllThreadsReturns,
         WaitEmpty, StoreStopped, ShutdownReturns, JoinThread, JoinReturns,
         CallSubmit, CallInAllThreads, Shutdown, Join
  <2> QED BY <2>1 DEF Queued
<1> QED BY <1>1, <1>2, <1>3, <1>4

\* The state a client is left in, and that of the others.
LEMMA ClientEffect ==
    ASSUME TypeOK, NEW c \in Clients, NEW op, NEW arg,
           Call(c, op, arg) \/ ReturnTo(c, op)
    PROVE  /\ client'[c].op = op
           /\ Call(c, op, arg) => client'[c].arg = arg
           /\ \A d \in Clients \ {c} : client'[d] = client[d]
<1>1. \A state : client' = [client EXCEPT ![c] = state] =>
         /\ client'[c] = state
         /\ \A d \in Clients \ {c} : client'[d] = client[d]
  BY DEF TypeOK, ClientOK
<1>2. CASE Call(c, op, arg)
  BY <1>1, <1>2 DEF Call
<1>3. CASE ~Call(c, op, arg) /\ ReturnTo(c, op)
  BY <1>1, <1>3 DEF ReturnTo, Idle
<1> QED BY <1>2, <1>3

LEMMA NextPlaced == TypeOK /\ Placed /\ [Next]_vars => Placed'
<1> SUFFICES ASSUME TypeOK, Placed, [Next]_vars PROVE Placed'
  OBVIOUS
<1>1. ASSUME NEW c \in Clients, Submit(c) PROVE Placed'
  <2>1. client[c].arg \in Commands
    BY <1>1 DEF Submit, TypeOK, ClientOK, Commands
  <2>2. \A j : Queued(j)' <=> Queued(j) \/ j = client[c].arg
    BY <1>1, <2>1, EnqueueQueues DEF Submit
  <2>3. UNCHANGED <<worker, cmd, finished>>
    BY <1>1 DEF Submit, OnlyClient, workerVars
  <2> QED BY <1>1, <2>2, <2>3 DEF Submit, Placed, Executing
<1>2. ASSUME NEW c \in Clients, Proceed(c) \/ Invoke(c), ~Submit(c) PROVE Placed'
  BY <1>2, ClientQueues, ClientFrame DEF Placed, Executing, TypeOK
<1>3. CASE New \/ UNCHANGED vars
  BY <1>3, NewFrame DEF Placed, Executing, Queued
<1> QED BY <1>1, <1>2, <1>3, WorkKeepsPlaced DEF Next

\* Only taking up a submission and completing one bear on Owned.
LEMMA NextOwned == TypeOK /\ Owned /\ [Next]_vars => Owned'
<1> SUFFICES ASSUME TypeOK, Owned, [Next]_vars PROVE Owned'
  OBVIOUS
<1> USE DEF OnlyPool, OnlyCall
<1>1. ASSUME NEW c \in Clients, NEW j \in Jobs, NEW op \in Submits,
             CallSubmit(c, j, op)
      PROVE  Owned'
  <2>1. CASE ReturnTo(c, "panicked")
    <3>1. "panicked" \notin Submits
      BY DEF Submits
    <3>2. /\ client'[c].op = "panicked"
          /\ \A d \in Clients \ {c} : client'[d] = client[d]
      BY <2>1, ClientEffect
    <3> QED BY <1>1, <3>1, <3>2 DEF CallSubmit, Owned
  <2>2. CASE Call(c, op, j)
    <3>1. /\ client'[c].arg = j
          /\ \A d \in Clients \ {c} : client'[d] = client[d]
      BY <2>2, ClientEffect
    <3>2. j \notin accepted /\ \A d \in Clients : client[d].arg # j
      BY <1>1 DEF CallSubmit, Offered
    <3> QED BY <1>1, <3>1, <3>2 DEF CallSubmit, Owned
  <2> QED BY <1>1, <2>1, <2>2 DEF CallSubmit
<1>2. ASSUME NEW c \in Clients, Submit(c) PROVE Owned'
  BY <1>2 DEF Submit, ReturnTo, Idle, Owned, Submits, TypeOK, ClientOK,
              ClientStates
<1>3. ASSUME NEW c \in Clients, NEW op, op \notin Submits, UNCHANGED accepted,
             NEW arg, Call(c, op, arg) \/ ReturnTo(c, op)
      PROVE  Owned'
  BY <1>3, ClientEffect DEF Owned
<1>4. ASSUME NEW c \in Clients, UNCHANGED accepted, Again(c) PROVE Owned'
  BY <1>4 DEF Again, Owned, TypeOK, ClientOK, ClientStates
<1>5. ASSUME UNCHANGED <<client, accepted>> PROVE Owned'
  BY <1>5 DEF Owned
<1>6. ASSUME NEW c \in Clients, Proceed(c), ~Submit(c) PROVE Owned'
  BY <1>3, <1>4, <1>5, <1>6 DEF Proceed, SubmitGivesUp, SubmitRound, WaitRound,
       InAllThreadsReturns, WaitEmpty, StoreStopped, SubmitEmpty, ShutdownReturns,
       JoinThread, JoinReturns, clientVars, Submits
<1>7. ASSUME NEW c \in Clients,
             Shutdown(c) \/ Join(c) \/ \E r \in Rounds : CallInAllThreads(c, r)
      PROVE  Owned'
  BY <1>3, <1>7 DEF CallInAllThreads, Shutdown, Join, Submits
<1> QED BY <1>1, <1>2, <1>5, <1>6, <1>7, WorkFrame, NewFrame DEF Next, Invoke

LEMMA NextExpiredFirst == TypeOK /\ ExpiredFirst /\ [Next]_vars => ExpiredFirst'
<1> SUFFICES ASSUME TypeOK, ExpiredFirst, [Next]_vars PROVE ExpiredFirst'
  OBVIOUS
<1> USE DEF ExpiredFirst, TypeOK, ClientOK, ClientStates, OnlyPool, OnlyCall
<1>1. ASSUME NEW c \in Clients, Shutdown(c) PROVE ExpiredFirst'
  BY <1>1 DEF Shutdown
<1>2. ASSUME NEW c \in Clients, WaitEmpty(c) \/ StoreStopped(c)
      PROVE  ExpiredFirst'
  BY <1>2 DEF WaitEmpty, StoreStopped, At, Call
<1>3. ASSUME NEW c \in Clients, NEW op, op \notin {"wait_empty", "stop"}, NEW arg,
             UNCHANGED <<stopped, expired>>, Call(c, op, arg) \/ ReturnTo(c, op)
      PROVE  ExpiredFirst'
  BY <1>3, ClientEffect
<1>4. ASSUME NEW c \in Clients, UNCHANGED <<stopped, expired>>, Again(c)
      PROVE  ExpiredFirst'
  BY <1>4 DEF Again
<1>5. ASSUME UNCHANGED <<stopped, expired, client>> PROVE ExpiredFirst'
  BY <1>5
<1>6. ASSUME NEW c \in Clients, Proceed(c), ~WaitEmpty(c), ~StoreStopped(c)
      PROVE  ExpiredFirst'
  BY <1>3, <1>4, <1>5, <1>6 DEF Proceed, Submit, SubmitGivesUp, SubmitRound,
       WaitRound, InAllThreadsReturns, SubmitEmpty, ShutdownReturns, JoinThread,
       JoinReturns, clientVars
<1>7. ASSUME NEW c \in Clients, Invoke(c), ~Shutdown(c) PROVE ExpiredFirst'
  BY <1>3, <1>7 DEF Invoke, CallSubmit, CallInAllThreads, Join, Submits
<1> QED BY <1>1, <1>2, <1>5, <1>6, <1>7, WorkFrame, NewFrame DEF Next

LEMMA NextJoined == TypeOK /\ Joined /\ [Next]_vars => Joined'
<1> SUFFICES ASSUME TypeOK, Joined, [Next]_vars PROVE Joined'
  OBVIOUS
<1> USE DEF Joined, Terminated, TypeOK, OnlyPool, OnlyCall, Moves
<1>1. ASSUME NEW w \in Workers, Work(w), NEW v \in Workers, Terminated(v)
      PROVE  Terminated(v)'
  BY <1>1 DEF Work, Begin, LeaveBarrier, TestStopped, Dequeue, ExecuteJob, Ends,
       ExecuteEmpty, EnterF, LeaveF, PanicInF, Goto
<1>2. ASSUME NEW c \in Clients, JoinThread(c) PROVE Joined'
  <2>1. threads \in 1 .. Tasks /\ threads' = threads - 1 /\ Terminated(threads)
    BY <1>2 DEF JoinThread
  <2>2. \A w \in Workers : w > threads' => w = threads \/ w > threads
    BY <2>1 DEF Workers
  <2>3. UNCHANGED worker
    BY <1>2 DEF JoinThread, OnlyClient, workerVars
  <2> QED BY <2>1, <2>2, <2>3
<1>3. ASSUME NEW c \in Clients, Proceed(c) \/ Invoke(c), ~JoinThread(c)
      PROVE  UNCHANGED threads
  BY <1>3 DEF Proceed, Invoke, Submit, SubmitGivesUp, SubmitRound, WaitRound,
       InAllThreadsReturns, WaitEmpty, StoreStopped, SubmitEmpty, ShutdownReturns,
       JoinReturns, CallSubmit, CallInAllThreads, Shutdown, Join, clientVars
<1>4. ASSUME NEW c \in Clients, Proceed(c) \/ Invoke(c), ~JoinThread(c)
      PROVE  Joined'
  BY <1>3, <1>4, ClientFrame
<1>5. ASSUME NEW w \in Workers, Work(w) PROVE Joined'
  BY <1>1, <1>5, WorkFrame
<1>6. CASE New \/ UNCHANGED vars
  BY <1>6, NewFrame
<1> QED BY <1>2, <1>4, <1>5, <1>6 DEF Next

\* Nothing promised comes back into the queue: promised jobs are accepted ones,
\* and a client submits only a job that is not.
LEMMA NextDrained == CompletionInv /\ [Next]_vars => Drained'
<1> USE DEF OnlyPool, OnlyCall, Moves
<1> DEFINE Settled == stopped \/ \E c \in Clients : client[c].op = "stop"
<1>1. SUFFICES ASSUME CompletionInv, [Next]_vars,
                      ShutdownMode = "CompletePending", Settled',
                      NEW j \in promised'
               PROVE  ~Queued(j)'
  BY DEF Drained
<1>2. TypeOK /\ TypeOK' /\ j \in Jobs
  BY <1>1, NextTypeOK DEF CompletionInv, TypeOK
<1>3. Settled /\ j \in promised => ~Queued(j) /\ j \in accepted
  BY <1>1, <1>2 DEF CompletionInv, Drained, TypeOK
<1>4. ASSUME NEW c \in Clients, WaitEmpty(c) PROVE ~Queued(j)'
  BY <1>4, <1>2 DEF WaitEmpty, Queued, TypeOK
<1>5. ASSUME NEW c \in Clients, Proceed(c) \/ Invoke(c), ~WaitEmpty(c)
      PROVE  Settled /\ j \in promised
  <2>1. CASE Shutdown(c)
    <3>1. Call(c, "wait_empty", None)
      BY <1>1, <2>1 DEF Shutdown
    <3>2. Settled
      BY <1>1, <1>2, <2>1, <3>1, ClientEffect DEF Shutdown
    <3>3. expired
      BY <1>1, <3>2 DEF CompletionInv, ExpiredFirst
    <3> QED BY <1>1, <2>1, <3>2, <3>3 DEF Shutdown
  <2>2. CASE StoreStopped(c)
    BY <1>1, <2>2 DEF StoreStopped, At, history
  <2>3. CASE ~Shutdown(c) /\ ~StoreStopped(c)
    <3>1. UNCHANGED <<stopped, promised>>
      BY <1>5, <2>3 DEF Proceed, Invoke, Submit, SubmitGivesUp, SubmitRound,
           WaitRound, InAllThreadsReturns, SubmitEmpty, ShutdownReturns,
           JoinThread, JoinReturns, CallSubmit, CallInAllThreads, Join, history
    <3>2. \/ UNCHANGED client \/ Again(c)
          \/ \E op, arg : op # "stop" /\ (Call(c, op, arg) \/ ReturnTo(c, op))
      BY <1>5, <2>3 DEF Proceed, Invoke, Submit, SubmitGivesUp, SubmitRound,
           WaitRound, InAllThreadsReturns, SubmitEmpty, ShutdownReturns,
           JoinThread, JoinReturns, CallSubmit, CallInAllThreads, Join,
           clientVars, Submits
    <3>3. ASSUME NEW d \in Clients, client'[d].op = "stop"
          PROVE  client[d].op = "stop"
      <4>1. CASE Again(c)
        BY <1>2, <3>3, <4>1 DEF Again, TypeOK, ClientOK, ClientStates
      <4>2. CASE UNCHANGED client
        BY <3>3, <4>2
      <4>3. CASE \E op, arg : op # "stop" /\ (Call(c, op, arg) \/ ReturnTo(c, op))
        BY <1>2, <3>3, <4>3, ClientEffect
      <4> QED BY <3>2, <4>1, <4>2, <4>3
    <3> QED BY <1>1, <3>1, <3>3
  <2> QED BY <2>1, <2>2, <2>3
<1>6. ASSUME NEW c \in Clients, Submit(c) PROVE ~Queued(j)'
  <2>1. Settled /\ j \in promised
    BY <1>5, <1>6 DEF Proceed, Submit, WaitEmpty, At, Submits
  <2>2. client[c].arg \in Commands /\ client[c].arg \notin accepted
    BY <1>1, <1>2, <1>6 DEF Submit, CompletionInv, Owned, Commands, TypeOK, ClientOK
  <2>3. j # client[c].arg /\ ~Queued(j)
    BY <1>3, <2>1, <2>2
  <2> QED BY <1>2, <1>6, <2>2, <2>3, EnqueueQueues DEF Submit
<1>7. ASSUME NEW c \in Clients, Proceed(c) \/ Invoke(c), ~Submit(c), ~WaitEmpty(c)
      PROVE  ~Queued(j)'
  BY <1>2, <1>3, <1>5, <1>7, ClientQueues
<1>8. ASSUME NEW w \in Workers, Work(w) PROVE ~Queued(j)'
  <2>1. ~Queued(j)
    BY <1>1, <1>3, <1>8, WorkFrame
  <2>2. CASE Dequeue(w)
    BY <1>2, <2>1, <2>2, DequeueQueues DEF Dequeue
  <2>3. CASE ~Dequeue(w)
    BY <1>8, <2>1, <2>3 DEF Work, Begin, LeaveBarrier, TestStopped, ExecuteJob,
         ExecuteEmpty, EnterF, LeaveF, PanicInF, Queued
  <2> QED BY <2>2, <2>3
<1>9. CASE New \/ UNCHANGED vars
  BY <1>1, <1>3, <1>9, NewFrame DEF Queued
<1> QED BY <1>1, <1>4, <1>6, <1>7, <1>8, <1>9 DEF Next

LEMMA NextCompletionInv == CompletionInv /\ [Next]_vars => CompletionInv'
BY NextTypeOK, NextPlaced, NextOwned, NextExpiredFirst, NextDrained, NextJoined
   DEF CompletionInv

\* When all threads have been joined none is executing anything.
LEMMA JoinedIdle ==
    ASSUME Joined, threads = 0
    PROVE  \A w \in Workers : worker[w] # "execute"
BY DEF Joined, Terminated, Workers

LEMMA CompletionCompletes == CompletionInv => CompletePendingCompletes
<1> SUFFICES ASSUME CompletionInv, ShutdownMode = "CompletePending", stopped,
                    threads = 0, NEW j \in promised
             PROVE  j \in finished
  BY DEF CompletePendingCompletes
<1>1. j \in accepted /\ ~Queued(j)
  BY DEF CompletionInv, TypeOK, Drained
<1>2. \A w \in Workers : worker[w] # "execute"
  BY JoinedIdle DEF CompletionInv
<1> QED BY <1>1, <1>2 DEF CompletionInv, Placed, Executing

\* CompletePending: once every thread has been joined, every job that had been
\* accepted when shutdown was called has been executed, whatever user code did in
\* between.  No promised job is in the queue, no terminated worker has one in its
\* hands, and none is lost: it is finished.
THEOREM CompletePendingCompletesAlways == Spec => []CompletePendingCompletes
<1> QED BY InitCompletionInv, NextCompletionInv, CompletionCompletes, PTL DEF Spec

-------------------------------------------------------------------------------
(* An accepted job is in one place, once.                                  *)

Executes(w, j) == worker[w] = "execute" /\ cmd[w] = j

\* With Placed: a job is in the queue, or in the hands of a worker, or finished,
\* once and only if it was accepted.
Once ==
    /\ finished \subseteq accepted
    /\ \A j \in Jobs : Queued(j) =>
          j \in accepted /\ j \notin finished /\ ~Executing(j)
    /\ \A j \in Jobs : Executing(j) => j \in accepted /\ j \notin finished
    /\ \A m, n \in 1 .. Len(queue) :
          queue[m] = queue[n] /\ queue[m] \in Jobs => m = n
    /\ \A v, w \in Workers : \A j \in Jobs :
          Executes(v, j) /\ Executes(w, j) => v = w

PlacementInv == CompletionInv /\ Once

LEMMA InitPlacementInv == Init => PlacementInv
BY InitCompletionInv
   DEF Init, PlacementInv, Once, Queued, Executing, Executes

\* What a step of a worker other than dequeue() does to what workers execute.
LEMMA WorkExecutes ==
    ASSUME TypeOK, NEW w \in Workers, Work(w), ~Dequeue(w)
    PROVE  /\ UNCHANGED queue
           /\ worker'[w] # "execute"
           /\ \A v \in Workers \ {w} : worker'[v] = worker[v] /\ cmd'[v] = cmd[v]
           /\ ~ExecuteJob(w) => /\ worker[w] = "execute" => cmd[w] \notin Jobs
                               /\ UNCHANGED finished
<1> USE DEF TypeOK, OnlyWorker, Moves, Goto
<1>1. \A j \in Jobs : j \notin Rounds /\ j # Empty
  BY PoolAssumption
<1>2. /\ UNCHANGED queue
      /\ worker'[w] # "execute"
      /\ \A v \in Workers \ {w} : worker'[v] = worker[v] /\ cmd'[v] = cmd[v]
  BY DEF Work, Begin, LeaveBarrier, TestStopped, ExecuteJob, Ends, ExecuteEmpty,
         EnterF, LeaveF, PanicInF
<1>3. ASSUME ~ExecuteJob(w)
      PROVE  /\ worker[w] = "execute" => cmd[w] \notin Jobs
             /\ UNCHANGED finished
  BY <1>1, <1>3 DEF Work, Begin, LeaveBarrier, TestStopped, ExecuteEmpty, EnterF,
                    LeaveF, PanicInF
<1> QED BY <1>2, <1>3

\* dequeue() hands the head of the queue to w.
LEMMA DequeueExecutes ==
    ASSUME TypeOK, NEW w \in Workers, Dequeue(w)
    PROVE  /\ queue # <<>> /\ queue' = Tail(queue) /\ Head(queue) \in Commands
           /\ worker[w] = "dequeue" /\ UNCHANGED <<accepted, finished>>
           /\ worker'[w] = "execute" /\ cmd'[w] = Head(queue)
           /\ \A v \in Workers \ {w} : worker'[v] = worker[v] /\ cmd'[v] = cmd[v]
BY DEF TypeOK, Dequeue, Goto, OnlyWorker

\* A client leaves the queue alone or appends to it: its job, or no job.
LEMMA ClientAppends ==
    ASSUME TypeOK, Owned, NEW c \in Clients, Proceed(c) \/ Invoke(c)
    PROVE  \/ UNCHANGED <<queue, accepted>>
           \/ /\ UNCHANGED accepted
              /\ \E e \in Commands \ Jobs : Enqueue(e)
           \/ /\ client[c].arg \in Jobs \ accepted /\ Submit(c)
              /\ Enqueue(client[c].arg)
              /\ accepted' = accepted \cup {client[c].arg}
<1>1. CASE Submit(c)
  BY <1>1 DEF Submit, Owned, TypeOK, ClientOK
<1>2. CASE SubmitRound(c)
  <2>1. client[c].arg \in Commands \ Jobs
    BY <1>2, PoolAssumption DEF SubmitRound, TypeOK, ClientOK, Commands
  <2> QED BY <1>2, <2>1 DEF SubmitRound, OnlyPool
<1>3. CASE SubmitEmpty(c)
  <2>1. Empty \in Commands \ Jobs
    BY PoolAssumption DEF Commands
  <2> QED BY <1>3, <2>1 DEF SubmitEmpty, OnlyPool
<1>4. CASE ~Submit(c) /\ ~SubmitRound(c) /\ ~SubmitEmpty(c)
  BY <1>4 DEF Proceed, Invoke, SubmitGivesUp, WaitRound, InAllThreadsReturns,
       WaitEmpty, StoreStopped, ShutdownReturns, JoinThread, JoinReturns,
       CallSubmit, CallInAllThreads, Shutdown, Join, OnlyPool, OnlyCall
<1> QED BY <1>1, <1>2, <1>3, <1>4

LEMMA NextOnce == PlacementInv /\ [Next]_vars => Once'
<1> SUFFICES ASSUME PlacementInv, [Next]_vars PROVE Once'
  OBVIOUS
<1>0. TypeOK /\ Owned /\ Once /\ queue \in Seq(Commands)
  BY DEF PlacementInv, CompletionInv, TypeOK
<1>1. ASSUME UNCHANGED <<queue, worker, cmd, accepted, finished>> PROVE Once'
  BY <1>0, <1>1 DEF Once, Queued, Executing, Executes
<1>2. ASSUME NEW c \in Clients, NEW e \in Commands, Enqueue(e), finished' = finished,
             UNCHANGED <<worker, cmd>>,
             \/ e \notin Jobs /\ UNCHANGED accepted
             \/ e \in Jobs \ accepted /\ accepted' = accepted \cup {e}
      PROVE  Once'
  <2>1. /\ queue' = Append(queue, e) /\ Len(queue) \in Nat
        /\ Len(queue') = Len(queue) + 1 /\ queue'[Len(queue) + 1] = e
        /\ \A m \in 1 .. Len(queue) : queue'[m] = queue[m]
    BY <1>0, <1>2 DEF Enqueue
  <2>2. \A j : Queued(j)' <=> Queued(j) \/ j = e
    BY <1>0, <1>2, EnqueueQueues
  <2>3. e \in Jobs => ~Queued(e) /\ ~Executing(e) /\ e \notin finished
    BY <1>0, <1>2 DEF Once
  <2>4. \A m, n \in 1 .. Len(queue') :
           queue'[m] = queue'[n] /\ queue'[m] \in Jobs => m = n
    <3> SUFFICES ASSUME NEW m \in 1 .. Len(queue'), NEW n \in 1 .. Len(queue'),
                        queue'[m] = queue'[n], queue'[m] \in Jobs
                 PROVE  m = n
      OBVIOUS
    <3>1. \A k \in 1 .. Len(queue) : queue[k] # e \/ e \notin Jobs
      BY <2>3 DEF Queued
    <3>2. m \in 1 .. Len(queue) \/ m = Len(queue) + 1
      BY <2>1
    <3>3. n \in 1 .. Len(queue) \/ n = Len(queue) + 1
      BY <2>1
    <3> QED BY <1>0, <2>1, <3>1, <3>2, <3>3 DEF Once
  <2>5. \A j : Executing(j)' <=> Executing(j)
    BY <1>2 DEF Executing
  <2>6. \A v : \A j : Executes(v, j)' <=> Executes(v, j)
    BY <1>2 DEF Executes
  <2>7. finished' \subseteq accepted'
    BY <1>0, <1>2 DEF Once
  <2>8. \A j \in Jobs : Queued(j)' =>
           j \in accepted' /\ j \notin finished' /\ ~Executing(j)'
    BY <1>0, <1>2, <2>2, <2>3, <2>5 DEF Once
  <2>9. \A j \in Jobs : Executing(j)' => j \in accepted' /\ j \notin finished'
    BY <1>0, <1>2, <2>5 DEF Once
  <2> QED BY <1>0, <2>4, <2>6, <2>7, <2>8, <2>9 DEF Once
<1>3. ASSUME NEW w \in Workers, Dequeue(w) PROVE Once'
  <2>0. PICK h : h = Head(queue)
    OBVIOUS
  <2>1. /\ queue # <<>> /\ queue' = Tail(queue) /\ h \in Commands
        /\ worker[w] = "dequeue" /\ UNCHANGED <<accepted, finished>>
        /\ worker'[w] = "execute" /\ cmd'[w] = h
        /\ \A v \in Workers \ {w} : worker'[v] = worker[v] /\ cmd'[v] = cmd[v]
    BY <1>0, <1>3, <2>0, DequeueExecutes
  <2>2. /\ Len(queue') = Len(queue) - 1 /\ Len(queue) \in Nat \ {0}
        /\ h = queue[1]
        /\ \A m \in 1 .. Len(queue') : queue'[m] = queue[m + 1]
    BY <1>0, <2>0, <2>1
  <2>3. \A j : Queued(j) <=> Queued(j)' \/ j = h
    BY <1>0, <2>0, <2>1, DequeueQueues
  <2>4. h \in Jobs => ~Queued(h)'
    <3> SUFFICES ASSUME h \in Jobs, NEW m \in 1 .. Len(queue'), queue'[m] = h
                 PROVE  FALSE
      BY DEF Queued
    <3>1. m + 1 \in 1 .. Len(queue) /\ 1 \in 1 .. Len(queue) /\ m + 1 # 1
          /\ queue[m + 1] = h
      BY <2>2
    <3> QED BY <1>0, <2>2, <3>1 DEF Once
  <2>5. \A j : Executing(j)' <=> Executing(j) \/ j = h
    BY <2>1 DEF Executing
  <2>6. \A v \in Workers : \A j : Executes(v, j)' <=>
           (v # w /\ Executes(v, j)) \/ (v = w /\ j = h)
    BY <2>1 DEF Executes
  <2>7. \A m, n \in 1 .. Len(queue') :
           queue'[m] = queue'[n] /\ queue'[m] \in Jobs => m = n
    <3> SUFFICES ASSUME NEW m \in 1 .. Len(queue'), NEW n \in 1 .. Len(queue'),
                        queue'[m] = queue'[n], queue'[m] \in Jobs
                 PROVE  m = n
      OBVIOUS
    <3>1. /\ m + 1 \in 1 .. Len(queue) /\ n + 1 \in 1 .. Len(queue)
          /\ queue[m + 1] = queue[n + 1] /\ queue[m + 1] \in Jobs
      BY <2>2
    <3>2. m + 1 = n + 1
      BY <1>0, <3>1 DEF Once
    <3> QED BY <2>2, <3>2
  <2>8. \A v \in Workers, j \in Jobs : Executes(v, j) => Executing(j)
    BY DEF Executes, Executing
  <2>9. h \in Jobs => h \in accepted /\ h \notin finished /\ ~Executing(h)
    BY <1>0, <2>3 DEF Once
  <2>10. \A u, v \in Workers : \A j \in Jobs :
            Executes(u, j)' /\ Executes(v, j)' => u = v
    BY <1>0, <2>6, <2>8, <2>9 DEF Once
  <2>11. \A j \in Jobs : Queued(j)' =>
            j \in accepted' /\ j \notin finished' /\ ~Executing(j)'
    BY <1>0, <2>1, <2>3, <2>4, <2>5 DEF Once
  <2>12. \A j \in Jobs : Executing(j)' => j \in accepted' /\ j \notin finished'
    BY <1>0, <2>1, <2>5, <2>9 DEF Once
  <2>13. finished' \subseteq accepted'
    BY <1>0, <2>1 DEF Once
  <2> QED BY <2>7, <2>10, <2>11, <2>12, <2>13 DEF Once
<1>4. ASSUME NEW w \in Workers, Work(w), ~Dequeue(w) PROVE Once'
  <2>1. /\ UNCHANGED <<queue, accepted>>
        /\ worker'[w] # "execute"
        /\ \A v \in Workers \ {w} : worker'[v] = worker[v] /\ cmd'[v] = cmd[v]
        /\ ~ExecuteJob(w) => UNCHANGED finished
    BY <1>0, <1>4, WorkExecutes, WorkFrame
  <2>2. \A v \in Workers : \A j : Executes(v, j)' => v # w /\ Executes(v, j)
    BY <2>1 DEF Executes
  <2>3. \A j : Executing(j)' => \E v \in Workers \ {w} : Executes(v, j)
    BY <2>1 DEF Executing, Executes
  <2>4. \A v \in Workers, j \in Jobs : Executes(v, j) => Executing(j)
    BY DEF Executes, Executing
  <2>5. ASSUME ExecuteJob(w)
        PROVE  /\ cmd[w] \in Jobs /\ Executes(w, cmd[w])
               /\ finished' = finished \cup {cmd[w]}
    BY <2>5 DEF ExecuteJob, Executes
  <2>6. \A j \in Jobs : Queued(j)' <=> Queued(j)
    BY <2>1 DEF Queued
  <2>7. \A j \in Jobs : Executing(j)' => j \in accepted' /\ j \notin finished'
    BY <1>0, <2>1, <2>3, <2>4, <2>5 DEF Once
  <2>8. \A j \in Jobs : Queued(j)' =>
           j \in accepted' /\ j \notin finished' /\ ~Executing(j)'
    BY <1>0, <2>1, <2>3, <2>4, <2>5, <2>6 DEF Once
  <2>9. finished' \subseteq accepted'
    BY <1>0, <2>1, <2>4, <2>5 DEF Once
  <2>10. \A m, n \in 1 .. Len(queue') :
            queue'[m] = queue'[n] /\ queue'[m] \in Jobs => m = n
    BY <1>0, <2>1 DEF Once
  <2>11. \A u, v \in Workers : \A j \in Jobs :
            Executes(u, j)' /\ Executes(v, j)' => u = v
    BY <1>0, <2>2 DEF Once
  <2> QED BY <2>7, <2>8, <2>9, <2>10, <2>11 DEF Once
<1>5. ASSUME NEW c \in Clients, Proceed(c) \/ Invoke(c) PROVE Once'
  <2>1. UNCHANGED <<worker, cmd, finished>>
    BY <1>5, ClientFrame
  <2>2. client[c].arg \in Jobs => client[c].arg \in Commands
    BY DEF Commands
  <2> QED BY <1>0, <1>1, <1>2, <1>5, <2>1, <2>2, ClientAppends
<1>6. CASE New \/ UNCHANGED vars
  BY <1>1, <1>6, NewFrame
<1> QED BY <1>3, <1>4, <1>5, <1>6 DEF Next

LEMMA NextPlacementInv == PlacementInv /\ [Next]_vars => PlacementInv'
BY NextOnce, NextCompletionInv DEF PlacementInv

\* Every accepted job is in the queue once, or in the hands of one worker, or done.
THEOREM NothingLostAlways == Spec => []NothingLost
<1>1. PlacementInv => NothingLost
  <2> SUFFICES ASSUME PlacementInv, NEW j \in accepted
               PROVE  Cardinality({i \in 1 .. Len(queue) : queue[i] = j})
                      + Cardinality({w \in Workers : worker[w] = "execute" /\ cmd[w] = j})
                      + (IF j \in finished THEN 1 ELSE 0) = 1
    BY DEF NothingLost
  <2> DEFINE Q == {i \in 1 .. Len(queue) : queue[i] = j}
             E == {w \in Workers : worker[w] = "execute" /\ cmd[w] = j}
  <2>1. Once /\ Placed /\ j \in Jobs
    BY DEF PlacementInv, CompletionInv, TypeOK
  <2>2. Queued(j) => \E i : Q = {i}
    <3> SUFFICES ASSUME Queued(j) PROVE \E i : Q = {i}
      OBVIOUS
    <3>1. PICK i \in 1 .. Len(queue) : queue[i] = j
      BY DEF Queued
    <3>2. \A k \in Q : k = i
      BY <2>1, <3>1 DEF Once
    <3>3. Q = {i}
      BY <3>1, <3>2
    <3> QED BY <3>3
  <2>3. ~Queued(j) => Q = {}
    BY DEF Queued
  <2>4. Executing(j) => \E w : E = {w}
    <3> SUFFICES ASSUME Executing(j) PROVE \E w : E = {w}
      OBVIOUS
    <3>1. PICK w \in Workers : worker[w] = "execute" /\ cmd[w] = j
      BY DEF Executing
    <3>2. \A v \in E : v = w
      BY <2>1, <3>1 DEF Once, Executes
    <3>3. E = {w}
      BY <3>1, <3>2
    <3> QED BY <3>3
  <2>5. ~Executing(j) => E = {}
    BY DEF Executing
  <2>6. /\ Queued(j) => Cardinality(Q) = 1
        /\ ~Queued(j) => Cardinality(Q) = 0
        /\ Executing(j) => Cardinality(E) = 1
        /\ ~Executing(j) => Cardinality(E) = 0
    BY <2>2, <2>3, <2>4, <2>5, FS_Singleton, FS_EmptySet
  <2>7. \/ Queued(j) /\ ~Executing(j) /\ j \notin finished
        \/ ~Queued(j) /\ Executing(j) /\ j \notin finished
        \/ ~Queued(j) /\ ~Executing(j) /\ j \in finished
    BY <2>1 DEF Once, Placed
  <2> HIDE DEF Q, E
  <2>8. Cardinality(Q) + Cardinality(E) + (IF j \in finished THEN 1 ELSE 0) = 1
    BY <2>6, <2>7
  <2> QED BY <2>8 DEF Q, E
<1> QED BY <1>1, InitPlacementInv, NextPlacementInv, PTL DEF Spec

-------------------------------------------------------------------------------
(* The pool implements Executor.                                           *)

Phase == IF stopped /\ threads = 0 THEN "joined"
         ELSE IF expired THEN "closing" ELSE "open"

\* FiniteSets comes into Executor by another door.
LEMMA SameCardinality == \A S : Promise!Cardinality(S) = Cardinality(S)
BY DEF Promise!Cardinality, Cardinality

\* What Executor sees of a job, in terms of where the job is.
LEMMA StatusIs ==
    ASSUME Once, Placed, NEW j \in Jobs
    PROVE  /\ StatusOf(j) \in {"new", "pending", "running", "done"}
           /\ StatusOf(j) = "new" <=> j \notin accepted
           /\ StatusOf(j) = "pending" <=> Queued(j)
           /\ StatusOf(j) = "running" <=> Executing(j)
           /\ StatusOf(j) = "done" <=> j \in finished
BY DEF Once, Placed, StatusOf

\* Executor's variables do not change when nothing they are made of does.
LEMMA SameView ==
    ASSUME \A j \in Jobs : Executing(j)' <=> Executing(j),
           \A i, j \in Jobs : Ahead(i, j)' <=> Ahead(i, j),
           UNCHANGED <<accepted, finished, expired, promised>>, Phase' = Phase
    PROVE  UNCHANGED Promise!vars
<1>1. \A j \in Jobs : StatusOf(j)' = StatusOf(j)
  BY DEF StatusOf
<1>2. [j \in Jobs |-> StatusOf(j)]' = [j \in Jobs |-> StatusOf(j)]
  BY <1>1
<1>3. {p \in Jobs \X Jobs : Ahead(p[1], p[2])}' = {p \in Jobs \X Jobs : Ahead(p[1], p[2])}
  OBVIOUS
<1> QED BY <1>2, <1>3 DEF Promise!vars, Phase

LEMMA EnqueueAhead ==
    ASSUME TypeOK, NEW e \in Commands, Enqueue(e), NEW i, NEW j
    PROVE  Ahead(i, j)' <=> Ahead(i, j) \/ (Queued(i) /\ j = e)
<1>1. /\ queue' = Append(queue, e) /\ Len(queue) \in Nat
      /\ Len(queue') = Len(queue) + 1 /\ queue'[Len(queue) + 1] = e
      /\ \A m \in 1 .. Len(queue) : queue'[m] = queue[m]
  BY DEF TypeOK, Enqueue
<1>2. ASSUME Ahead(i, j)' PROVE Ahead(i, j) \/ (Queued(i) /\ j = e)
  <2>1. PICK m \in 1 .. Len(queue'), n \in 1 .. Len(queue') :
             m < n /\ queue'[m] = i /\ queue'[n] = j
    BY <1>2 DEF Ahead
  <2>2. m \in 1 .. Len(queue) /\ queue[m] = i
    BY <1>1, <2>1
  <2>3. (n \in 1 .. Len(queue) /\ queue[n] = j) \/ j = e
    BY <1>1, <2>1
  <2> QED BY <2>1, <2>2, <2>3 DEF Ahead, Queued
<1>3. ASSUME Ahead(i, j) PROVE Ahead(i, j)'
  <2>1. PICK m \in 1 .. Len(queue), n \in 1 .. Len(queue) :
             m < n /\ queue[m] = i /\ queue[n] = j
    BY <1>3 DEF Ahead
  <2>2. /\ m \in 1 .. Len(queue') /\ n \in 1 .. Len(queue')
        /\ queue'[m] = i /\ queue'[n] = j
    BY <1>1, <2>1
  <2> QED BY <2>1, <2>2 DEF Ahead
<1>4. ASSUME Queued(i), j = e PROVE Ahead(i, j)'
  <2>1. PICK m \in 1 .. Len(queue) : queue[m] = i
    BY <1>4 DEF Queued
  <2>2. /\ m \in 1 .. Len(queue') /\ Len(queue) + 1 \in 1 .. Len(queue')
        /\ m < Len(queue) + 1 /\ queue'[m] = i
    BY <1>1, <2>1
  <2> QED BY <1>1, <1>4, <2>2 DEF Ahead
<1> QED BY <1>2, <1>3, <1>4

LEMMA DequeueAhead ==
    ASSUME TypeOK, Once, queue # <<>>, queue' = Tail(queue),
           NEW i \in Jobs, NEW j \in Jobs
    PROVE  /\ Ahead(i, j)' <=> Ahead(i, j) /\ i # Head(queue)
           /\ Head(queue) \in Jobs => ~Ahead(i, Head(queue))
<1>1. /\ Len(queue') = Len(queue) - 1 /\ Len(queue) \in Nat \ {0}
      /\ Head(queue) = queue[1] /\ 1 \in 1 .. Len(queue)
      /\ \A m \in 1 .. Len(queue') : queue'[m] = queue[m + 1]
  BY DEF TypeOK
<1>2. \A m, n \in 1 .. Len(queue) :
         queue[m] = queue[n] /\ queue[m] \in Jobs => m = n
  BY DEF Once
<1>3. ASSUME Ahead(i, j)' PROVE Ahead(i, j) /\ i # Head(queue)
  <2>1. PICK m \in 1 .. Len(queue'), n \in 1 .. Len(queue') :
             m < n /\ queue'[m] = i /\ queue'[n] = j
    BY <1>3 DEF Ahead
  <2>2. /\ m + 1 \in 1 .. Len(queue) /\ n + 1 \in 1 .. Len(queue)
        /\ m + 1 < n + 1 /\ m + 1 # 1
        /\ queue[m + 1] = i /\ queue[n + 1] = j
    BY <1>1, <2>1
  <2> QED BY <1>1, <1>2, <2>2 DEF Ahead
<1>4. ASSUME Ahead(i, j), i # Head(queue) PROVE Ahead(i, j)'
  <2>1. PICK m \in 1 .. Len(queue), n \in 1 .. Len(queue) :
             m < n /\ queue[m] = i /\ queue[n] = j
    BY <1>4 DEF Ahead
  <2>2. m # 1
    BY <1>1, <1>4, <2>1
  <2>3. /\ m - 1 \in 1 .. Len(queue') /\ n - 1 \in 1 .. Len(queue')
        /\ m - 1 < n - 1
        /\ queue'[m - 1] = i /\ queue'[n - 1] = j
    BY <1>1, <2>1, <2>2
  <2> QED BY <2>3 DEF Ahead
<1>5. ASSUME Ahead(i, Head(queue)), Head(queue) \in Jobs PROVE FALSE
  <2>1. PICK m \in 1 .. Len(queue), n \in 1 .. Len(queue) :
             m < n /\ queue[n] = queue[1]
    BY <1>1, <1>5 DEF Ahead
  <2>2. n = 1
    BY <1>1, <1>2, <1>5, <2>1
  <2> QED BY <2>1, <2>2
<1> QED BY <1>3, <1>4, <1>5

\* While a worker has its hands free, the others leave room for one more job.
LEMMA RunningFits ==
    ASSUME TypeOK, NEW w \in Workers, worker[w] # "execute"
    PROVE  Cardinality({j \in Jobs : Executing(j)}) < Tasks
<1> DEFINE R == {j \in Jobs : Executing(j)}
           T == Workers \ {w}
           f == [j \in R |-> CHOOSE v \in Workers : Executes(v, j)]
<1>1. \A j \in R : f[j] \in T /\ Executes(f[j], j)
  BY DEF Executing, Executes
<1>2. f \in Injection(R, T)
  <2>1. f \in [R -> T]
    BY <1>1
  <2>2. ASSUME NEW i \in R, NEW j \in R, f[i] = f[j] PROVE i = j
    <3> HIDE DEF f
    <3> QED BY <1>1, <2>2 DEF Executes
  <2> HIDE DEF f
  <2> QED BY <2>1, <2>2 DEF Injection, IsInjective
<1>3. Tasks \in Nat /\ 1 <= Tasks
  BY PoolAssumption DEF Workers
<1>4. IsFiniteSet(Workers) /\ Cardinality(Workers) = Tasks
  BY <1>3, FS_Interval DEF Workers
<1>5. IsFiniteSet(T) /\ Cardinality(T) = Tasks - 1
  BY <1>4, FS_RemoveElement
<1> HIDE DEF f, R, T
<1>6. IsFiniteSet(R) /\ Cardinality(R) <= Cardinality(T)
  BY <1>2, <1>5, FS_Injection
<1>7. Cardinality(R) \in Nat
  BY <1>6, FS_CardinalityType
<1>8. Cardinality(R) < Tasks
  BY <1>3, <1>5, <1>6, <1>7
<1> QED BY <1>8 DEF R

LEMMA InitRefines == Init => Promise!Init
<1> SUFFICES ASSUME Init PROVE Promise!Init
  OBVIOUS
<1>1. \A j \in Jobs : StatusOf(j) = "new"
  BY DEF Init, StatusOf, Executing
<1>2. \A i, j \in Jobs : ~Ahead(i, j)
  BY DEF Init, Ahead
<1> QED BY <1>1, <1>2 DEF Init, Promise!Init

\* A dequeue() that gets a job starts the one that has waited longest; one that
\* gets another command is none of Executor's business.
LEMMA DequeueRefines ==
    ASSUME PlacementInv, NEW w \in Workers, Dequeue(w)
    PROVE  [Promise!Next]_(Promise!vars)
<1>0. TypeOK /\ Once /\ Placed /\ Joined
  BY DEF PlacementInv, CompletionInv
<1>1. PICK h : h = Head(queue)
  OBVIOUS
<1>2. /\ queue # <<>> /\ queue' = Tail(queue) /\ worker[w] = "dequeue"
      /\ UNCHANGED <<stopped, expired, threads, accepted, finished, promised>>
      /\ worker'[w] = "execute" /\ cmd'[w] = h
      /\ \A v \in Workers \ {w} : worker'[v] = worker[v] /\ cmd'[v] = cmd[v]
  BY <1>0, <1>1, DequeueExecutes, WorkFrame DEF Work
<1>3. \A j : Executing(j)' <=> Executing(j) \/ j = h
  BY <1>2 DEF Executing
<1>4. \A j : Queued(j) <=> Queued(j)' \/ j = h
  BY <1>0, <1>1, <1>2, DequeueQueues
<1>5. \A i, j \in Jobs : Ahead(i, j)' <=> Ahead(i, j) /\ i # h
  BY <1>0, <1>1, <1>2, DequeueAhead
<1>6. Phase' = Phase
  BY <1>2 DEF Phase
<1>7. CASE h \notin Jobs
  BY <1>2, <1>3, <1>5, <1>6, <1>7, SameView
<1>8. CASE h \in Jobs
  <2>1. ~(stopped /\ threads = 0)
    BY <1>0, <1>2 DEF Joined, Terminated, Workers
  <2>2. \A i \in Jobs : ~Ahead(i, h)
    BY <1>0, <1>1, <1>2, <1>8, DequeueAhead
  <2>3. StatusOf(h) = "pending"
    BY <1>0, <1>4, <1>8, StatusIs
  <2>4. Cardinality({j \in Jobs : StatusOf(j) = "running"}) < Tasks
    <3>1. {j \in Jobs : StatusOf(j) = "running"} = {j \in Jobs : Executing(j)}
      BY <1>0, StatusIs
    <3> QED BY <1>0, <1>2, <3>1, RunningFits
  <2>5. \A j \in Jobs : StatusOf(j)' = IF j = h THEN "running" ELSE StatusOf(j)
    BY <1>2, <1>3 DEF StatusOf
  <2>6. [j \in Jobs |-> StatusOf(j)]' =
            [[j \in Jobs |-> StatusOf(j)] EXCEPT ![h] = "running"]
    BY <2>5
  <2>7. {p \in Jobs \X Jobs : Ahead(p[1], p[2])}' =
            {q \in {p \in Jobs \X Jobs : Ahead(p[1], p[2])} : q[1] # h}
    BY <1>5
  <2>8. \A i \in Jobs : <<i, h>> \notin {p \in Jobs \X Jobs : Ahead(p[1], p[2])}
    BY <2>2
  <2>9. {j \in Jobs : [k \in Jobs |-> StatusOf(k)][j] = "running"} =
            {j \in Jobs : StatusOf(j) = "running"}
    OBVIOUS
  <2>10. Promise!Run(h)
    BY SameCardinality, <1>2, <1>6, <1>8, 
       <2>1, <2>3, <2>4, <2>6, <2>7, <2>8, <2>9
       DEF Promise!Run, Promise!In, Phase
  <2> QED BY <1>8, <2>10 DEF Promise!Next
<1> QED BY <1>7, <1>8

\* Of the other steps of a worker, only the end of a job matters.
LEMMA WorkRefines ==
    ASSUME PlacementInv, NEW w \in Workers, Work(w), ~Dequeue(w)
    PROVE  [Promise!Next]_(Promise!vars)
<1>0. TypeOK /\ Once /\ Placed
  BY DEF PlacementInv, CompletionInv
<1>1. /\ UNCHANGED <<queue, stopped, expired, threads, accepted, promised>>
      /\ worker'[w] # "execute"
      /\ \A v \in Workers \ {w} : worker'[v] = worker[v] /\ cmd'[v] = cmd[v]
  BY <1>0, WorkFrame, WorkExecutes
<1>2. /\ \A i, j \in Jobs : Ahead(i, j)' <=> Ahead(i, j)
      /\ Phase' = Phase
  BY <1>1 DEF Ahead, Phase
<1>3. CASE ~ExecuteJob(w)
  <2>1. (worker[w] = "execute" => cmd[w] \notin Jobs) /\ UNCHANGED finished
    BY <1>0, <1>3, WorkExecutes
  <2>2. \A j \in Jobs : Executing(j)' <=> Executing(j)
    BY <1>1, <2>1 DEF Executing
  <2> QED BY <1>1, <1>2, <2>1, <2>2, SameView
<1>4. CASE ExecuteJob(w)
  <2>1. PICK h \in Jobs : /\ worker[w] = "execute" /\ cmd[w] = h
                          /\ finished' = finished \cup {h}
    BY <1>4 DEF ExecuteJob
  <2>2. Executing(h) /\ StatusOf(h) = "running"
    BY <2>1 DEF Executing, StatusOf
  <2>3. \A v \in Workers : Executes(v, h) => v = w
    BY <1>0, <2>1 DEF Once, Executes
  <2>4. \A j \in Jobs : Executing(j)' <=> Executing(j) /\ j # h
    BY <1>1, <2>1, <2>3 DEF Executing, Executes
  <2>5. \A j \in Jobs : StatusOf(j)' = IF j = h THEN "done" ELSE StatusOf(j)
    BY <1>1, <2>1, <2>4 DEF StatusOf
  <2>6. Promise!Finish(h)
    BY <1>1, <1>2, <2>1, <2>2, <2>5 DEF Promise!Finish, Phase
  <2> QED BY <2>1, <2>6 DEF Promise!Next
<1> QED BY <1>3, <1>4

\* What the calls of a client do to the phase of the pool.
LEMMA ClientPhase ==
    ASSUME TypeOK, ExpiredFirst, NEW c \in Clients, Proceed(c) \/ Invoke(c)
    PROVE  \/ /\ Shutdown(c) /\ ~expired
              /\ expired' /\ promised' = accepted /\ UNCHANGED stopped
           \/ /\ UNCHANGED <<expired, promised>>
              /\ stopped' => expired
              /\ stopped => stopped'
              /\ threads = 0 => threads' = 0
<1> USE DEF OnlyPool, OnlyCall, ExpiredFirst, clientVars, history
<1>1. CASE Shutdown(c)
  BY <1>1 DEF Shutdown, TypeOK
<1>2. CASE StoreStopped(c)
  BY <1>2 DEF StoreStopped, At
<1>3. CASE JoinThread(c)
  BY <1>3 DEF JoinThread, TypeOK
<1>4. CASE ~Shutdown(c) /\ ~StoreStopped(c) /\ ~JoinThread(c)
  BY <1>4 DEF Proceed, Invoke, Submit, SubmitGivesUp, SubmitRound, WaitRound,
       InAllThreadsReturns, WaitEmpty, SubmitEmpty, ShutdownReturns, JoinReturns,
       CallSubmit, CallInAllThreads, Join
<1> QED BY <1>1, <1>2, <1>3, <1>4

\* A submission, the first shutdown and the end of join are steps of Executor;
\* whatever else a client does is not.
LEMMA ClientRefines ==
    ASSUME PlacementInv, PlacementInv', NEW c \in Clients, Proceed(c) \/ Invoke(c)
    PROVE  [Promise!Next]_(Promise!vars)
<1>0. TypeOK /\ Once /\ Placed /\ Owned /\ ExpiredFirst
  BY DEF PlacementInv, CompletionInv
<1>1. UNCHANGED <<worker, cmd, finished>>
  BY ClientFrame
<1>2. \A j : Executing(j)' <=> Executing(j)
  BY <1>1 DEF Executing
<1>3. ASSUME \E e \in Commands \ Jobs : Enqueue(e)
      PROVE  \A i, j \in Jobs : Ahead(i, j)' <=> Ahead(i, j)
  BY <1>0, <1>3, EnqueueAhead
<1>4. CASE Submit(c)
  <2>1. PICK h \in Jobs \ accepted : Enqueue(h) /\ accepted' = accepted \cup {h}
    BY <1>0, <1>4 DEF Submit, Owned, TypeOK, ClientOK
  <2>2. h \in Commands /\ UNCHANGED <<stopped, expired, threads, promised>>
    BY <1>4 DEF Submit, Commands, history
  <2>3. StatusOf(h) = "new" /\ ~Executing(h) /\ h \notin finished
    BY <1>0, <2>1, StatusIs DEF Once
  <2>4. \A j \in Jobs : StatusOf(j)' = IF j = h THEN "pending" ELSE StatusOf(j)
    BY <1>1, <1>2, <2>1, <2>3 DEF StatusOf
  <2>5. [j \in Jobs |-> StatusOf(j)]' =
            [[j \in Jobs |-> StatusOf(j)] EXCEPT ![h] = "pending"]
    BY <2>4
  <2>6. \A i, j \in Jobs : Ahead(i, j)' <=> Ahead(i, j)
                                   \/ (StatusOf(i) = "pending" /\ j = h)
    BY <1>0, <2>1, <2>2, EnqueueAhead, StatusIs
  <2>7. {p \in Jobs \X Jobs : Ahead(p[1], p[2])}' =
            {p \in Jobs \X Jobs : Ahead(p[1], p[2])}
              \cup ({i \in Jobs : StatusOf(i) = "pending"} \X {h})
    BY <2>1, <2>6
  <2>8. {j \in Jobs : [k \in Jobs |-> StatusOf(k)][j] = "pending"} =
            {j \in Jobs : StatusOf(j) = "pending"}
    OBVIOUS
  <2>9. Promise!Submit(h)
    BY <2>1, <2>2, <2>3, <2>5, <2>7, <2>8 DEF Promise!Submit, Promise!In
  <2> QED BY <2>1, <2>9 DEF Promise!Next
<1>5. CASE ~Submit(c)
  <2>1. UNCHANGED accepted /\ \A i, j \in Jobs : Ahead(i, j)' <=> Ahead(i, j)
    <3>1. UNCHANGED accepted /\ (UNCHANGED queue \/ \E e \in Commands \ Jobs : Enqueue(e))
      BY <1>0, <1>5, ClientAppends
    <3> QED BY <1>3, <3>1 DEF Ahead
  <2>2. /\ [j \in Jobs |-> StatusOf(j)]' = [j \in Jobs |-> StatusOf(j)]
        /\ {p \in Jobs \X Jobs : Ahead(p[1], p[2])}' =
              {p \in Jobs \X Jobs : Ahead(p[1], p[2])}
    <3>1. \A j \in Jobs : StatusOf(j)' = StatusOf(j)
      BY <1>1, <1>2, <2>1 DEF StatusOf
    <3> QED BY <2>1, <3>1
  <2>3. CASE Shutdown(c) /\ ~expired
    <3>1. ~stopped /\ ~stopped' /\ expired' /\ promised' = accepted
      BY <1>0, <2>3 DEF ExpiredFirst, Shutdown, TypeOK
    <3>2. accepted = Jobs \ {j \in Jobs : [k \in Jobs |-> StatusOf(k)][j] = "new"}
      BY <1>0, StatusIs DEF TypeOK
    <3>3. Promise!Shutdown
      BY <2>2, <2>3, <3>1, <3>2 DEF Promise!Shutdown, Promise!In
    <3> QED BY <3>3 DEF Promise!Next
  <2>4. CASE ~(Shutdown(c) /\ ~expired)
    <3>1. /\ UNCHANGED <<expired, promised>>
          /\ stopped' => expired
          /\ stopped => stopped'
          /\ threads = 0 => threads' = 0
      BY <1>0, <2>4, ClientPhase
    <3>2. CASE Phase' = Phase
      BY <1>1, <1>2, <2>1, <3>1, <3>2, SameView
    <3>3. CASE Phase' # Phase
      <4>1. /\ stopped' /\ threads' = 0 /\ ~(stopped /\ threads = 0) /\ expired
        BY <3>1, <3>3 DEF Phase
      <4>2. \A j \in Jobs : ~Executing(j)
        <5>1. \A w \in Workers : worker'[w] # "execute"
          BY <4>1 DEF PlacementInv, CompletionInv, Joined, Terminated, Workers
        <5> QED BY <1>1, <5>1 DEF Executing
      <4>3. ShutdownMode = "CompletePending" => promised \subseteq finished
        <5>1. CompletePendingCompletes'
          BY CompletionCompletes, PTL DEF PlacementInv
        <5> QED BY <1>1, <3>1, <4>1, <5>1 DEF CompletePendingCompletes
      <4>4. {j \in Jobs : [k \in Jobs |-> StatusOf(k)][j] = "running"} = {}
        BY <1>0, <4>2, StatusIs
      <4>5. ShutdownMode = "CompletePending" => promised \subseteq
              {j \in Jobs : [k \in Jobs |-> StatusOf(k)][j] = "done"}
        BY <1>0, <4>3, StatusIs DEF TypeOK
      <4>6. Promise!Join
        BY <2>2, <3>1, <4>1, <4>4, <4>5 DEF Promise!Join, Promise!In
      <4> QED BY <4>6 DEF Promise!Next
    <3> QED BY <3>2, <3>3
  <2> QED BY <2>3, <2>4
<1> QED BY <1>4, <1>5

\* The pool implements Executor: whatever its threads and clients do, in whatever
\* order, each step of the pool is one that Executor allows or one it cannot see.
THEOREM ExecutorRefinement == Spec => ImplementsExecutor
<1>1. ASSUME PlacementInv, PlacementInv', [Next]_vars
      PROVE  [Promise!Next]_(Promise!vars)
  <2>1. ASSUME NEW c \in Clients, Proceed(c) \/ Invoke(c)
        PROVE  [Promise!Next]_(Promise!vars)
    BY <1>1, <2>1, ClientRefines
  <2>2. ASSUME NEW w \in Workers, Work(w) PROVE [Promise!Next]_(Promise!vars)
    BY <1>1, <2>2, DequeueRefines, WorkRefines
  <2>3. CASE New \/ UNCHANGED vars
    BY <2>3, NewFrame, SameView DEF Executing, Ahead, Phase
  <2> QED BY <1>1, <2>1, <2>2, <2>3 DEF Next
<1> QED BY <1>1, InitPlacementInv, NextPlacementInv, InitRefines, PTL
        DEF Spec, ImplementsExecutor, Promise!Spec
===============================================================================
