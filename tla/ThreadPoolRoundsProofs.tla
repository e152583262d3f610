------------------------ MODULE ThreadPoolRoundsProofs ------------------------
(***************************************************************************)
(* Proofs about in_all_threads: when it returns, f has run in every thread *)
(* and every job that was accepted before the call is done.                *)
(***************************************************************************)
EXTENDS ThreadPoolProofs

\* What belongs to a round comes from a call, and a call keeps to its round.
Known ==
    /\ \A c \in Clients : client[c].arg \in Rounds => At(c, "in_all_threads")
    /\ \A r \in Rounds :
          Queued(r) \/ (\E w \in Workers : cmd[w] = r) \/ arrived[r] # {} => Called(r)

\* No command of a round is ahead of a job that was accepted before the round.
Behind == \A r \in Rounds : /\ before[r] \subseteq accepted
                            /\ \A j \in before[r] : ~Ahead(r, j)

\* Whoever has taken a command of a round has found all earlier jobs gone.
Passed == \A r \in Rounds : \A w \in Workers :
              cmd[w] = r \/ w \in arrived[r] => \A j \in before[r] : ~Queued(j)

\* Whoever has arrived at a round's barrier has run f, and stays until all have.
Parked == \A r \in Rounds : \A w \in Workers :
              w \in arrived[r] =>
                 /\ w \in ranIn[r]
                 /\ Released(r) \/ (worker[w] = "barrier" /\ cmd[w] = r)

Flushed == \A r \in Rounds : Released(r) => before[r] \subseteq finished

RoundInv == CompletionInv /\ Known /\ Behind /\ Passed /\ Parked

-------------------------------------------------------------------------------
(* The queue.                                                              *)

LEMMA RoundsApart == \A r \in Rounds : r \notin Jobs /\ r \notin {Start, Empty, None}
BY PoolAssumption

LEMMA DequeueKeepsOrder ==
    ASSUME TypeOK, queue # <<>>, queue' = Tail(queue), NEW i, NEW j
    PROVE  /\ Ahead(i, j)' => Ahead(i, j)
           /\ Queued(j) /\ j # Head(queue) => Ahead(Head(queue), j)
<1>1. /\ Len(queue') = Len(queue) - 1 /\ Len(queue) \in Nat \ {0}
      /\ Head(queue) = queue[1] /\ 1 \in 1 .. Len(queue)
      /\ \A m \in 1 .. Len(queue') : queue'[m] = queue[m + 1]
  BY DEF TypeOK
<1>2. ASSUME Ahead(i, j)' PROVE Ahead(i, j)
  <2>1. PICK m \in 1 .. Len(queue'), n \in 1 .. Len(queue') :
             m < n /\ queue'[m] = i /\ queue'[n] = j
    BY <1>2 DEF Ahead
  <2>2. /\ m + 1 \in 1 .. Len(queue) /\ n + 1 \in 1 .. Len(queue)
        /\ m + 1 < n + 1 /\ queue[m + 1] = i /\ queue[n + 1] = j
    BY <1>1, <2>1
  <2> QED BY <2>2 DEF Ahead
<1>3. ASSUME Queued(j), j # Head(queue) PROVE Ahead(Head(queue), j)
  <2>1. PICK n \in 1 .. Len(queue) : queue[n] = j
    BY <1>3 DEF Queued
  <2>2. 1 < n
    BY <1>1, <1>3, <2>1
  <2> QED BY <1>1, <2>1, <2>2 DEF Ahead
<1> QED BY <1>2, <1>3

-------------------------------------------------------------------------------
(* What steps do to a round.                                               *)

\* A worker: f returns in it and it arrives, or nothing of the kind.
LEMMA WorkRounds ==
    ASSUME TypeOK, NEW w \in Workers, Work(w), NEW r \in Rounds
    PROVE  /\ UNCHANGED <<before, accepted, client>>
           /\ finished \subseteq finished'
           /\ \A v \in Workers \ {w} : worker'[v] = worker[v] /\ cmd'[v] = cmd[v]
           /\ worker[w] = "barrier" => Released(cmd[w])
           /\ cmd'[w] = r => cmd[w] = r \/ (Dequeue(w) /\ r = Head(queue))
           /\ \/ arrived'[r] = arrived[r] /\ ranIn'[r] = ranIn[r]
              \/ /\ worker[w] = "in_f" /\ cmd[w] = r
                 /\ worker'[w] = "barrier" /\ cmd'[w] = r
                 /\ arrived'[r] = arrived[r] \cup {w}
                 /\ ranIn'[r] = ranIn[r] \cup {w}
                 /\ UNCHANGED queue
<1> USE RoundsApart DEF TypeOK, Moves, Goto, OnlyWorker, clientVars, history
<1>1. CASE Begin(w)
  BY <1>1 DEF Begin, Arrive, Barriers
<1>2. CASE LeaveBarrier(w) \/ TestStopped(w) \/ ExecuteEmpty(w)
  BY <1>2 DEF LeaveBarrier, TestStopped, ExecuteEmpty
<1>3. CASE Dequeue(w)
  BY <1>3 DEF Dequeue
<1>4. CASE ExecuteJob(w)
  BY <1>4 DEF ExecuteJob, Ends
<1>5. CASE EnterF(w) \/ PanicInF(w)
  BY <1>5 DEF EnterF, PanicInF
<1>6. CASE LeaveF(w)
  BY <1>6 DEF LeaveF, Arrive, Barriers
<1> QED BY <1>1, <1>2, <1>3, <1>4, <1>5, <1>6 DEF Work

\* A client: it calls in_all_threads, or arrives, or nothing of the kind.
LEMMA ClientRounds ==
    ASSUME TypeOK, NEW c \in Clients, Proceed(c) \/ Invoke(c), NEW r \in Rounds
    PROVE  /\ ranIn'[r] = ranIn[r]
           /\ \/ before'[r] = before[r] /\ arrived'[r] = arrived[r]
              \/ /\ ~Called(r) /\ before'[r] = accepted
                 /\ UNCHANGED <<queue, accepted, arrived>>
              \/ /\ client[c].arg = r
                 /\ before'[r] = before[r] /\ arrived'[r] = arrived[r] \cup {0}
                 /\ UNCHANGED queue
<1> USE RoundsApart DEF TypeOK, OnlyPool, OnlyCall, history
<1>1. CASE WaitRound(c)
  BY <1>1 DEF WaitRound, Arrive, Barriers, ClientOK
<1>2. CASE \E s \in Rounds : CallInAllThreads(c, s)
  BY <1>2 DEF CallInAllThreads
<1>3. CASE ~WaitRound(c) /\ ~\E s \in Rounds : CallInAllThreads(c, s)
  BY <1>3 DEF Proceed, Invoke, Submit, SubmitGivesUp, SubmitRound,
       InAllThreadsReturns, WaitEmpty, StoreStopped, SubmitEmpty, ShutdownReturns,
       JoinThread, JoinReturns, CallSubmit, Shutdown, Join
<1> QED BY <1>1, <1>2, <1>3
\* What a client that is in a round does about it.
LEMMA ClientKeepsRound ==
    ASSUME TypeOK, NEW c \in Clients, Proceed(c) \/ Invoke(c),
           client[c].arg \in Rounds => At(c, "in_all_threads")
    PROVE  /\ \A d \in Clients \ {c} : client'[d] = client[d]
           /\ client'[c].arg \in Rounds => client'[c].op = "in_all_threads"
           /\ client[c].arg \in Rounds =>
                 client'[c].arg = client[c].arg \/ Released(client[c].arg)
           /\ \A e \in Commands : Enqueue(e) => e \notin Rounds \/ e = client[c].arg
<1>0. \A op : ReturnTo(c, op) => /\ client'[c].op = op /\ client'[c].arg = None
                                 /\ \A d \in Clients \ {c} : client'[d] = client[d]
  BY DEF ReturnTo, Idle, TypeOK, ClientOK
<1>1. \A op, arg : Call(c, op, arg) =>
         /\ client'[c].op = op /\ client'[c].arg = arg
         /\ \A d \in Clients \ {c} : client'[d] = client[d]
  BY DEF Call, TypeOK, ClientOK
<1>2. Again(c) => /\ client'[c].op = client[c].op /\ client'[c].arg = client[c].arg
                  /\ \A d \in Clients \ {c} : client'[d] = client[d]
  BY DEF Again, TypeOK, ClientOK, ClientStates
<1>a. ASSUME NEW e \in Commands, Enqueue(e)
      PROVE  /\ Len(queue') = Len(queue) + 1 /\ Len(queue) \in Nat
             /\ queue'[Len(queue) + 1] = e
  <2>1. queue \in Seq(Commands) /\ queue' = Append(queue, e)
    BY <1>a DEF Enqueue, TypeOK
  <2> QED BY <2>1
<1>3. UNCHANGED queue => \A e \in Commands : ~Enqueue(e)
  <2>1. ASSUME UNCHANGED queue, NEW e \in Commands, Enqueue(e) PROVE FALSE
    <3>1. Len(queue') = Len(queue) + 1 /\ Len(queue) \in Nat
      BY <1>a, <2>1
    <3> QED BY <2>1, <3>1
  <2> QED BY <2>1
<1>4. \A e, f \in Commands : Enqueue(e) /\ Enqueue(f) => e = f
  BY <1>a
<1>5. \A j \in Jobs : j \notin Rounds
  BY RoundsApart
<1>6. None \notin Rounds /\ Empty \notin Rounds
  BY PoolAssumption
<1>b. /\ client[c].op \in Submits \cup {"in_all_threads"} => client[c].arg \in Commands
      /\ client[c].op \in Submits => client[c].arg \notin Rounds
      /\ Empty \in Commands
  BY <1>5 DEF TypeOK, ClientOK, At, Commands
<1> USE DEF OnlyPool, OnlyCall, At, clientVars
<1>7. CASE Submit(c)
  BY <1>0, <1>4, <1>6, <1>7, <1>b DEF Submit
<1>8. CASE SubmitGivesUp(c) \/ ShutdownReturns(c) \/ JoinReturns(c)
  BY <1>0, <1>3, <1>6, <1>8 DEF SubmitGivesUp, ShutdownReturns, JoinReturns
<1>9. CASE InAllThreadsReturns(c)
  BY <1>0, <1>3, <1>6, <1>9 DEF InAllThreadsReturns
<1>10. CASE SubmitRound(c)
  BY <1>2, <1>4, <1>10, <1>b DEF SubmitRound
<1>11. CASE SubmitEmpty(c)
  BY <1>2, <1>4, <1>6, <1>11, <1>b DEF SubmitEmpty
<1>12. CASE WaitRound(c)
  BY <1>3, <1>12 DEF WaitRound
<1>13. CASE WaitEmpty(c) \/ StoreStopped(c)
  BY <1>1, <1>3, <1>6, <1>13 DEF WaitEmpty, StoreStopped
<1>14. CASE JoinThread(c)
  BY <1>0, <1>3, <1>6, <1>14 DEF JoinThread
<1>15. CASE \E j \in Jobs, op \in Submits : CallSubmit(c, j, op)
  BY <1>0, <1>1, <1>3, <1>5, <1>6, <1>15 DEF CallSubmit, Borrows
<1>16. CASE \E r \in Rounds : CallInAllThreads(c, r)
  BY <1>0, <1>1, <1>3, <1>6, <1>16 DEF CallInAllThreads, Borrows
<1>17. CASE Shutdown(c) \/ Join(c)
  BY <1>1, <1>3, <1>6, <1>17 DEF Shutdown, Join, BorrowsMut
<1> QED BY <1>7, <1>8, <1>9, <1>10, <1>11, <1>12, <1>13, <1>14, <1>15, <1>16, <1>17
        DEF Proceed, Invoke

LEMMA NextKnown == TypeOK /\ Known /\ Owned /\ [Next]_vars => Known'
<1> SUFFICES ASSUME TypeOK, Known, Owned, [Next]_vars PROVE Known'
  OBVIOUS
<1>1. ASSUME NEW w \in Workers, Work(w) PROVE Known'
  <2>1. UNCHANGED client
    BY <1>1, WorkFrame
  <2>2. SUFFICES ASSUME NEW r \in Rounds,
                        Queued(r)' \/ (\E v \in Workers : cmd'[v] = r) \/ arrived'[r] # {}
                 PROVE  Called(r)'
    BY <2>1 DEF Known, At, Workers
  <2>3. arrived[r] \subseteq arrived'[r]
    BY <1>1, WorkRounds
  <2>4. Called(r) => Called(r)'
    BY <2>1, <2>3 DEF Called
  <2>5. Queued(r)' => Queued(r)
    <3>1. CASE Dequeue(w)
      BY <1>1, <3>1, DequeueExecutes, DequeueQueues
    <3>2. CASE ~Dequeue(w)
      BY <1>1, <3>2, WorkExecutes DEF Queued
    <3> QED BY <3>1, <3>2
  <2>6. (\E v \in Workers : cmd'[v] = r) => Queued(r) \/ \E v \in Workers : cmd[v] = r
    <3>1. Dequeue(w) /\ r = Head(queue) => Queued(r)
      BY DequeueExecutes, DequeueQueues
    <3> QED BY <1>1, <3>1, WorkRounds
  <2>7. arrived'[r] # {} => arrived[r] # {} \/ \E v \in Workers : cmd[v] = r
    BY <1>1, WorkRounds
  <2> QED BY <2>2, <2>4, <2>5, <2>6, <2>7 DEF Known
<1>2. ASSUME NEW c \in Clients, Proceed(c) \/ Invoke(c) PROVE Known'
  <2>1. /\ \A d \in Clients \ {c} : client'[d] = client[d]
        /\ client'[c].arg \in Rounds => client'[c].op = "in_all_threads"
        /\ client[c].arg \in Rounds =>
              client'[c].arg = client[c].arg \/ Released(client[c].arg)
        /\ \A e \in Commands : Enqueue(e) => e \notin Rounds \/ e = client[c].arg
    BY <1>2, ClientKeepsRound DEF Known
  <2>2. UNCHANGED cmd
    BY <1>2, ClientFrame
  <2>3. SUFFICES ASSUME NEW r \in Rounds,
                        Queued(r)' \/ (\E v \in Workers : cmd[v] = r) \/ arrived'[r] # {}
                 PROVE  Called(r)'
    BY <2>1, <2>2 DEF Known, At, Workers
  <2>4. arrived[r] \subseteq arrived'[r]
    BY <1>2, ClientRounds
  <2>5. Called(r) => Called(r)'
    <3>1. Released(r) => 0 \in arrived[r]
      BY PoolAssumption DEF Released, Participants
    <3> QED BY <2>1, <2>4, <3>1 DEF Called
  <2>6. Queued(r)' => Queued(r) \/ Called(r)
    <3>1. UNCHANGED queue \/ \E e \in Commands : Enqueue(e)
      BY <1>2, ClientAppends DEF Commands
    <3>2. ASSUME NEW e \in Commands, Enqueue(e), Queued(r)', ~Queued(r) PROVE Called(r)
      BY <2>1, <3>2, EnqueueQueues DEF Called
    <3> QED BY <3>1, <3>2 DEF Queued
  <2>7. arrived'[r] # {} => arrived[r] # {} \/ Called(r)
    <3>1. arrived'[r] = arrived[r] \/ client[c].arg = r
      BY <1>2, ClientRounds
    <3> QED BY <3>1 DEF Called
  <2> QED BY <2>3, <2>5, <2>6, <2>7 DEF Known
<1>3. CASE New
  BY <1>3, RoundsApart DEF New, OnlyClient, workerVars, clientVars, Known, At, Queued, Called,
                           Arrive, TypeOK, Barriers
<1>4. CASE UNCHANGED vars
  BY <1>4 DEF vars, workerVars, clientVars, Known, At, Queued, Called
<1> QED BY <1>1, <1>2, <1>3, <1>4 DEF Next

\* A worker only takes from the queue.
LEMMA WorkTakes ==
    ASSUME TypeOK, NEW w \in Workers, Work(w), NEW i, NEW j
    PROVE  /\ Queued(j)' => Queued(j)
           /\ Ahead(i, j)' => Ahead(i, j)
<1>1. CASE Dequeue(w)
  BY <1>1, DequeueExecutes, DequeueQueues, DequeueKeepsOrder
<1>2. CASE ~Dequeue(w)
  BY <1>2, WorkExecutes DEF Queued, Ahead
<1> QED BY <1>1, <1>2

\* A client never puts an accepted job into the queue, nor anything before it.
LEMMA ClientPuts ==
    ASSUME TypeOK, Owned, NEW c \in Clients, Proceed(c) \/ Invoke(c), NEW i,
           NEW j \in accepted
    PROVE  /\ j \in accepted'
           /\ Queued(j)' => Queued(j)
           /\ Ahead(i, j)' => Ahead(i, j)
<1>1. CASE UNCHANGED <<queue, accepted>>
  BY <1>1 DEF Queued, Ahead
<1>2. ASSUME NEW e \in Commands, Enqueue(e), e # j, accepted \subseteq accepted'
      PROVE  j \in accepted' /\ (Queued(j)' => Queued(j)) /\ (Ahead(i, j)' => Ahead(i, j))
  BY <1>2, EnqueueQueues, EnqueueAhead
<1>3. j \in Jobs
  BY DEF TypeOK
<1>4. CASE UNCHANGED accepted /\ \E e \in Commands \ Jobs : Enqueue(e)
  BY <1>2, <1>3, <1>4
<1>5. CASE /\ client[c].arg \in Jobs \ accepted
           /\ Enqueue(client[c].arg)
           /\ accepted' = accepted \cup {client[c].arg}
  BY <1>2, <1>5 DEF Commands
<1> QED BY <1>1, <1>4, <1>5, ClientAppends

\* ThreadPool::new and stuttering leave the rounds alone.
LEMMA NewRounds ==
    ASSUME TypeOK, New \/ UNCHANGED vars, NEW r \in Rounds
    PROVE  /\ UNCHANGED <<queue, worker, cmd, accepted, finished, before, ranIn>>
           /\ arrived'[r] = arrived[r]
BY RoundsApart DEF New, Arrive, OnlyClient, workerVars, clientVars, history, vars, TypeOK, Barriers

LEMMA NextBehind == TypeOK /\ Owned /\ Known /\ Behind /\ [Next]_vars => Behind'
<1> SUFFICES ASSUME TypeOK, Owned, Known, Behind, [Next]_vars, NEW r \in Rounds
             PROVE  (before[r])' \subseteq accepted' /\ \A j \in (before[r])' : ~Ahead(r, j)'
  BY DEF Behind
<1>1. before[r] \subseteq accepted /\ \A j \in before[r] : ~Ahead(r, j)
  BY DEF Behind
<1>2. ASSUME NEW w \in Workers, Work(w)
      PROVE  (before[r])' \subseteq accepted' /\ \A j \in (before[r])' : ~Ahead(r, j)'
  BY <1>1, <1>2, WorkRounds, WorkTakes
<1>3. ASSUME NEW c \in Clients, Proceed(c) \/ Invoke(c)
      PROVE  (before[r])' \subseteq accepted' /\ \A j \in (before[r])' : ~Ahead(r, j)'
  <2>1. CASE before'[r] = before[r]
    BY <1>1, <1>3, <2>1, ClientPuts
  <2>2. CASE /\ ~Called(r) /\ before'[r] = accepted
             /\ UNCHANGED <<queue, accepted, arrived>>
    BY <2>2 DEF Known, Ahead, Queued
  <2> QED BY <1>3, <2>1, <2>2, ClientRounds
<1>4. CASE New \/ UNCHANGED vars
  BY <1>1, <1>4, NewRounds DEF Ahead
<1> QED BY <1>2, <1>3, <1>4 DEF Next

LEMMA NextPassed ==
    TypeOK /\ Owned /\ Known /\ Behind /\ Passed /\ [Next]_vars => Passed'
<1> SUFFICES ASSUME TypeOK, Owned, Known, Behind, Passed, [Next]_vars,
                    NEW r \in Rounds, NEW w \in Workers,
                    cmd'[w] = r \/ w \in arrived'[r],
                    NEW j \in (before[r])'
             PROVE  ~Queued(j)'
  BY DEF Passed, Workers
<1>1. /\ before[r] \subseteq accepted
      /\ \A i \in before[r] : ~Ahead(r, i)
      /\ cmd[w] = r \/ w \in arrived[r] => \A i \in before[r] : ~Queued(i)
  BY DEF Behind, Passed
<1>2. ASSUME NEW v \in Workers, Work(v) PROVE ~Queued(j)'
  <2>1. j \in before[r] /\ j \in Jobs /\ j # r
    BY <1>1, <1>2, WorkRounds, RoundsApart DEF TypeOK
  <2>2. CASE cmd[w] = r \/ w \in arrived[r]
    BY <1>1, <1>2, <2>1, <2>2, WorkTakes
  <2>3. CASE ~(cmd[w] = r \/ w \in arrived[r])
    <3>1. w = v /\ Dequeue(v) /\ r = Head(queue)
      BY <1>2, <2>3, WorkRounds
    <3>2. queue # <<>> /\ queue' = Tail(queue)
      BY <3>1, DequeueExecutes
    <3>3. ~Queued(j)
      BY <1>1, <2>1, <3>1, <3>2, DequeueKeepsOrder
    <3> QED BY <1>2, <3>3, WorkTakes
  <2> QED BY <2>2, <2>3
<1>3. ASSUME NEW c \in Clients, Proceed(c) \/ Invoke(c) PROVE ~Queued(j)'
  <2>1. UNCHANGED cmd /\ w # 0
    BY <1>3, ClientFrame DEF Workers
  <2>2. CASE before'[r] = before[r]
    <3>1. cmd[w] = r \/ w \in arrived[r]
      BY <1>3, <2>1, ClientRounds
    <3> QED BY <1>1, <1>3, <2>2, <3>1, ClientPuts
  <2>3. CASE ~Called(r) /\ UNCHANGED arrived
    BY <2>1, <2>3 DEF Known
  <2> QED BY <1>3, <2>2, <2>3, ClientRounds
<1>4. CASE New \/ UNCHANGED vars
  BY <1>1, <1>4, NewRounds DEF Queued
<1> QED BY <1>2, <1>3, <1>4 DEF Next

\* Nobody leaves the set of those who have arrived.
LEMMA NextArrived ==
    ASSUME TypeOK, [Next]_vars, NEW r \in Rounds
    PROVE  /\ arrived[r] \subseteq arrived'[r]
           /\ Released(r) => Released(r)'
<1>1. arrived[r] \subseteq arrived'[r]
  <2>1. ASSUME NEW w \in Workers, Work(w) PROVE arrived[r] \subseteq arrived'[r]
    BY <2>1, WorkRounds
  <2>2. ASSUME NEW c \in Clients, Proceed(c) \/ Invoke(c)
        PROVE  arrived[r] \subseteq arrived'[r]
    BY <2>2, ClientRounds
  <2> QED BY <2>1, <2>2, NewRounds DEF Next
<1>2. arrived'[r] \subseteq Participants
  BY NextTypeOK DEF TypeOK, Barriers, Participants
<1> QED BY <1>1, <1>2 DEF Released, Participants

LEMMA NextParked == TypeOK /\ Parked /\ [Next]_vars => Parked'
<1> SUFFICES ASSUME TypeOK, Parked, [Next]_vars, NEW r \in Rounds, NEW w \in Workers,
                    w \in arrived'[r]
             PROVE  /\ w \in ranIn'[r]
                    /\ Released(r)' \/ (worker'[w] = "barrier" /\ cmd'[w] = r)
  BY DEF Parked, Workers
<1>1. w \in arrived[r] => /\ w \in ranIn[r]
                          /\ Released(r) \/ (worker[w] = "barrier" /\ cmd[w] = r)
  BY DEF Parked
<1>2. Released(r) => Released(r)'
  BY NextArrived
<1>3. ASSUME NEW v \in Workers, Work(v)
      PROVE  /\ w \in ranIn'[r]
             /\ Released(r)' \/ (worker'[w] = "barrier" /\ cmd'[w] = r)
  <2>1. CASE arrived'[r] = arrived[r] /\ ranIn'[r] = ranIn[r]
    BY <1>1, <1>2, <1>3, <2>1, WorkRounds
  <2>2. CASE /\ worker'[v] = "barrier" /\ cmd'[v] = r
             /\ arrived'[r] = arrived[r] \cup {v}
             /\ ranIn'[r] = ranIn[r] \cup {v}
    BY <1>1, <1>2, <1>3, <2>2, WorkRounds
  <2> QED BY <1>3, <2>1, <2>2, WorkRounds
<1>4. ASSUME NEW c \in Clients, Proceed(c) \/ Invoke(c)
      PROVE  /\ w \in ranIn'[r]
             /\ Released(r)' \/ (worker'[w] = "barrier" /\ cmd'[w] = r)
  <2>1. UNCHANGED <<worker, cmd>> /\ w # 0
    BY <1>4, ClientFrame DEF Workers
  <2>2. w \in arrived[r] /\ ranIn'[r] = ranIn[r]
    BY <1>4, <2>1, ClientRounds
  <2> QED BY <1>1, <1>2, <2>1, <2>2
<1>5. CASE New \/ UNCHANGED vars
  BY <1>1, <1>2, <1>5, NewRounds
<1> QED BY <1>3, <1>4, <1>5 DEF Next

\* When the last one arrives, every worker is at the barrier: what was accepted
\* before the round is not in the queue and nobody executes it.
LEMMA NextFlushed ==
    Tasks > 0 /\ RoundInv /\ Flushed /\ RoundInv' /\ [Next]_vars => Flushed'
<1> SUFFICES ASSUME Tasks > 0, RoundInv, Flushed, RoundInv', [Next]_vars,
                    NEW r \in Rounds, Released(r)', NEW j \in (before[r])'
             PROVE  j \in finished'
  BY DEF Flushed
<1> USE DEF RoundInv
<1>1. TypeOK /\ Placed' /\ j \in accepted'
  BY DEF CompletionInv, Behind
<1>2. 1 \in Workers /\ \A w \in Workers : w \in arrived'[r]
  BY PoolAssumption DEF Released, Workers, Participants
<1>3. ~Queued(j)'
  BY <1>2 DEF Passed, Workers
<1>4. ASSUME \A w \in Workers : worker'[w] = "barrier" PROVE j \in finished'
  BY <1>1, <1>3, <1>4 DEF Placed, Executing, Workers
<1>5. ASSUME Released(r), before'[r] = before[r], finished \subseteq finished'
      PROVE  j \in finished'
  BY <1>5 DEF Flushed
<1>6. \A w \in Workers : w \in arrived[r] => Released(r) \/ worker[w] = "barrier"
  BY DEF Parked
<1>7. ASSUME NEW v \in Workers, Work(v) PROVE j \in finished'
  <2>1. before'[r] = before[r] /\ finished \subseteq finished'
    BY <1>1, <1>7, WorkRounds
  <2>2. CASE arrived'[r] = arrived[r]
    BY <1>5, <2>1, <2>2 DEF Released, Participants
  <2>3. CASE /\ ~Released(r) /\ worker'[v] = "barrier"
             /\ arrived'[r] = arrived[r] \cup {v}
    BY <1>1, <1>2, <1>4, <1>6, <1>7, <2>3, WorkRounds
  <2> QED BY <1>1, <1>5, <1>7, <2>1, <2>2, <2>3, WorkRounds
<1>8. ASSUME NEW c \in Clients, Proceed(c) \/ Invoke(c) PROVE j \in finished'
  <2>1. UNCHANGED <<worker, cmd, finished>>
    BY <1>8, ClientFrame
  <2>2. CASE before'[r] = before[r] /\ arrived'[r] = arrived[r]
    BY <1>5, <2>1, <2>2 DEF Released, Participants
  <2>3. CASE before'[r] = before[r] /\ arrived'[r] = arrived[r] \cup {0}
    <3>1. \A w \in Workers : w \in arrived[r]
      BY <1>2, <2>3 DEF Workers
    <3> QED BY <1>4, <1>5, <1>6, <2>1, <2>3, <3>1
  <2>4. CASE ~Called(r) /\ UNCHANGED arrived
    BY <2>4, PoolAssumption DEF Called, Released, Participants
  <2> QED BY <1>1, <1>8, <2>2, <2>3, <2>4, ClientRounds
<1>9. CASE New \/ UNCHANGED vars
  BY <1>1, <1>5, <1>9, NewRounds DEF Released, Participants
<1> QED BY <1>7, <1>8, <1>9 DEF Next

\* in_all_threads returns only after f has run in every thread and every job that
\* was accepted before the call is done.
THEOREM InAllThreadsFlushesAlways ==
    ASSUME Tasks > 0 PROVE Spec => []InAllThreadsFlushes
<1>1. Init => RoundInv /\ Flushed
  <2> SUFFICES ASSUME Init PROVE RoundInv /\ Flushed
    OBVIOUS
  <2>1. CompletionInv
    BY InitCompletionInv
  <2>2. \A r \in Rounds : arrived[r] = {} /\ before[r] = {} /\ ~Queued(r)
    BY DEF Init, Barriers, Queued
  <2>3. \A r \in Rounds : ~Released(r) /\ ~\E w \in Workers : cmd[w] = r
    <3>0. 0 \in Participants
      BY PoolAssumption DEF Participants
    <3>1. \A r \in Rounds : ~Released(r)
      BY <2>2, <3>0 DEF Released
    <3> QED BY <3>1, RoundsApart DEF Init
  <2>4. \A c \in Clients : client[c].arg \notin Rounds
    BY PoolAssumption DEF Init, Idle
  <2> QED BY <2>1, <2>2, <2>3, <2>4
          DEF RoundInv, Flushed, Known, Behind, Passed, Parked
<1>2. RoundInv /\ [Next]_vars => RoundInv'
  BY NextCompletionInv, NextKnown, NextBehind, NextPassed, NextParked
     DEF RoundInv, CompletionInv
<1>3. RoundInv /\ Flushed /\ [Next]_vars => Flushed'
  BY <1>2, NextFlushed
<1>4. RoundInv /\ Flushed => InAllThreadsFlushes
  <2> SUFFICES ASSUME RoundInv, Flushed, NEW r \in Rounds, Released(r)
               PROVE  ranIn[r] = Workers /\ before[r] \subseteq finished
    BY DEF InAllThreadsFlushes
  <2>1. \A w \in Workers : w \in arrived[r]
    BY PoolAssumption DEF Released, Participants, Workers
  <2>2. ranIn[r] \subseteq Workers
    BY DEF RoundInv, CompletionInv, TypeOK
  <2> QED BY <2>1, <2>2 DEF Flushed, RoundInv, Parked
<1> QED BY <1>1, <1>2, <1>3, <1>4, PTL DEF Spec
===============================================================================
