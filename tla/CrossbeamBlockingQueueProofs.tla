---------------------- MODULE CrossbeamBlockingQueueProofs ----------------------
(***************************************************************************)
(* Theorems about CrossbeamBlockingQueue, for every set of threads and     *)
(* elements, every capacity and every mix of calls and timeouts.           *)
(***************************************************************************)
EXTENDS CrossbeamBlockingQueue, TLAPS

-------------------------------------------------------------------------------
(* Type correctness.                                                       *)

LEMMA InitTypeOK == Init => TypeOK
BY CapacityAssumption DEF Init, TypeOK, Idle

\* A call is not Idle, and what wait_empty becomes when it looks again.
LEMMA CallsAreCalls ==
    ASSUME NEW t, NEW c \in Calls(t)
    PROVE  /\ c # Idle
           /\ c \in [op : {"enqueue", "dequeue", "wait_empty"},
                     element : Elements \cup {None}, timeout : {"max", "finite"}]
           /\ c.op = "enqueue" => c.element \in Elements
           /\ c.op # "enqueue" => c.element = None
           /\ c.op = "wait_empty" => [[c EXCEPT !.op = "recheck"] EXCEPT !.op = "wait_empty"] = c
<1>1. c \in [op : {"enqueue", "dequeue", "wait_empty"},
            element : Elements \cup {None}, timeout : Timeouts]
  BY DEF Calls
<1>2. c.op # Idle.op
  BY <1>1 DEF Idle
<1> QED BY <1>1, <1>2, CallsAssumption DEF Calls

\* What a thread may be doing.
CallStates == [op : {"idle", "enqueue", "dequeue", "wait_empty", "recheck"},
               element : Elements \cup {None}, timeout : {"max", "finite"}]

Doing(t, state) ==
    /\ state \in CallStates
    /\ \/ state \in Calls(t) \cup {Idle}
       \/ state.op = "recheck" /\ [state EXCEPT !.op = "wait_empty"] \in Calls(t)

\* A return, an iteration, and the end of wait_empty's loop.
LEMMA MayDo ==
    ASSUME NEW t, NEW c \in Calls(t)
    PROVE  /\ Doing(t, Idle) /\ Doing(t, c)
           /\ c.op = "wait_empty" => Doing(t, [c EXCEPT !.op = "recheck"])
<1>1. Doing(t, Idle)
  BY DEF Doing, CallStates, Idle
<1>2. Doing(t, c)
  BY CallsAreCalls DEF Doing, CallStates
<1>3. ASSUME c.op = "wait_empty" PROVE Doing(t, [c EXCEPT !.op = "recheck"])
  <2>a. c \in [op : {"enqueue", "dequeue", "wait_empty"},
              element : Elements \cup {None}, timeout : {"max", "finite"}]
    BY CallsAreCalls
  <2>1. [[c EXCEPT !.op = "recheck"] EXCEPT !.op = "wait_empty"] \in Calls(t)
    <3>1. [[c EXCEPT !.op = "recheck"] EXCEPT !.op = "wait_empty"] = c
      BY <1>3, CallsAreCalls
    <3> QED BY <3>1
  <2>2. [c EXCEPT !.op = "recheck"].op = "recheck"
    BY <2>a
  <2>3. [c EXCEPT !.op = "recheck"] \in CallStates
    BY <2>a DEF CallStates
  <2> QED BY <2>1, <2>2, <2>3 DEF Doing
<1> QED BY <1>1, <1>2, <1>3

CallOK == call \in [Threads -> CallStates] /\ \A t \in Threads : Doing(t, call[t])

LEMMA CallTyped ==
    ASSUME TypeOK, NEW t \in Threads, NEW state, Doing(t, state),
           call' = [call EXCEPT ![t] = state]
    PROVE  CallOK'
<1>1. CallOK
  BY DEF TypeOK, CallOK, Doing, CallStates
<1>2. call'[t] = state /\ \A u \in Threads \ {t} : call'[u] = call[u]
  BY DEF TypeOK
<1>3. \A u \in Threads : Doing(u, call'[u])
  BY <1>1, <1>2 DEF CallOK
<1>4. \A u \in Threads : Doing(u, call'[u]) = Doing(u, call[u])'
  BY DEF Doing
<1>5. state \in CallStates
  BY DEF Doing
<1> QED BY <1>1, <1>3, <1>4, <1>5 DEF CallOK

LEMMA Doing0 == \A t : Doing(t, Idle)
BY DEF Doing, CallStates, Idle

\* A step of t's leaves the calls of the others alone.
LEMMA CallOther ==
    ASSUME TypeOK, NEW t \in Threads, NEW state,
           call' = [call EXCEPT ![t] = state]
    PROVE  call'[t] = state /\ \A u \in Threads \ {t} : call'[u] = call[u]
BY DEF TypeOK

\* Who has failed has a call that goes on.
FailedOK == failed \subseteq Threads /\ \A t \in failed : call[t] \in Calls(t)

LEMMA NextTypeOK == TypeOK /\ [Next]_vars => TypeOK'
<1> SUFFICES ASSUME TypeOK, [Next]_vars PROVE TypeOK'
  OBVIOUS
<1>a. ASSUME CallOK', FailedOK', Observe,
             elements' \in Seq(Elements), Len(elements') <= Capacity,
             returned' \in (Threads \X Results) \cup {<<>>}
      PROVE  TypeOK'
  <2>1. met' \subseteq Threads
    BY <1>a DEF Observe
  <2> QED BY <1>a, <2>1 DEF CallOK, Doing, CallStates, FailedOK, TypeOK
<1>b. ASSUME NEW t \in Threads, NEW v \in Results, Return(t, v)
      PROVE  CallOK' /\ FailedOK' /\ returned' \in (Threads \X Results) \cup {<<>>}
  <2>1. CallOK'
    BY <1>b, MayDo, CallTyped, Doing0 DEF Return
  <2> QED BY <1>b, <2>1, CallOther DEF Return, FailedOK, TypeOK
<1>c. /\ elements \in Seq(Elements) /\ Len(elements) \in Nat /\ Len(elements) <= Capacity
      /\ returned \in (Threads \X Results) \cup {<<>>}
  BY DEF TypeOK
<1>d. ASSUME NEW t \in Threads, NEW c \in Calls(t), LeaveLoop(t, c), c.op = "wait_empty"
      PROVE  CallOK' /\ FailedOK' /\ UNCHANGED <<elements, returned>>
  <2>1. CallOK'
    BY <1>d, MayDo, CallTyped DEF LeaveLoop
  <2> QED BY <1>d, <2>1, CallOther DEF LeaveLoop, FailedOK, TypeOK
<1>1. ASSUME NEW t \in Threads, NEW c \in Calls(t), Enqueue(t, c), Observe PROVE TypeOK'
  <2>1. c.element \in Elements /\ elements' = Append(elements, c.element)
    BY <1>1, CallsAreCalls DEF Enqueue
  <2>2. elements' \in Seq(Elements) /\ Len(elements') = Len(elements) + 1
    BY <1>c, <2>1
  <2>3. Len(elements') <= Capacity
    BY <1>1, <1>c, <2>2, CapacityAssumption DEF Enqueue, IsFull
  <2>4. Return(t, None) /\ None \in Results
    BY <1>1 DEF Enqueue, Results
  <2> QED BY <1>1, <1>a, <1>b, <2>2, <2>3, <2>4
<1>2. ASSUME NEW t \in Threads, NEW c \in Calls(t), Dequeue(t, c), Observe PROVE TypeOK'
  <2>1. elements # <<>> /\ elements' = Tail(elements) /\ Return(t, Head(elements))
    BY <1>2 DEF Dequeue, IsEmpty
  <2>2. /\ elements' \in Seq(Elements) /\ Len(elements') = Len(elements) - 1
        /\ Head(elements) \in Results
    BY <1>c, <2>1 DEF Results
  <2>3. Len(elements') <= Capacity
    BY <1>c, <2>2, CapacityAssumption
  <2> QED BY <1>2, <1>a, <1>b, <2>1, <2>2, <2>3
<1>3. ASSUME NEW t \in Threads, NEW c \in Calls(t), Observe,
             EnqueueFails(t, c) \/ DequeueFails(t, c) \/ WaitEmptyFails(t, c)
      PROVE  TypeOK'
  <2>1. Fails(t, c)
    BY <1>3 DEF EnqueueFails, DequeueFails, WaitEmptyFails
  <2>2. CallOK' /\ UNCHANGED <<elements, returned>>
    BY <2>1, CallTyped, MayDo DEF Fails
  <2>3. FailedOK'
    BY <2>1, CallOther DEF Fails, FailedOK, TypeOK
  <2> QED BY <1>3, <1>a, <1>c, <2>2, <2>3
<1>4. ASSUME NEW t \in Threads, NEW c \in Calls(t), WaitEmptyLeavesLoop(t, c), Observe
      PROVE  TypeOK'
  BY <1>4, <1>a, <1>c, <1>d DEF WaitEmptyLeavesLoop
<1>5. ASSUME NEW t \in Threads, Clock(t), Observe PROVE TypeOK'
  <2>1. t \in failed /\ call[t] \in Calls(t)
    BY <1>5 DEF Clock, Spin, EnqueueGivesUp, DequeueGivesUp, WaitEmptyGivesUp, OutOfTime,
                TypeOK
  <2>2. CASE EnqueueGivesUp(t) \/ DequeueGivesUp(t)
    <3>1. PICK v \in Results : Return(t, v) /\ UNCHANGED elements
      BY <2>1, <2>2, CallsAreCalls
         DEF EnqueueGivesUp, DequeueGivesUp, OutOfTime, Results
    <3> QED BY <1>5, <1>a, <1>b, <1>c, <3>1
  <2>3. CASE WaitEmptyGivesUp(t)
    BY <1>5, <1>a, <1>c, <1>d, <2>1, <2>3 DEF WaitEmptyGivesUp, OutOfTime
  <2>4. CASE Spin(t)
    <3>1. CallOK' /\ FailedOK'
      BY <2>4 DEF Spin, TypeOK, CallOK, Doing, CallStates, FailedOK
    <3> QED BY <1>5, <1>a, <1>c, <2>4, <3>1 DEF Spin
  <2> QED BY <1>5, <2>2, <2>3, <2>4 DEF Clock
<1>6. ASSUME NEW t \in Threads, WaitEmptyReturns(t), Observe PROVE TypeOK'
  <2>1. IsEmpty \in Results
    BY DEF IsEmpty, Results
  <2> QED BY <1>6, <1>a, <1>b, <1>c, <2>1 DEF WaitEmptyReturns
<1>7. CASE UNCHANGED vars
  BY <1>7 DEF vars, TypeOK
<1> QED BY <1>1, <1>2, <1>3, <1>4, <1>5, <1>6, <1>7 DEF Next, Attempt

\* The state keeps its shape.
THEOREM TypeCorrect == Spec => []TypeOK
<1> QED BY InitTypeOK, NextTypeOK, PTL DEF Spec

-------------------------------------------------------------------------------
(* The queue implements BoundedQueue.                                      *)

\* Both modules speak of the same calls.
LEMMA SameCalls ==
    /\ Promise!Threads = Threads /\ Promise!Idle = Idle
    /\ \A t : Promise!Calls(t) = Calls(t)
BY DEF Promise!Threads, Threads, Promise!Idle, Idle, Promise!Calls, Calls

\* An attempt serves the call it is made for; one that fails is the invocation of a
\* call that has to wait, or nothing.
LEMMA AttemptRefines ==
    ASSUME TypeOK, NEW t \in Threads, NEW c \in Calls(t), Attempt(t, c)
    PROVE  [Promise!Step(t, c)]_(Promise!vars)
<1>1. Attempts(t, c) => Promise!Serving(t, c)
  BY SameCalls DEF Attempts, Promise!Serving
<1>2. Attempts(t, c) /\ Fails(t, c) => Promise!Invoke(t, c) \/ UNCHANGED Promise!vars
  BY SameCalls DEF Attempts, Fails, Promise!Invoke, TypeOK, Promise!vars
<1>3. \A v : Return(t, v) => Promise!Return(t, v)
  BY SameCalls DEF Return, Promise!Return
<1>4. ASSUME Enqueue(t, c) PROVE Promise!Enqueue(t, c)
  <2>1. Len(elements) < Capacity
    BY <1>4, CapacityAssumption DEF Enqueue, IsFull, TypeOK
  <2> QED BY <1>1, <1>3, <1>4, <2>1 DEF Enqueue, Promise!Enqueue
<1>5. Dequeue(t, c) => Promise!Dequeue(t, c)
  BY <1>1, <1>3 DEF Dequeue, IsEmpty, Promise!Dequeue
<1>6. EnqueueFails(t, c) \/ DequeueFails(t, c) \/ WaitEmptyFails(t, c)
        => Promise!Invoke(t, c) \/ UNCHANGED Promise!vars
  BY <1>2 DEF EnqueueFails, DequeueFails, WaitEmptyFails
<1>7. WaitEmptyLeavesLoop(t, c) => Promise!StopWaiting(t, c)
  BY <1>1 DEF WaitEmptyLeavesLoop, LeaveLoop, IsEmpty, Promise!StopWaiting
<1> QED BY <1>4, <1>5, <1>6, <1>7 DEF Attempt, Promise!Step

\* After a look at the clock the call gives up, or nothing has happened.
LEMMA ClockRefines ==
    ASSUME TypeOK, NEW t \in Threads, Clock(t)
    PROVE  call[t] \in Calls(t) /\ [Promise!Step(t, call[t])]_(Promise!vars)
<1>1. t \in failed /\ call[t] \in Calls(t)
  BY DEF Clock, Spin, EnqueueGivesUp, DequeueGivesUp, WaitEmptyGivesUp, OutOfTime, TypeOK
<1>2. call[t] # Idle
  BY <1>1, CallsAreCalls
<1>3. Promise!Serving(t, call[t])
  BY <1>2, SameCalls DEF Promise!Serving
<1>4. \A v : Return(t, v) => Promise!Return(t, v)
  BY SameCalls DEF Return, Promise!Return
<1>5. EnqueueGivesUp(t) \/ DequeueGivesUp(t) => Promise!GiveUp(t, call[t])
  BY <1>1, <1>3, <1>4, CallsAreCalls
     DEF EnqueueGivesUp, DequeueGivesUp, OutOfTime, Promise!GiveUp
<1>6. WaitEmptyGivesUp(t) => Promise!StopWaiting(t, call[t])
  BY <1>3 DEF WaitEmptyGivesUp, OutOfTime, LeaveLoop, Promise!StopWaiting
<1>7. Spin(t) => UNCHANGED Promise!vars
  BY DEF Spin, Promise!vars
<1> QED BY <1>1, <1>5, <1>6, <1>7 DEF Clock, Promise!Step

\* The polling queue is a bounded queue: every call takes effect in one step, in
\* FIFO order, and an enqueue or dequeue without a timeout returns only with success.
THEOREM Refinement == Spec => ImplementsBoundedQueue
<1>1. Init => Promise!Init
  BY SameCalls DEF Init, Promise!Init
<1>2. TypeOK /\ [Next]_vars => [Promise!Next]_(Promise!vars)
  <2> SUFFICES ASSUME TypeOK, [Next]_vars PROVE Promise!Next \/ UNCHANGED Promise!vars
    OBVIOUS
  <2>1. ASSUME NEW t \in Threads, NEW c \in Calls(t), Attempt(t, c)
        PROVE  Promise!Next \/ UNCHANGED Promise!vars
    BY <2>1, AttemptRefines, SameCalls DEF Promise!Next
  <2>2. ASSUME NEW t \in Threads, Clock(t)
        PROVE  Promise!Next \/ UNCHANGED Promise!vars
    BY <2>2, ClockRefines, SameCalls DEF Promise!Next
  <2>3. ASSUME NEW t \in Threads, WaitEmptyReturns(t) PROVE Promise!Recheck(t)
    BY <2>3, SameCalls DEF WaitEmptyReturns, Return, IsEmpty, Promise!Recheck,
                           Promise!Return
  <2>4. UNCHANGED vars => UNCHANGED Promise!vars
    BY DEF vars, Promise!vars
  <2> QED BY <2>1, <2>2, <2>3, <2>4, SameCalls DEF Next, Promise!Next
<1> QED BY <1>1, <1>2, TypeCorrect, PTL DEF Spec, ImplementsBoundedQueue, Promise!Spec

-------------------------------------------------------------------------------
(* What calls report.                                                      *)

\* What a call in progress has met when it may come to report it.
MetWhenNeeded ==
    \A t \in Threads :
        /\ call[t] # Idle /\ Meets(call[t], elements) => t \in met
        /\ t \in failed /\ call[t].op \in {"enqueue", "dequeue"} => t \in met
        /\ call[t].op = "recheck" /\ call[t].timeout = "max" => t \in met

\* Whoever was in a call and still is has met what it had met, and what is there now.
LEMMA StillMet ==
    ASSUME Observe, NEW t \in Threads, call'[t] # Idle,
           \/ t \in met
           \/ Meets(call'[t], elements)
           \/ Meets(call'[t], elements')
    PROVE  t \in met'
BY DEF Observe

LEMMA NextMetWhenNeeded ==
    TypeOK /\ MetWhenNeeded /\ [Next]_vars => MetWhenNeeded'
<1> SUFFICES ASSUME TypeOK, MetWhenNeeded, [Next]_vars PROVE MetWhenNeeded'
  OBVIOUS
<1>0. \A t \in Threads : call[t].op \in {"enqueue", "dequeue", "recheck"} => call[t] # Idle
  BY DEF Idle
<1>1. CASE UNCHANGED vars
  BY <1>1 DEF vars, MetWhenNeeded, Meets
<1>2. CASE Observe /\ \E t \in Threads : \/ \E c \in Calls(t) : Attempt(t, c)
                                         \/ Clock(t) \/ WaitEmptyReturns(t)
  <2>1. \A u \in Threads : call'[u] # Idle /\ Meets(call'[u], elements') => u \in met'
    BY <1>2, StillMet
  <2>2. ASSUME NEW t \in Threads, NEW c \in Calls(t), Fails(t, c),
               c.op = "enqueue" => IsFull, c.op = "dequeue" => IsEmpty
        PROVE  MetWhenNeeded'
    <3>1. call'[t] = c /\ \A u \in Threads \ {t} : call'[u] = call[u]
      BY <2>2, CallOther DEF Fails
    <3>2. c # Idle /\ (c.op # "wait_empty" => Meets(c, elements)) /\ c.op # "recheck"
      BY <2>2, CallsAreCalls DEF Meets, IsFull, IsEmpty
    <3>3. \A u \in Threads \ {t} : u \in met /\ call[u] # Idle => u \in met'
      BY <1>2, <3>1, StillMet
    <3>4. c.op # "wait_empty" => t \in met'
      BY <1>2, <3>1, <3>2, StillMet
    <3>5. \A u \in Threads \ {t} : u \in failed' <=> u \in failed
      BY <2>2 DEF Fails
    <3> QED BY <1>0, <2>1, <3>1, <3>2, <3>3, <3>4, <3>5 DEF MetWhenNeeded
  <2>3. ASSUME NEW t \in Threads, NEW state, call' = [call EXCEPT ![t] = state],
               failed' = failed \ {t},
               state.op = "recheck" /\ state.timeout = "max" /\ state # Idle => IsEmpty,
               state = Idle \/ state.op = "recheck"
        PROVE  MetWhenNeeded'
    <3>1. call'[t] = state /\ \A u \in Threads \ {t} : call'[u] = call[u]
      BY <2>3, CallOther
    <3>2. \A u \in Threads \ {t} : u \in met /\ call[u] # Idle => u \in met'
      BY <1>2, <3>1, StillMet
    <3>3. state.op = "recheck" /\ state.timeout = "max" => t \in met'
      <4>1. state.op = "recheck" => state # Idle
        BY DEF Idle
      <4> QED BY <1>2, <2>3, <3>1, <4>1, StillMet DEF Meets, IsEmpty
    <3>4. t \notin failed' /\ \A u \in Threads \ {t} : u \in failed' <=> u \in failed
      BY <2>3
    <3> QED BY <1>0, <2>1, <3>1, <3>2, <3>3, <3>4 DEF MetWhenNeeded
  <2>4. ASSUME NEW t \in Threads, NEW v, Return(t, v) PROVE MetWhenNeeded'
    <3>1. Idle.op # "recheck"
      BY DEF Idle
    <3> QED BY <2>3, <2>4, <3>1 DEF Return
  <2>5. ASSUME NEW t \in Threads, NEW c \in Calls(t), LeaveLoop(t, c),
               IsEmpty \/ c.timeout = "finite"
        PROVE  MetWhenNeeded'
    <3> DEFINE state == [c EXCEPT !.op = "recheck"]
    <3>1. c \in [op : {"enqueue", "dequeue", "wait_empty"},
                 element : Elements \cup {None}, timeout : {"max", "finite"}]
      BY CallsAreCalls
    <3>2. state.op = "recheck" /\ state.timeout = c.timeout
      BY <3>1
    <3>3. state.op = "recheck" /\ state.timeout = "max" /\ state # Idle => IsEmpty
      BY <2>5, <3>2
    <3>4. call' = [call EXCEPT ![t] = state] /\ failed' = failed \ {t}
      BY <2>5 DEF LeaveLoop
    <3> QED BY <2>3, <3>2, <3>3, <3>4
  <2>6. ASSUME NEW t \in Threads, NEW c \in Calls(t), Attempt(t, c) PROVE MetWhenNeeded'
    <3>1. CASE EnqueueFails(t, c) \/ DequeueFails(t, c) \/ WaitEmptyFails(t, c)
      <4>1. Fails(t, c) /\ (c.op = "enqueue" => IsFull) /\ (c.op = "dequeue" => IsEmpty)
        BY <3>1 DEF EnqueueFails, DequeueFails, WaitEmptyFails
      <4> QED BY <2>2, <4>1
    <3>2. CASE Enqueue(t, c) \/ Dequeue(t, c)
      BY <2>4, <3>2 DEF Enqueue, Dequeue
    <3>3. CASE WaitEmptyLeavesLoop(t, c)
      BY <2>5, <3>3 DEF WaitEmptyLeavesLoop
    <3> QED BY <2>6, <3>1, <3>2, <3>3 DEF Attempt
  <2>7. ASSUME NEW t \in Threads, Clock(t) PROVE MetWhenNeeded'
    <3>1. t \in failed /\ call[t] \in Calls(t)
      BY <2>7 DEF Clock, Spin, EnqueueGivesUp, DequeueGivesUp, WaitEmptyGivesUp, OutOfTime,
                  TypeOK
    <3>2. CASE EnqueueGivesUp(t) \/ DequeueGivesUp(t)
      BY <2>4, <3>2 DEF EnqueueGivesUp, DequeueGivesUp
    <3>3. CASE WaitEmptyGivesUp(t)
      BY <2>5, <3>1, <3>3 DEF WaitEmptyGivesUp, OutOfTime
    <3>4. CASE Spin(t)
      <4>1. UNCHANGED call /\ \A u \in Threads : u \in failed' => u \in failed
        BY <3>4 DEF Spin
      <4>2. \A u \in Threads : u \in met /\ call[u] # Idle => u \in met'
        BY <1>2, <4>1, StillMet
      <4> QED BY <1>0, <2>1, <4>1, <4>2 DEF MetWhenNeeded
    <3> QED BY <2>7, <3>2, <3>3, <3>4 DEF Clock
  <2> QED BY <1>2, <2>4, <2>6, <2>7 DEF WaitEmptyReturns
<1> QED BY <1>1, <1>2 DEF Next

\* Whatever else is going on between the steps of a call, what it reports has been so
\* while it was in progress: no thread is told of a full or an empty queue that there
\* has not been, whichever attempt, look at the clock or second look it stems from.
THEOREM AnswersWereTrueAlways == Spec => AnswersWereTrue
<1> DEFINE Answered ==
      \A t \in Threads :
         call[t] # Idle /\ call'[t] = Idle =>
           LET answer == returned'[2]
               told == \/ call[t].op = "enqueue" /\ answer # None
                       \/ call[t].op = "dequeue" /\ answer = None
                       \/ /\ call[t].op = "recheck"
                          /\ answer = TRUE \/ call[t].timeout = "max"
           IN told => t \in met
<1>1. Init => MetWhenNeeded
  BY DEF Init, MetWhenNeeded, Idle
<1>2. TypeOK /\ MetWhenNeeded /\ [Next]_vars => [Answered]_vars
  <2> SUFFICES ASSUME TypeOK, MetWhenNeeded, Next, NEW t \in Threads,
                      call[t] # Idle, call'[t] = Idle,
                      \/ call[t].op = "enqueue" /\ returned'[2] # None
                      \/ call[t].op = "dequeue" /\ returned'[2] = None
                      \/ call[t].op = "recheck" /\ (returned'[2] = TRUE \/ call[t].timeout = "max")
               PROVE  t \in met
    OBVIOUS
  <2>1. ASSUME NEW u \in Threads, NEW state, call' = [call EXCEPT ![u] = state],
               state # Idle \/ u # t
        PROVE  FALSE
    BY <2>1, CallOther
  <2>2. ~Spin(t) /\ \A u \in Threads : ~Spin(u)
    BY DEF Spin
  <2>3. ASSUME NEW u \in Threads, NEW c \in Calls(u),
               Fails(u, c) \/ LeaveLoop(u, c)
        PROVE  FALSE
    <3>1. [c EXCEPT !.op = "recheck"] # Idle /\ c # Idle
      <4>1. c \in [op : {"enqueue", "dequeue", "wait_empty"},
                   element : Elements \cup {None}, timeout : {"max", "finite"}]
        BY CallsAreCalls
      <4>2. [c EXCEPT !.op = "recheck"].op = "recheck"
        BY <4>1
      <4> QED BY <4>2, CallsAreCalls DEF Idle
    <3> QED BY <2>1, <2>3, <3>1 DEF Fails, LeaveLoop
  <2>4. ASSUME NEW u \in Threads, NEW v, Return(u, v) PROVE u = t /\ returned'[2] = v
    BY <2>1, <2>4 DEF Return
  <2>5. ASSUME NEW u \in Threads, NEW c \in Calls(u), Attempt(u, c) PROVE FALSE
    <3>1. CASE Enqueue(u, c)
      <4>1. u = t /\ returned'[2] = None /\ call[t] = c /\ c.op = "enqueue"
        BY <2>4, <3>1 DEF Enqueue, Attempts
      <4> QED BY <4>1
    <3>2. CASE Dequeue(u, c)
      <4>1. u = t /\ returned'[2] = Head(elements) /\ call[t] = c /\ c.op = "dequeue"
        BY <2>4, <3>2 DEF Dequeue, Attempts
      <4>2. Head(elements) \in Elements
        BY <3>2 DEF Dequeue, IsEmpty, TypeOK
      <4> QED BY <4>1, <4>2, CallsAssumption
    <3>3. CASE ~Enqueue(u, c) /\ ~Dequeue(u, c)
      BY <2>3, <2>5, <3>3 DEF Attempt, EnqueueFails, DequeueFails, WaitEmptyFails,
                              WaitEmptyLeavesLoop
    <3> QED BY <3>1, <3>2, <3>3
  <2>6. ASSUME NEW u \in Threads, Clock(u) PROVE t \in met
    <3>1. u \in failed /\ call[u] \in Calls(u)
      BY <2>2, <2>6 DEF Clock, EnqueueGivesUp, DequeueGivesUp, WaitEmptyGivesUp, OutOfTime,
                  TypeOK
    <3>2. ~WaitEmptyGivesUp(u)
      BY <2>3, <3>1 DEF WaitEmptyGivesUp
    <3>3. u = t /\ call[u].op \in {"enqueue", "dequeue"}
      BY <2>2, <2>4, <2>6, <3>2 DEF Clock, EnqueueGivesUp, DequeueGivesUp, OutOfTime
    <3> QED BY <3>1, <3>3 DEF MetWhenNeeded
  <2>7. ASSUME NEW u \in Threads, WaitEmptyReturns(u) PROVE t \in met
    <3>1. u = t /\ call[t].op = "recheck" /\ returned'[2] = IsEmpty
      BY <2>4, <2>7 DEF WaitEmptyReturns
    <3>2. IsEmpty => Meets(call[t], elements)
      BY <3>1 DEF Meets, IsEmpty
    <3> QED BY <3>1, <3>2 DEF MetWhenNeeded
  <2> QED BY <2>5, <2>6, <2>7 DEF Next
<1> QED BY <1>1, <1>2, InitTypeOK, NextTypeOK, NextMetWhenNeeded, PTL
        DEF Spec, AnswersWereTrue
===============================================================================
