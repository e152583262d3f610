-------------------------- MODULE BlockingQueueProofs -------------------------
(***************************************************************************)
(* Theorems about BlockingQueue, for every number of threads and elements  *)
(* and every capacity.                                                     *)
(***************************************************************************)
EXTENDS BlockingQueue, FiniteSetTheorems, TLAPS

-------------------------------------------------------------------------------
(* What the steps are made of.                                             *)

\* Whatever notify_one does, it only removes threads from the condition variable.
LEMMA NotifyShrinks ==
    ASSUME NEW cv, NEW cv2 \in NotifyOne(cv) \cup NotifyAll(cv)
    PROVE  cv2 \subseteq cv
BY DEF NotifyOne, NotifyAll

\* A call is not Idle, and says which thread may make it.
LEMMA CallsAreCalls ==
    ASSUME NEW t, NEW c \in Calls(t)
    PROVE  /\ c # Idle
           /\ c \in [op : {"enqueue", "dequeue", "wait_empty"},
                     element : Elements \cup {None}, timeout : {"max", "finite"}]
           /\ c.op = "enqueue" => c.element \in Elements
           /\ c.op # "enqueue" => c.element = None
<1>1. c \in [op : {"enqueue", "dequeue", "wait_empty"},
            element : Elements \cup {None}, timeout : Timeouts]
  BY DEF Calls
<1>2. c.op # Idle.op
  BY <1>1 DEF Idle
<1> QED BY <1>1, <1>2, CallsAssumption DEF Calls

-------------------------------------------------------------------------------
(* What pushing and popping do to the queue and its flags.                 *)

\* The effect of the successful end of try_enqueue.
LEMMA PushBackEffect ==
    ASSUME TypeOK, NEW t, NEW e \in Elements, PushBack(t, e)
    PROVE  /\ elements' = Append(elements, e)
           /\ elements' \in Seq(Elements)
           /\ Len(elements') = Len(elements) + 1
           /\ flags' \in [empty : BOOLEAN, full : BOOLEAN]
           /\ ~flags'.empty
           /\ flags'.full <=> (flags.full \/ Len(elements') = Capacity)
           /\ emptyCv' \in NotifyOne(emptyCv)
           /\ fullCv' = IF Len(elements') = Capacity THEN {} ELSE fullCv
           /\ Return(t, None)
<1>1. elements \in Seq(Elements) /\ flags \in [empty : BOOLEAN, full : BOOLEAN]
  BY DEF TypeOK
<1>2. /\ elements' = Append(elements, e) /\ emptyCv' \in NotifyOne(emptyCv)
      /\ Return(t, None)
  BY DEF PushBack
<1>3. elements' \in Seq(Elements) /\ Len(elements') = Len(elements) + 1
  BY <1>1, <1>2
<1>4. CASE Len(elements') = Capacity
  <2>1. flags' = [empty |-> FALSE, full |-> TRUE] /\ fullCv' = {}
    BY <1>4 DEF PushBack, NotifyAll
  <2> QED BY <1>2, <1>3, <1>4, <2>1
<1>5. CASE Len(elements') # Capacity
  <2>1. flags' = [flags EXCEPT !.empty = FALSE] /\ fullCv' = fullCv
    BY <1>5 DEF PushBack
  <2> QED BY <1>1, <1>2, <1>3, <1>5, <2>1
<1> QED BY <1>4, <1>5

\* The effect of the successful end of try_dequeue.
LEMMA PopFrontEffect ==
    ASSUME TypeOK, NEW t, PopFront(t)
    PROVE  /\ elements' = IF elements = <<>> THEN <<>> ELSE Tail(elements)
           /\ elements' \in Seq(Elements)
           /\ elements # <<>> => Len(elements') = Len(elements) - 1
           /\ flags' \in [empty : BOOLEAN, full : BOOLEAN]
           /\ ~flags'.full
           /\ flags'.empty <=> (flags.empty \/ elements' = <<>>)
           /\ fullCv' \in NotifyOne(fullCv)
           /\ emptyCv' = IF elements' = <<>> THEN {} ELSE emptyCv
           /\ Return(t, IF elements = <<>> THEN None ELSE Head(elements))
<1>1. elements \in Seq(Elements) /\ flags \in [empty : BOOLEAN, full : BOOLEAN]
  BY DEF TypeOK
<1>2. /\ elements' = IF elements = <<>> THEN <<>> ELSE Tail(elements)
      /\ fullCv' \in NotifyOne(fullCv)
      /\ Return(t, IF elements = <<>> THEN None ELSE Head(elements))
  BY DEF PopFront
<1>3. /\ elements' \in Seq(Elements)
      /\ elements # <<>> => Len(elements') = Len(elements) - 1
  BY <1>1, <1>2
<1>4. CASE elements' = <<>>
  <2>1. flags' = [empty |-> TRUE, full |-> FALSE] /\ emptyCv' = {}
    BY <1>4 DEF PopFront, NotifyAll
  <2> QED BY <1>2, <1>3, <1>4, <2>1
<1>5. CASE elements' # <<>>
  <2>1. flags' = [flags EXCEPT !.full = FALSE] /\ emptyCv' = emptyCv
    BY <1>5 DEF PopFront
  <2> QED BY <1>1, <1>2, <1>3, <1>5, <2>1
<1> QED BY <1>4, <1>5

-------------------------------------------------------------------------------
(* Type correctness.                                                       *)

\* The initial state has the right type.
LEMMA InitTypeOK == Init => TypeOK
BY CallsAssumption DEF Init, TypeOK, Idle, Awake

\* A thread at the head of its loop, or out of time, is not asleep.
LEMMA RunnersAreAwake ==
    ASSUME TypeOK, NEW t \in Threads, NEW c \in Calls(t), AtLoop(t, c) \/ OutOfTime(t)
    PROVE  t \notin emptyCv \cup fullCv
BY DEF TypeOK, AtLoop, OutOfTime, Awake, Idle

\* A call that returns leaves the state well typed.
LEMMA ReturnTypeOK ==
    ASSUME TypeOK, NEW t \in Threads, NEW v \in Results, Return(t, v),
           t \notin emptyCv \cup fullCv,
           emptyCv' \subseteq emptyCv, fullCv' \subseteq fullCv,
           elements' \in Seq(Elements),
           flags' \in [empty : BOOLEAN, full : BOOLEAN]
    PROVE  TypeOK'
<1>1. /\ call' = [call EXCEPT ![t] = Idle]
      /\ returned' = <<t, v>>
      /\ timedOut' = timedOut \ {t}
  BY DEF Return
<1>2. Idle \in [op : {"idle", "enqueue", "dequeue", "wait_empty"},
                element : Elements \cup {None}, timeout : {"max", "finite"}]
  BY DEF Idle
<1>3. /\ call' \in [Threads -> [op : {"idle", "enqueue", "dequeue", "wait_empty"},
                                element : Elements \cup {None},
                                timeout : {"max", "finite"}]]
      /\ \A u \in Threads : call'[u] \in Calls(u) \cup {Idle}
      /\ \A u \in Threads \ {t} : call'[u] = call[u]
  BY <1>1, <1>2 DEF TypeOK
<1>4. returned' \in (Threads \X Results) \cup {<<>>}
  BY <1>1
<1>5. emptyCv' \subseteq {u \in Threads : call'[u].op \in {"dequeue", "wait_empty"}}
  BY <1>3 DEF TypeOK
<1>6. fullCv' \subseteq {u \in Threads : call'[u].op = "enqueue"}
  BY <1>3 DEF TypeOK
<1>7. timedOut' \subseteq {u \in Threads : Awake(u)' /\ call'[u].timeout = "finite"}
  BY <1>1, <1>3 DEF TypeOK, Awake
<1> QED BY <1>3, <1>4, <1>5, <1>6, <1>7 DEF TypeOK

\* A call that blocks leaves the state well typed.
LEMMA BlockTypeOK ==
    ASSUME TypeOK, NEW t \in Threads, NEW c \in Calls(t), AtLoop(t, c),
           \/ c.op = "enqueue" /\ BlockOnFull(t, c)
           \/ c.op \in {"dequeue", "wait_empty"} /\ BlockOnEmpty(t, c)
    PROVE  TypeOK'
<1>1. /\ call' = [call EXCEPT ![t] = c]
      /\ UNCHANGED <<elements, flags, returned, timedOut>>
      /\ emptyCv' \cup fullCv' = emptyCv \cup fullCv \cup {t}
  BY DEF BlockOnFull, BlockOnEmpty
<1>2. c \in [op : {"idle", "enqueue", "dequeue", "wait_empty"},
             element : Elements \cup {None}, timeout : {"max", "finite"}]
  BY CallsAreCalls
<1>3. /\ call' \in [Threads -> [op : {"idle", "enqueue", "dequeue", "wait_empty"},
                                element : Elements \cup {None},
                                timeout : {"max", "finite"}]]
      /\ \A u \in Threads : call'[u] \in Calls(u) \cup {Idle}
      /\ \A u \in Threads \ {t} : call'[u] = call[u]
      /\ call'[t] = c
  BY <1>1, <1>2 DEF TypeOK
<1>4. t \notin timedOut
  BY DEF AtLoop, TypeOK, Awake
<1>5. emptyCv' \subseteq {u \in Threads : call'[u].op \in {"dequeue", "wait_empty"}}
  BY <1>3, RunnersAreAwake DEF TypeOK, BlockOnFull, BlockOnEmpty
<1>6. fullCv' \subseteq {u \in Threads : call'[u].op = "enqueue"}
  BY <1>3, RunnersAreAwake DEF TypeOK, BlockOnFull, BlockOnEmpty
<1>7. timedOut' \subseteq {u \in Threads : Awake(u)' /\ call'[u].timeout = "finite"}
  BY <1>1, <1>3, <1>4 DEF TypeOK, Awake
<1> QED BY <1>1, <1>3, <1>5, <1>6, <1>7 DEF TypeOK

\* Every step, of every thread, preserves the type invariant.
LEMMA NextTypeOK == TypeOK /\ [Next]_vars => TypeOK'
<1> SUFFICES ASSUME TypeOK, [Next]_vars PROVE TypeOK'
  OBVIOUS
<1>1. ASSUME NEW t \in Threads, NEW c \in Calls(t), Enqueue(t, c) PROVE TypeOK'
  <2>1. AtLoop(t, c) /\ c.element \in Elements /\ PushBack(t, c.element)
    BY <1>1, CallsAreCalls DEF Enqueue
  <2>2. emptyCv' \subseteq emptyCv /\ fullCv' \subseteq fullCv
    BY <2>1, PushBackEffect, NotifyShrinks
  <2> QED BY <2>1, <2>2, PushBackEffect, RunnersAreAwake, ReturnTypeOK DEF Results
<1>2. ASSUME NEW t \in Threads, NEW c \in Calls(t), Dequeue(t, c) PROVE TypeOK'
  <2>1. AtLoop(t, c) /\ PopFront(t)
    BY <1>2 DEF Dequeue
  <2>2. emptyCv' \subseteq emptyCv /\ fullCv' \subseteq fullCv
    BY <2>1, PopFrontEffect, NotifyShrinks
  <2>3. (IF elements = <<>> THEN None ELSE Head(elements)) \in Results
    BY DEF TypeOK, Results
  <2> QED BY <2>1, <2>2, <2>3, PopFrontEffect, RunnersAreAwake, ReturnTypeOK
<1>3. ASSUME NEW t \in Threads, NEW c \in Calls(t), WaitEmpty(t, c) PROVE TypeOK'
  BY <1>3, RunnersAreAwake, ReturnTypeOK DEF WaitEmpty, TypeOK, Results
<1>4. ASSUME NEW t \in Threads, NEW c \in Calls(t),
             EnqueueBlocks(t, c) \/ DequeueBlocks(t, c) \/ WaitEmptyBlocks(t, c)
      PROVE  TypeOK'
  BY <1>4, BlockTypeOK DEF EnqueueBlocks, DequeueBlocks, WaitEmptyBlocks
<1>5. ASSUME NEW t \in Threads, GiveUp(t) PROVE TypeOK'
  <2>1. /\ t \notin emptyCv \cup fullCv
        /\ UNCHANGED <<elements, flags, emptyCv, fullCv>>
    BY <1>5 DEF GiveUp, EnqueueGivesUp, DequeueGivesUp, WaitEmptyGivesUp,
                OutOfTime, Awake
  <2>2. PICK v \in Results : Return(t, v)
    BY <1>5 DEF GiveUp, EnqueueGivesUp, DequeueGivesUp, WaitEmptyGivesUp,
                Results, TypeOK
  <2> QED BY <2>1, <2>2, ReturnTypeOK DEF TypeOK
<1>6. ASSUME NEW t \in Threads, WaitTimesOut(t) PROVE TypeOK'
  BY <1>6 DEF WaitTimesOut, TypeOK, Awake, Idle
<1>7. ASSUME NEW t \in Threads, SpuriousWakeup(t) PROVE TypeOK'
  BY <1>7 DEF SpuriousWakeup, TypeOK, Awake, Idle
<1>8. CASE UNCHANGED vars
  BY <1>8 DEF vars, TypeOK, Awake
<1> QED BY <1>1, <1>2, <1>3, <1>4, <1>5, <1>6, <1>7, <1>8 DEF Next, Run

\* The state keeps its shape: who can be blocked where, and that a thread that
\* has timed out is awake inside a call that can time out.
THEOREM TypeCorrect == Spec => []TypeOK
<1> QED BY InitTypeOK, NextTypeOK, PTL DEF Spec
-------------------------------------------------------------------------------
(* The flags and the deque.                                                *)

\* What Capacity > 0 buys: FlagsAgree and Bounded hold together with TypeOK.
Summarised == TypeOK /\ FlagsAgree /\ Bounded

\* The initial queue is empty and not full.
LEMMA InitSummarised == Capacity > 0 /\ Init => Summarised
BY InitTypeOK, CapacityAssumption DEF Init, Summarised, FlagsAgree, Bounded

\* A push that finds `full` unset, and a pop that finds `empty` unset, keep the
\* flags right; no other step touches either the flags or the deque.
LEMMA NextSummarised ==
    Capacity > 0 /\ Summarised /\ [Next]_vars => Summarised'
<1> SUFFICES ASSUME Capacity > 0, Summarised, [Next]_vars
             PROVE  FlagsAgree' /\ Bounded'
  BY NextTypeOK DEF Summarised
<1>0. TypeOK /\ FlagsAgree /\ Bounded /\ elements \in Seq(Elements)
  BY DEF Summarised, TypeOK
<1>1. ASSUME NEW t \in Threads, NEW c \in Calls(t), Enqueue(t, c)
      PROVE  FlagsAgree' /\ Bounded'
  <2>1. c.element \in Elements /\ PushBack(t, c.element) /\ ~flags.full
    BY <1>1, CallsAreCalls DEF Enqueue
  <2>2. Len(elements) < Capacity
    BY <1>0, <2>1, CapacityAssumption DEF FlagsAgree, Bounded
  <2>3. /\ Len(elements') = Len(elements) + 1
        /\ ~flags'.empty
        /\ flags'.full <=> Len(elements') = Capacity
    BY <1>0, <2>1, PushBackEffect
  <2> QED BY <1>0, <2>2, <2>3, CapacityAssumption DEF FlagsAgree, Bounded
<1>2. ASSUME NEW t \in Threads, NEW c \in Calls(t), Dequeue(t, c)
      PROVE  FlagsAgree' /\ Bounded'
  <2>1. PopFront(t) /\ elements # <<>>
    BY <1>0, <1>2 DEF Dequeue, FlagsAgree
  <2>2. /\ Len(elements') = Len(elements) - 1
        /\ elements' \in Seq(Elements)
        /\ ~flags'.full
        /\ flags'.empty <=> elements' = <<>>
    BY <1>0, <1>2, <2>1, PopFrontEffect DEF Dequeue
  <2> QED BY <1>0, <2>2, CapacityAssumption DEF FlagsAgree, Bounded
<1>3. CASE UNCHANGED <<elements, flags>>
  BY <1>0, <1>3 DEF FlagsAgree, Bounded
<1> QED BY <1>1, <1>2, <1>3
        DEF Next, Run, EnqueueBlocks, DequeueBlocks, WaitEmptyBlocks, WaitEmpty,
            GiveUp, EnqueueGivesUp, DequeueGivesUp, WaitEmptyGivesUp,
            WaitTimesOut, SpuriousWakeup, BlockOnEmpty, BlockOnFull, vars

LEMMA AlwaysSummarised ==
    ASSUME Capacity > 0 PROVE Spec => []Summarised
<1>1. Init => Summarised
  BY InitSummarised
<1>2. Summarised /\ [Next]_vars => Summarised'
  BY NextSummarised
<1> QED BY <1>1, <1>2, PTL DEF Spec

\* The flags, which every decision to block is made on, agree with the deque in
\* every state, for every queue with a capacity other than 0.
THEOREM FlagsAgreeAlways ==
    ASSUME Capacity > 0 PROVE Spec => []FlagsAgree
<1>1. Summarised => FlagsAgree
  BY DEF Summarised
<1> QED BY <1>1, AlwaysSummarised, PTL

\* Such a queue never holds more elements than its capacity.
THEOREM BoundedAlways ==
    ASSUME Capacity > 0 PROVE Spec => []Bounded
<1>1. Summarised => Bounded
  BY DEF Summarised
<1> QED BY <1>1, AlwaysSummarised, PTL

-------------------------------------------------------------------------------
(* wait_empty callers.                                                     *)

LEMMA NextWatchersAlerted ==
    Summarised /\ WatchersAlerted /\ [Next]_vars => WatchersAlerted'
<1> SUFFICES ASSUME Summarised, WatchersAlerted, [Next]_vars
             PROVE  WatchersAlerted'
  OBVIOUS
<1>0. TypeOK /\ FlagsAgree
  BY DEF Summarised
<1>1. ASSUME NEW t \in Threads, NEW c \in Calls(t), Enqueue(t, c)
      PROVE  WatchersAlerted'
  <2>1. c.element \in Elements /\ PushBack(t, c.element)
    BY <1>1, CallsAreCalls DEF Enqueue
  <2>2. Len(elements') = Len(elements) + 1 /\ elements \in Seq(Elements)
    BY <1>0, <2>1, PushBackEffect DEF TypeOK
  <2> QED BY <2>2 DEF WatchersAlerted
<1>2. ASSUME NEW t \in Threads, NEW c \in Calls(t), Dequeue(t, c)
      PROVE  WatchersAlerted'
  BY <1>0, <1>2, PopFrontEffect DEF Dequeue, WatchersAlerted
<1>3. ASSUME NEW t \in Threads, NEW c \in Calls(t), BlockOnEmpty(t, c),
             AtLoop(t, c), c.op = "dequeue" \/ ~flags.empty
      PROVE  WatchersAlerted'
  <2>1. CASE elements = <<>>
    <3>1. c.op = "dequeue" /\ call' = [call EXCEPT ![t] = c]
          /\ emptyCv' = emptyCv \cup {t}
      BY <1>0, <1>3, <2>1 DEF FlagsAgree, BlockOnEmpty
    <3> QED BY <1>0, <2>1, <3>1 DEF WatchersAlerted, TypeOK
  <2>2. CASE elements # <<>>
    BY <1>3, <2>2 DEF WatchersAlerted, BlockOnEmpty
  <2> QED BY <2>1, <2>2
<1>4. ASSUME NEW t \in Threads, NEW c \in Calls(t), EnqueueBlocks(t, c)
      PROVE  WatchersAlerted'
  BY <1>0, <1>4, RunnersAreAwake
     DEF EnqueueBlocks, BlockOnFull, WatchersAlerted, TypeOK
<1>5. ASSUME NEW t \in Threads, NEW v, Return(t, v), t \notin emptyCv,
             UNCHANGED <<elements, flags, emptyCv, fullCv>>
      PROVE  WatchersAlerted'
  BY <1>0, <1>5 DEF Return, WatchersAlerted, TypeOK
<1>6. ASSUME NEW t \in Threads, GiveUp(t) PROVE WatchersAlerted'
  BY <1>5, <1>6 DEF GiveUp, EnqueueGivesUp, DequeueGivesUp, WaitEmptyGivesUp,
                    OutOfTime, Awake
<1>7. ASSUME NEW t \in Threads, NEW c \in Calls(t), WaitEmpty(t, c)
      PROVE  WatchersAlerted'
  BY <1>0, <1>5, <1>7, RunnersAreAwake DEF WaitEmpty
<1>8. CASE emptyCv' \subseteq emptyCv /\ UNCHANGED <<elements, call>>
  BY <1>8 DEF WatchersAlerted
<1> QED BY <1>1, <1>2, <1>3, <1>4, <1>6, <1>7, <1>8
        DEF Next, Run, DequeueBlocks, WaitEmptyBlocks, WaitTimesOut,
            SpuriousWakeup, vars

\* No wait_empty caller sleeps over a moment in which the queue is empty, although
\* consumers sleep in the same condition variable.
THEOREM WatchersAlertedAlways ==
    ASSUME Capacity > 0 PROVE Spec => []WatchersAlerted
<1>1. Init => WatchersAlerted
  BY DEF Init, WatchersAlerted
<1> QED BY <1>1, AlwaysSummarised, NextWatchersAlerted, PTL DEF Spec
-------------------------------------------------------------------------------
(* BlockingQueue implements BoundedQueue.                                  *)

\* Both modules mean the same by a thread, a call and being idle.
LEMMA SameCalls ==
    /\ Promise!Threads = Threads
    /\ Promise!Idle = Idle
    /\ \A t : Promise!Calls(t) = Calls(t)
BY DEF Promise!Threads, Threads, Promise!Idle, Idle, Promise!Calls, Calls

\* A call that starts here, or goes on here, is being served there.
LEMMA AtLoopServing ==
    ASSUME TypeOK, NEW t \in Threads, NEW c \in Calls(t), AtLoop(t, c)
    PROVE  Promise!Serving(t, c)
BY SameCalls, CallsAreCalls DEF AtLoop, Awake, Promise!Serving

LEMMA InitRefines == Init => Promise!Init
BY SameCalls DEF Init, Promise!Init

\* A section that succeeds is the step of the promise; blocking invokes the call
\* if it is not in progress yet; being woken is invisible.
LEMMA NextRefines ==
    Summarised /\ [Next]_vars => [Promise!Next]_(Promise!vars)
<1> SUFFICES ASSUME Summarised, [Next]_vars
             PROVE  Promise!Next \/ UNCHANGED <<elements, call, returned>>
  BY DEF Promise!vars
<1>0. TypeOK /\ FlagsAgree /\ Bounded /\ elements \in Seq(Elements)
  BY DEF Summarised, TypeOK
<1>a. ASSUME NEW t \in Threads, NEW c \in Calls(t), Promise!Step(t, c)
      PROVE  Promise!Next
  BY <1>a, SameCalls DEF Promise!Next
<1>b. ASSUME NEW t, NEW v, Return(t, v) PROVE Promise!Return(t, v)
  BY <1>b, SameCalls DEF Return, Promise!Return
<1>1. ASSUME NEW t \in Threads, NEW c \in Calls(t), Enqueue(t, c)
      PROVE  Promise!Step(t, c)
  <2>1. /\ AtLoop(t, c) /\ c.op = "enqueue" /\ ~flags.full
        /\ c.element \in Elements /\ PushBack(t, c.element)
    BY <1>1, CallsAreCalls DEF Enqueue
  <2>2. Len(elements) < Capacity
    BY <1>0, <2>1, CapacityAssumption DEF FlagsAgree, Bounded
  <2>3. elements' = Append(elements, c.element) /\ Return(t, None)
    BY <1>0, <2>1, PushBackEffect
  <2>4. Promise!Enqueue(t, c)
    BY <1>0, <1>b, <2>1, <2>2, <2>3, AtLoopServing DEF Promise!Enqueue
  <2> QED BY <2>4 DEF Promise!Step
<1>2. ASSUME NEW t \in Threads, NEW c \in Calls(t), Dequeue(t, c)
      PROVE  Promise!Step(t, c)
  <2>1. AtLoop(t, c) /\ c.op = "dequeue" /\ PopFront(t) /\ elements # <<>>
    BY <1>0, <1>2 DEF Dequeue, FlagsAgree
  <2>2. elements' = Tail(elements) /\ Return(t, Head(elements))
    BY <1>0, <2>1, PopFrontEffect
  <2>3. Promise!Dequeue(t, c)
    BY <1>0, <1>b, <2>1, <2>2, AtLoopServing DEF Promise!Dequeue
  <2> QED BY <2>3 DEF Promise!Step
<1>3. ASSUME NEW t \in Threads, NEW c \in Calls(t), WaitEmpty(t, c)
      PROVE  Promise!Step(t, c)
  <2>1. /\ AtLoop(t, c) /\ c.op = "wait_empty" /\ elements = <<>>
        /\ UNCHANGED elements
    BY <1>0, <1>3 DEF WaitEmpty, FlagsAgree
  <2>2. flags.empty = TRUE
    BY <1>0, <1>3 DEF WaitEmpty, TypeOK
  <2>3. Return(t, TRUE)
    BY <1>3, <2>2 DEF WaitEmpty
  <2>4. Promise!WaitEmpty(t, c)
    BY <1>0, <1>b, <2>1, <2>3, AtLoopServing DEF Promise!WaitEmpty
  <2> QED BY <2>4 DEF Promise!Step
<1>4. ASSUME NEW t \in Threads, NEW c \in Calls(t), AtLoop(t, c),
             BlockOnFull(t, c) \/ BlockOnEmpty(t, c)
      PROVE  Promise!Next \/ UNCHANGED <<elements, call, returned>>
  <2>1. call' = [call EXCEPT ![t] = c] /\ UNCHANGED <<elements, returned>>
    BY <1>4 DEF BlockOnFull, BlockOnEmpty
  <2>2. CASE call[t] = Idle
    <3>1. Promise!Step(t, c)
      BY <2>1, <2>2, SameCalls DEF Promise!Step, Promise!Invoke
    <3> QED BY <1>a, <3>1
  <2>3. CASE call[t] = c
    BY <1>0, <2>1, <2>3 DEF TypeOK
  <2> QED BY <1>4, <2>2, <2>3 DEF AtLoop
<1>5. ASSUME NEW t \in Threads, GiveUp(t) PROVE Promise!Step(t, call[t])
  <2>1. /\ call[t] \in Calls(t) /\ call[t] # Idle
        /\ call[t].timeout = "finite" /\ UNCHANGED elements
    BY <1>0, <1>5 DEF GiveUp, EnqueueGivesUp, DequeueGivesUp, WaitEmptyGivesUp,
                      OutOfTime, Awake, TypeOK
  <2>2. Promise!Serving(t, call[t])
    BY <2>1, SameCalls DEF Promise!Serving
  <2>3. CASE WaitEmptyGivesUp(t)
    <3>1. flags.empty = (elements = <<>>)
      BY <1>0 DEF FlagsAgree, TypeOK
    <3>2. Return(t, elements = <<>>) /\ call[t].op = "wait_empty"
      BY <2>3, <3>1 DEF WaitEmptyGivesUp
    <3> QED BY <1>b, <2>1, <2>2, <3>2 DEF Promise!Step, Promise!GiveUp
  <2>4. CASE EnqueueGivesUp(t) \/ DequeueGivesUp(t)
    <3>1. Return(t, call[t].element) /\ call[t].op \in {"enqueue", "dequeue"}
      BY <2>1, <2>4, CallsAreCalls DEF EnqueueGivesUp, DequeueGivesUp
    <3> QED BY <1>b, <2>1, <2>2, <3>1 DEF Promise!Step, Promise!GiveUp
  <2> QED BY <1>5, <2>3, <2>4 DEF GiveUp
<1>6. ASSUME NEW t \in Threads, GiveUp(t) PROVE Promise!Next
  <2>1. call[t] \in Calls(t)
    BY <1>0, <1>6 DEF GiveUp, EnqueueGivesUp, DequeueGivesUp, WaitEmptyGivesUp,
                      OutOfTime, Awake, TypeOK
  <2> QED BY <1>5, <1>6, <1>a, <2>1
<1>7. CASE UNCHANGED <<elements, call, returned>>
  BY <1>7
<1> QED BY <1>1, <1>2, <1>3, <1>4, <1>6, <1>7, <1>a
        DEF Next, Run, EnqueueBlocks, DequeueBlocks, WaitEmptyBlocks,
            WaitTimesOut, SpuriousWakeup, vars

\* The queue of condition variables is a bounded queue: every call takes effect in
\* one step, in FIFO order, and one without a timeout returns only with success.
THEOREM Refinement ==
    ASSUME Capacity > 0 PROVE Spec => ImplementsBoundedQueue
<1> QED BY InitRefines, AlwaysSummarised, NextRefines, PTL
        DEF Spec, ImplementsBoundedQueue, Promise!Spec
===============================================================================
