---------------------------- MODULE PoolQueueProofs ----------------------------
(***************************************************************************)
(* Theorems about the queue of a ThreadPool, for every number of workers,  *)
(* clients and owners and every capacity above 0.                          *)
(***************************************************************************)
EXTENDS PoolQueue, BlockingQueueProofs

-------------------------------------------------------------------------------
(* No wakeup is lost among calls without a timeout.                        *)

\* No call has a timeout, and there are finitely many threads.
Untimed == /\ Timeouts = {"max"}
           /\ IsFiniteSet(Producers) /\ IsFiniteSet(Consumers) /\ IsFiniteSet(Watchers)

\* shutdown has the pool to itself.
Apart == InCall("enqueue") => ~InCall("wait_empty")

\* A dequeue sleeps.
Asleep == \E t \in emptyCv : call[t].op = "dequeue"

\* Whoever sleeps, as many are awake as there is work for.
Covered == Summarised /\ Apart /\ DequeuersCovered /\ ProducersCovered

\* All but one of A are in B.
LEMMA OneFewer ==
    ASSUME NEW A, NEW B, IsFiniteSet(A), IsFiniteSet(B), NEW x, A \ {x} \subseteq B
    PROVE  Cardinality(A) - 1 <= Cardinality(B)
<1>1. Cardinality(A \ {x}) \in {Cardinality(A) - 1, Cardinality(A)}
  BY FS_RemoveElement
<1>2. Cardinality(A \ {x}) <= Cardinality(B)
  BY FS_Subset
<1> QED BY <1>1, <1>2, FS_CardinalityType

\* All of A and one more are in B.
LEMMA OneMore ==
    ASSUME NEW A, NEW B, IsFiniteSet(A), IsFiniteSet(B),
           NEW x \in B, x \notin A, A \subseteq B
    PROVE  Cardinality(A) + 1 <= Cardinality(B)
<1>1. Cardinality(A \cup {x}) = Cardinality(A) + 1
  BY FS_AddElement
<1>2. A \cup {x} \in SUBSET B
  OBVIOUS
<1> QED BY <1>1, <1>2, FS_Subset, FS_CardinalityType

\* Woken is a set of threads, of which there are finitely many.
LEMMA WokenFinite ==
    ASSUME Untimed, NEW op
    PROVE  /\ IsFiniteSet(Woken(op)) /\ IsFiniteSet(Woken(op)')
           /\ Cardinality(Woken(op)) \in Nat /\ Cardinality(Woken(op)') \in Nat
<1>1. IsFiniteSet(Threads)
  BY FS_Union DEF Untimed, Threads
<1>2. Woken(op) \in SUBSET Threads /\ Woken(op)' \in SUBSET Threads
  BY DEF Woken
<1> QED BY <1>1, <1>2, FS_Subset, FS_CardinalityType

\* Nobody gives up.
LEMMA NobodyGivesUp ==
    ASSUME Untimed, TypeOK, NEW t \in Threads
    PROVE  ~GiveUp(t)
<1>1. \A c \in Calls(t) : c.timeout = "max"
  BY DEF Calls, Untimed
<1>2. call[t].timeout = "max"
  BY <1>1 DEF TypeOK, Idle
<1> QED BY <1>2 DEF GiveUp, EnqueueGivesUp, DequeueGivesUp, WaitEmptyGivesUp, OutOfTime

\* A pool's queue is used as any BlockingQueue is.
LEMMA PoolNextIsNext == [PoolNext]_vars => [Next]_vars
BY DEF PoolNext, PoolRun, Next

\* A thread that runs makes an allowed call, or goes on with the one it has; when it
\* has run it is in no call but that one, and the others are in theirs.
LEMMA RunnerCall ==
    ASSUME TypeOK, NEW t \in Threads, NEW c \in Calls(t), PoolRun(t, c)
    PROVE  /\ AtLoop(t, c)
           /\ (call[t] = Idle /\ Allowed(c)) \/ call[t] = c
           /\ call'[t] \in {Idle, c}
           /\ \A u \in Threads \ {t} : call'[u] = call[u]
<1>1. AtLoop(t, c) /\ ((call[t] = Idle /\ Allowed(c)) \/ call[t] = c)
  BY DEF PoolRun, Run, Enqueue, EnqueueBlocks, Dequeue, DequeueBlocks, WaitEmpty,
         WaitEmptyBlocks, AtLoop
<1>2. call' = [call EXCEPT ![t] = Idle] \/ call' = [call EXCEPT ![t] = c]
  BY DEF PoolRun, Run, Enqueue, EnqueueBlocks, Dequeue, DequeueBlocks, WaitEmpty,
         WaitEmptyBlocks, PushBack, PopFront, Return, BlockOnEmpty, BlockOnFull
<1> QED BY <1>1, <1>2 DEF TypeOK

LEMMA NextApart == Untimed /\ TypeOK /\ Apart /\ [PoolNext]_vars => Apart'
<1> SUFFICES ASSUME Untimed, TypeOK, Apart, [PoolNext]_vars PROVE Apart'
  OBVIOUS
<1>1. ASSUME NEW t \in Threads, NEW c \in Calls(t), PoolRun(t, c) PROVE Apart'
  BY <1>1, RunnerCall DEF Apart, InCall, Allowed, Idle
<1>2. ASSUME NEW t \in Threads, WaitTimesOut(t) \/ SpuriousWakeup(t) PROVE Apart'
  BY <1>2 DEF WaitTimesOut, SpuriousWakeup, Apart, InCall
<1>3. CASE UNCHANGED vars
  BY <1>3 DEF vars, Apart, InCall
<1> QED BY <1>1, <1>2, <1>3, NobodyGivesUp DEF PoolNext

LEMMA NextCovered == Untimed /\ Capacity > 0 /\ Covered /\ [PoolNext]_vars => Covered'
<1> SUFFICES ASSUME Untimed, Capacity > 0, Covered, [PoolNext]_vars
             PROVE  DequeuersCovered' /\ ProducersCovered'
  BY NextSummarised, PoolNextIsNext, NextApart DEF Covered, Summarised
<1>0. /\ TypeOK /\ FlagsAgree /\ Bounded /\ DequeuersCovered /\ ProducersCovered
      /\ Apart
      /\ elements \in Seq(Elements) /\ Len(elements) \in Nat /\ Capacity \in Nat
  BY CapacityAssumption DEF Covered, Summarised, TypeOK
<1>1. ASSUME NEW t \in Threads, NEW c \in Calls(t), PoolRun(t, c), Enqueue(t, c)
      PROVE  DequeuersCovered' /\ ProducersCovered'
  <2>1. /\ AtLoop(t, c) /\ c.op = "enqueue" /\ PushBack(t, c.element)
        /\ c.element \in Elements /\ t \notin emptyCv \cup fullCv
    BY <1>0, <1>1, CallsAreCalls, RunnersAreAwake DEF Enqueue
  <2>2. /\ Len(elements') = Len(elements) + 1
        /\ emptyCv' \in NotifyOne(emptyCv)
        /\ fullCv' = IF Len(elements') = Capacity THEN {} ELSE fullCv
        /\ call' = [call EXCEPT ![t] = Idle]
    BY <1>0, <2>1, PushBackEffect DEF Return
  <2>3. \A u \in Threads \ {t} : call'[u] = call[u]
    BY <1>0, <2>2 DEF TypeOK
  <2>4. emptyCv' \subseteq emptyCv /\ fullCv' \subseteq fullCv
    BY <2>2, NotifyShrinks
  <2>5. DequeuersCovered'
    <3>1. CASE emptyCv' = {}
      BY <3>1 DEF DequeuersCovered
    <3>2. CASE emptyCv' # {}
      <4>0. \A u \in Threads : call[u].op # "wait_empty"
        BY <1>0, <1>1, <2>1, RunnerCall DEF Apart, InCall, Allowed
      <4>1. PICK u \in emptyCv : emptyCv' = emptyCv \ {u}
        BY <2>2, <2>4, <3>2 DEF NotifyOne
      <4>2. u \in Threads /\ u # t /\ u \notin fullCv /\ call[u].op = "dequeue"
        BY <1>0, <2>1, <4>0, <4>1 DEF TypeOK
      <4>3. u \in Woken("dequeue")' /\ u \notin Woken("dequeue")
        BY <2>3, <2>4, <4>1, <4>2 DEF Woken, Awake, Idle
      <4>4. Woken("dequeue") \subseteq Woken("dequeue")'
        BY <2>1, <2>3, <2>4 DEF Woken, Awake, AtLoop, Idle
      <4>5. Cardinality(Woken("dequeue")) + 1 <= Cardinality(Woken("dequeue")')
        BY <4>3, <4>4, WokenFinite, OneMore
      <4> QED BY <1>0, <2>2, <4>1, <4>2, <4>5, WokenFinite DEF DequeuersCovered
    <3> QED BY <3>1, <3>2
  <2>6. ProducersCovered'
    <3>1. Woken("enqueue") \ {t} \subseteq Woken("enqueue")'
      BY <2>3, <2>4 DEF Woken, Awake
    <3>2. Cardinality(Woken("enqueue")) - 1 <= Cardinality(Woken("enqueue")')
      BY <3>1, WokenFinite, OneFewer
    <3> QED BY <1>0, <2>2, <2>4, <3>2, WokenFinite DEF ProducersCovered
  <2> QED BY <2>5, <2>6
<1>2. ASSUME NEW t \in Threads, NEW c \in Calls(t), Dequeue(t, c)
      PROVE  DequeuersCovered' /\ ProducersCovered'
  <2>1. /\ AtLoop(t, c) /\ c.op = "dequeue" /\ PopFront(t)
        /\ elements # <<>> /\ t \notin emptyCv \cup fullCv
    BY <1>0, <1>2, RunnersAreAwake DEF Dequeue, FlagsAgree
  <2>2. /\ Len(elements') = Len(elements) - 1
        /\ fullCv' \in NotifyOne(fullCv)
        /\ emptyCv' = IF elements' = <<>> THEN {} ELSE emptyCv
        /\ call' = [call EXCEPT ![t] = Idle]
    BY <1>0, <2>1, PopFrontEffect DEF Return
  <2>3. \A u \in Threads \ {t} : call'[u] = call[u]
    BY <1>0, <2>2 DEF TypeOK
  <2>4. emptyCv' \subseteq emptyCv /\ fullCv' \subseteq fullCv
    BY <2>2, NotifyShrinks
  <2>5. ProducersCovered'
    <3>1. CASE fullCv' = {}
      BY <3>1 DEF ProducersCovered
    <3>2. CASE fullCv' # {}
      <4>1. PICK u \in fullCv : fullCv' = fullCv \ {u}
        BY <2>2, <2>4, <3>2 DEF NotifyOne
      <4>2. u \in Threads /\ u # t /\ u \notin emptyCv /\ call[u].op = "enqueue"
        BY <1>0, <2>1, <4>1 DEF TypeOK
      <4>3. u \in Woken("enqueue")' /\ u \notin Woken("enqueue")
        BY <2>3, <2>4, <4>1, <4>2 DEF Woken, Awake, Idle
      <4>4. Woken("enqueue") \subseteq Woken("enqueue")'
        BY <2>1, <2>3, <2>4 DEF Woken, Awake, AtLoop, Idle
      <4>5. Cardinality(Woken("enqueue")) + 1 <= Cardinality(Woken("enqueue")')
        BY <4>3, <4>4, WokenFinite, OneMore
      <4> QED BY <1>0, <2>2, <4>1, <4>5, WokenFinite DEF ProducersCovered
    <3> QED BY <3>1, <3>2
  <2>6. DequeuersCovered'
    <3>1. Woken("dequeue") \ {t} \subseteq Woken("dequeue")'
      BY <2>3, <2>4 DEF Woken, Awake
    <3>2. Cardinality(Woken("dequeue")) - 1 <= Cardinality(Woken("dequeue")')
      BY <3>1, WokenFinite, OneFewer
    <3>3. Asleep' => Asleep
      BY <1>0, <2>1, <2>3, <2>4 DEF Asleep, TypeOK
    <3> QED BY <1>0, <2>2, <2>4, <3>2, <3>3, WokenFinite DEF DequeuersCovered, Asleep
  <2> QED BY <2>5, <2>6
<1>3. ASSUME UNCHANGED elements,
             elements # <<>> /\ Asleep' => Asleep,
             fullCv' = {} \/ fullCv # {} \/ Len(elements) = Capacity,
             elements # <<>> => Woken("dequeue") \subseteq Woken("dequeue")',
             Len(elements) # Capacity => Woken("enqueue") \subseteq Woken("enqueue")'
      PROVE  DequeuersCovered' /\ ProducersCovered'
  <2>1. elements # <<>> =>
          Cardinality(Woken("dequeue")) <= Cardinality(Woken("dequeue")')
    BY <1>3, WokenFinite, FS_Subset
  <2>2. Len(elements) # Capacity =>
          Cardinality(Woken("enqueue")) <= Cardinality(Woken("enqueue")')
    BY <1>3, WokenFinite, FS_Subset
  <2>3. elements = <<>> => Len(elements) = 0
    OBVIOUS
  <2>4. DequeuersCovered'
    BY <1>0, <1>3, <2>1, <2>3, WokenFinite DEF DequeuersCovered, Asleep
  <2>5. ProducersCovered'
    BY <1>0, <1>3, <2>2, WokenFinite DEF ProducersCovered
  <2> QED BY <2>4, <2>5
<1>4. ASSUME NEW t \in Threads, NEW c \in Calls(t), EnqueueBlocks(t, c)
      PROVE  DequeuersCovered' /\ ProducersCovered'
  <2>1. /\ AtLoop(t, c) /\ c.op = "enqueue" /\ Len(elements) = Capacity
        /\ fullCv' = fullCv \cup {t} /\ call' = [call EXCEPT ![t] = c]
        /\ UNCHANGED <<elements, emptyCv>>
    BY <1>0, <1>4 DEF EnqueueBlocks, BlockOnFull, FlagsAgree
  <2>2. Woken("dequeue") \subseteq Woken("dequeue")'
    BY <1>0, <2>1 DEF Woken, Awake, AtLoop, Idle, TypeOK
  <2>3. Asleep' => Asleep
    BY <1>0, <2>1 DEF Asleep, TypeOK
  <2> QED BY <1>3, <2>1, <2>2, <2>3
<1>5. ASSUME NEW t \in Threads, NEW c \in Calls(t), DequeueBlocks(t, c)
      PROVE  DequeuersCovered' /\ ProducersCovered'
  <2>1. /\ AtLoop(t, c) /\ c.op = "dequeue" /\ elements = <<>>
        /\ emptyCv' = emptyCv \cup {t} /\ call' = [call EXCEPT ![t] = c]
        /\ UNCHANGED <<elements, fullCv>>
    BY <1>0, <1>5 DEF DequeueBlocks, BlockOnEmpty, FlagsAgree
  <2>2. Woken("enqueue") \subseteq Woken("enqueue")'
    BY <1>0, <2>1 DEF Woken, Awake, AtLoop, Idle, TypeOK
  <2> QED BY <1>3, <2>1, <2>2
<1>6. ASSUME emptyCv' \subseteq emptyCv, fullCv' \subseteq fullCv,
             UNCHANGED <<elements, call>>
      PROVE  DequeuersCovered' /\ ProducersCovered'
  <2>1. \A op : Woken(op) \subseteq Woken(op)'
    BY <1>6 DEF Woken, Awake
  <2>2. Asleep' => Asleep
    BY <1>6 DEF Asleep
  <2> QED BY <1>3, <1>6, <2>1, <2>2
<1>7. ASSUME NEW t \in Threads, NEW c \in Calls(t), WaitEmpty(t, c)
      PROVE  DequeuersCovered' /\ ProducersCovered'
  <2>1. /\ AtLoop(t, c) /\ c.op = "wait_empty" /\ elements = <<>>
        /\ call' = [call EXCEPT ![t] = Idle]
        /\ UNCHANGED <<elements, emptyCv, fullCv>>
    BY <1>0, <1>7 DEF WaitEmpty, FlagsAgree, Return
  <2>2. Woken("enqueue") \subseteq Woken("enqueue")'
    BY <1>0, <2>1 DEF Woken, Awake, AtLoop, Idle, TypeOK
  <2> QED BY <1>3, <2>1, <2>2
<1>8. ASSUME NEW t \in Threads, NEW c \in Calls(t), WaitEmptyBlocks(t, c)
      PROVE  DequeuersCovered' /\ ProducersCovered'
  <2>1. /\ AtLoop(t, c) /\ c.op = "wait_empty"
        /\ emptyCv' = emptyCv \cup {t} /\ call' = [call EXCEPT ![t] = c]
        /\ UNCHANGED <<elements, fullCv>>
    BY <1>0, <1>8 DEF WaitEmptyBlocks, BlockOnEmpty
  <2>2. /\ Woken("enqueue") \subseteq Woken("enqueue")'
        /\ Woken("dequeue") \subseteq Woken("dequeue")'
    BY <1>0, <2>1 DEF Woken, Awake, AtLoop, Idle, TypeOK
  <2>3. Asleep' => Asleep
    BY <1>0, <2>1 DEF Asleep, TypeOK
  <2> QED BY <1>3, <2>1, <2>2, <2>3
<1>9. ASSUME NEW t \in Threads, NEW c \in Calls(t), PoolRun(t, c)
      PROVE  DequeuersCovered' /\ ProducersCovered'
  BY <1>1, <1>2, <1>4, <1>5, <1>7, <1>8, <1>9 DEF PoolRun, Run
<1> QED BY <1>0, <1>6, <1>9, NobodyGivesUp
        DEF PoolNext, WaitTimesOut, SpuriousWakeup, vars

LEMMA AlwaysCovered ==
    ASSUME Untimed, Capacity > 0 PROVE PoolSpec => []Covered
<1>1. Init => Covered
  BY InitSummarised DEF Init, Covered, Apart, InCall, Idle, DequeuersCovered,
                        ProducersCovered
<1>2. Covered /\ [PoolNext]_vars => Covered'
  BY NextCovered
<1> QED BY <1>1, <1>2, PTL DEF PoolSpec

\* In a pool used without try_submit no notification is lost, though shutdown
\* sleeps in the workers' condition variable: while a worker sleeps in dequeue(),
\* every command has a worker of its own that is awake and coming for it.
THEOREM NoDequeueForgotten ==
    ASSUME Untimed, Capacity > 0 PROVE PoolSpec => []DequeuersCovered
<1>1. Covered => DequeuersCovered
  BY DEF Covered
<1> QED BY <1>1, AlwaysCovered, PTL

\* And while a submit sleeps, every free place has a submit of its own that is
\* awake and coming for it.
THEOREM NoEnqueueForgotten ==
    ASSUME Untimed, Capacity > 0 PROVE PoolSpec => []ProducersCovered
<1>1. Covered => ProducersCovered
  BY DEF Covered
<1> QED BY <1>1, AlwaysCovered, PTL

\* The queue of a pool implements BoundedQueue, with and without timeouts: what
\* ThreadPool takes it for.
THEOREM PoolRefinement ==
    ASSUME Capacity > 0 PROVE PoolSpec => ImplementsBoundedQueue
<1>1. PoolSpec => Spec
  BY PoolNextIsNext, PTL DEF PoolSpec, Spec
<1> QED BY <1>1, Refinement, PTL
===============================================================================
