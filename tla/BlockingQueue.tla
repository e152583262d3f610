----------------------------- MODULE BlockingQueue ----------------------------
(***************************************************************************)
(* src/blocking_queue.rs: a bounded queue built from a mutex over two      *)
(* flags, a mutex over the elements, and two condition variables.          *)
(*                                                                         *)
(* Every operation holds the flags mutex from the moment it looks at the   *)
(* flags until it returns or blocks in wait_timeout, and takes the         *)
(* elements mutex only inside that section; so a section is one step here  *)
(* and neither mutex needs a variable.  What can interleave between two    *)
(* steps of a thread is exactly what happens while it is blocked in        *)
(* wait_timeout, or has left it and competes for the mutex again.          *)
(***************************************************************************)
EXTENDS QueueCalls, Integers, Sequences, FiniteSets

CONSTANT Capacity   \* the capacity given to BlockingQueue::new

ASSUME CapacityAssumption == Capacity \in Nat

VARIABLES elements,   \* elements: Mutex<VecDeque<E>>, oldest first
          flags,      \* flags: Mutex<QueueFlags>
          emptyCv,    \* empty: Condvar, the threads blocked in it
          fullCv,     \* full: Condvar, the threads blocked in it
          timedOut,   \* threads whose latest wait_timeout said timed_out()
          call,       \* call[t]: the call thread t has in progress, or Idle
          returned    \* the latest return of any call: <<thread, value>>

vars == <<elements, flags, emptyCv, fullCv, timedOut, call, returned>>

Init == /\ elements = <<>>
        /\ flags = [empty |-> TRUE, full |-> FALSE]
        /\ emptyCv = {} /\ fullCv = {} /\ timedOut = {}
        /\ call = [t \in Threads |-> Idle]
        /\ returned = <<>>

-------------------------------------------------------------------------------
(* std::sync::Condvar.  notify_one wakes some blocked thread if there is   *)
(* one, notify_all wakes them all; a woken thread still has to take the    *)
(* mutex again before it goes on.                                          *)

NotifyOne(cv) == IF cv = {} THEN {cv} ELSE {cv \ {t} : t \in cv}

NotifyAll(cv) == {{}}

\* Not blocked in a condition variable, but inside a call.
Awake(t) == call[t] # Idle /\ t \notin emptyCv \cup fullCv

\* The timer of wait_timeout fires first.
WaitTimesOut(t) == /\ t \in emptyCv \cup fullCv
                   /\ call[t].timeout = "finite"
                   /\ emptyCv' = emptyCv \ {t}
                   /\ fullCv' = fullCv \ {t}
                   /\ timedOut' = timedOut \cup {t}
                   /\ UNCHANGED <<elements, flags, call, returned>>

\* A condition variable may also wake a thread for no reason.
SpuriousWakeup(t) == /\ t \in emptyCv \cup fullCv
                     /\ emptyCv' = emptyCv \ {t}
                     /\ fullCv' = fullCv \ {t}
                     /\ UNCHANGED <<elements, flags, timedOut, call, returned>>

-------------------------------------------------------------------------------
\* t holds the flags mutex at the head of its `while` loop: the call c starts,
\* or t has been woken with time left (elapsed < t) and tests the flag again.
AtLoop(t, c) == \/ call[t] = Idle /\ c \in Calls(t)
                \/ Awake(t) /\ t \notin timedOut /\ c = call[t]

\* t leaves the loop without testing the flag: wait_timeout timed out, or t was
\* woken but by then the time had run out (elapsed >= t).
OutOfTime(t) == Awake(t) /\ call[t].timeout = "finite"

Return(t, value) == /\ call' = [call EXCEPT ![t] = Idle]
                    /\ returned' = <<t, value>>
                    /\ timedOut' = timedOut \ {t}

\* empty.wait_timeout(flags, t) and full.wait_timeout(flags, t)
BlockOnEmpty(t, c) == /\ emptyCv' = emptyCv \cup {t}
                      /\ call' = [call EXCEPT ![t] = c]
                      /\ UNCHANGED <<elements, flags, fullCv, timedOut, returned>>

BlockOnFull(t, c) == /\ fullCv' = fullCv \cup {t}
                     /\ call' = [call EXCEPT ![t] = c]
                     /\ UNCHANGED <<elements, flags, emptyCv, timedOut, returned>>

\* Mutants: nobody is notified; somebody only when the queue had been empty.
PushBackSilently(t, e) ==
    /\ elements' = Append(elements, e)
    /\ flags' = [empty |-> FALSE, full |-> Len(elements') = Capacity]
    /\ UNCHANGED <<emptyCv, fullCv>>
    /\ Return(t, None)

PushBackNotifiesIfEmpty(t, e) ==
    /\ elements' = Append(elements, e)
    /\ flags' = [empty |-> FALSE, full |-> Len(elements') = Capacity]
    /\ emptyCv' \in IF elements = <<>> THEN NotifyOne(emptyCv) ELSE {emptyCv}
    /\ UNCHANGED fullCv
    /\ Return(t, None)

\* The element is added, one thread waiting on `empty` is woken, and every
\* producer is woken when the element took the last place.
PushBack(t, e) == /\ elements' = Append(elements, e)
                  /\ emptyCv' \in NotifyOne(emptyCv)
                  /\ IF Len(elements') = Capacity
                     THEN /\ flags' = [empty |-> FALSE, full |-> TRUE]
                          /\ fullCv' \in NotifyAll(fullCv)
                     ELSE /\ flags' = [flags EXCEPT !.empty = FALSE]
                          /\ UNCHANGED fullCv
                  /\ Return(t, None)

\* Mutants: `full` stays set; one thread is notified of the queue being empty, or
\* none; a producer is notified only when the queue had been full.
PopFrontLeavesFull(t) ==
    /\ elements # <<>>
    /\ elements' = Tail(elements)
    /\ flags' = [flags EXCEPT !.empty = (elements' = <<>>)]
    /\ fullCv' \in NotifyOne(fullCv)
    /\ emptyCv' \in IF elements' = <<>> THEN NotifyAll(emptyCv) ELSE {emptyCv}
    /\ Return(t, Head(elements))

PopFrontNotifiesOne(t) ==
    /\ elements # <<>>
    /\ elements' = Tail(elements)
    /\ flags' = [empty |-> elements' = <<>>, full |-> FALSE]
    /\ fullCv' \in NotifyOne(fullCv)
    /\ emptyCv' \in IF elements' = <<>> THEN NotifyOne(emptyCv) ELSE {emptyCv}
    /\ Return(t, Head(elements))

PopFrontSilently(t) ==
    /\ elements # <<>>
    /\ elements' = Tail(elements)
    /\ flags' = [empty |-> elements' = <<>>, full |-> FALSE]
    /\ fullCv' \in NotifyOne(fullCv)
    /\ UNCHANGED emptyCv
    /\ Return(t, Head(elements))

PopFrontNotifiesIfFull(t) ==
    /\ elements # <<>>
    /\ elements' = Tail(elements)
    /\ flags' = [empty |-> elements' = <<>>, full |-> FALSE]
    /\ fullCv' \in IF flags.full THEN NotifyOne(fullCv) ELSE {fullCv}
    /\ emptyCv' \in IF elements' = <<>> THEN NotifyAll(emptyCv) ELSE {emptyCv}
    /\ Return(t, Head(elements))

\* The oldest element is removed (pop_front gives None on an empty deque), one
\* producer is woken, and every thread waiting on `empty` is woken when the
\* element was the last.
PopFront(t) == /\ elements' = IF elements = <<>> THEN <<>> ELSE Tail(elements)
               /\ fullCv' \in NotifyOne(fullCv)
               /\ IF elements' = <<>>
                  THEN /\ flags' = [empty |-> TRUE, full |-> FALSE]
                       /\ emptyCv' \in NotifyAll(emptyCv)
                  ELSE /\ flags' = [flags EXCEPT !.full = FALSE]
                       /\ UNCHANGED emptyCv
               /\ Return(t, IF elements = <<>> THEN None ELSE Head(elements))

-------------------------------------------------------------------------------
\* try_enqueue
EnqueueBlocks(t, c) == /\ AtLoop(t, c) /\ c.op = "enqueue"
                       /\ flags.full
                       /\ BlockOnFull(t, c)

Enqueue(t, c) == /\ AtLoop(t, c) /\ c.op = "enqueue"
                 /\ ~flags.full
                 /\ PushBack(t, c.element)

EnqueueGivesUp(t) == /\ OutOfTime(t) /\ call[t].op = "enqueue"
                     /\ Return(t, call[t].element)
                     /\ UNCHANGED <<elements, flags, emptyCv, fullCv>>

\* Mutant: a consumer waits on the producers' condition variable.
DequeueBlocksOnFull(t, c) == /\ AtLoop(t, c) /\ c.op = "dequeue"
                             /\ flags.empty
                             /\ BlockOnFull(t, c)

\* try_dequeue
DequeueBlocks(t, c) == /\ AtLoop(t, c) /\ c.op = "dequeue"
                       /\ flags.empty
                       /\ BlockOnEmpty(t, c)

\* Mutant: `if` in place of `while`, a woken consumer does not test the flag again.
DequeueOnceWoken(t, c) == /\ AtLoop(t, c) /\ c.op = "dequeue"
                          /\ call[t] = Idle => ~flags.empty
                          /\ PopFront(t)

Dequeue(t, c) == /\ AtLoop(t, c) /\ c.op = "dequeue"
                 /\ ~flags.empty
                 /\ PopFront(t)

DequeueGivesUp(t) == /\ OutOfTime(t) /\ call[t].op = "dequeue"
                     /\ Return(t, None)
                     /\ UNCHANGED <<elements, flags, emptyCv, fullCv>>

\* wait_empty: whether it ran out of time or not, it returns flags.empty.
WaitEmptyBlocks(t, c) == /\ AtLoop(t, c) /\ c.op = "wait_empty"
                         /\ ~flags.empty
                         /\ BlockOnEmpty(t, c)

WaitEmpty(t, c) == /\ AtLoop(t, c) /\ c.op = "wait_empty"
                   /\ flags.empty
                   /\ Return(t, flags.empty)
                   /\ UNCHANGED <<elements, flags, emptyCv, fullCv>>

WaitEmptyGivesUp(t) == /\ OutOfTime(t) /\ call[t].op = "wait_empty"
                       /\ Return(t, flags.empty)
                       /\ UNCHANGED <<elements, flags, emptyCv, fullCv>>

-------------------------------------------------------------------------------
\* t runs with the call c until it returns or blocks.
Run(t, c) == \/ Enqueue(t, c)   \/ EnqueueBlocks(t, c)
             \/ Dequeue(t, c)   \/ DequeueBlocks(t, c)
             \/ WaitEmpty(t, c) \/ WaitEmptyBlocks(t, c)

GiveUp(t) == EnqueueGivesUp(t) \/ DequeueGivesUp(t) \/ WaitEmptyGivesUp(t)

Next == \E t \in Threads : \/ \E c \in Calls(t) : Run(t, c)
                           \/ GiveUp(t)
                           \/ WaitTimesOut(t)
                           \/ SpuriousWakeup(t)

Spec == Init /\ [][Next]_vars

\* A thread that is awake inside a call gets the mutex in the end and goes on,
\* and a timer that is running fires.  Nobody is obliged to make a new call.
Resume(t) == Awake(t) /\ (Run(t, call[t]) \/ GiveUp(t))

Fairness == \A t \in Threads : WF_vars(Resume(t)) /\ WF_vars(WaitTimesOut(t))

FairSpec == Spec /\ Fairness

-------------------------------------------------------------------------------
(* Properties.                                                             *)

Promise == INSTANCE BoundedQueue

\* Type invariant: the shape of the state, who can be blocked in which condition
\* variable, and that a timed-out thread is awake in a call that can time out.
TypeOK ==
    /\ elements \in Seq(Elements)
    /\ flags \in [empty : BOOLEAN, full : BOOLEAN]
    /\ call \in [Threads -> [op : {"idle", "enqueue", "dequeue", "wait_empty"},
                             element : Elements \cup {None},
                             timeout : {"max", "finite"}]]
    /\ \A t \in Threads : call[t] \in Calls(t) \cup {Idle}
    /\ returned \in (Threads \X Results) \cup {<<>>}
    /\ emptyCv \subseteq {t \in Threads : call[t].op \in {"dequeue", "wait_empty"}}
    /\ fullCv \subseteq {t \in Threads : call[t].op = "enqueue"}
    /\ timedOut \subseteq {t \in Threads : Awake(t) /\ call[t].timeout = "finite"}

\* The two flags, which every decision to block is made on, never disagree with
\* the deque they summarise, whatever thread looks at them and whenever.
FlagsAgree == /\ flags.empty <=> elements = <<>>
              /\ flags.full <=> Len(elements) = Capacity

\* The queue is bounded: it never holds more elements than its capacity.
Bounded == Len(elements) <= Capacity

\* Dequeuers and wait_empty callers share one condition variable.  Still, no
\* wait_empty caller stays blocked in it over a moment in which the queue is
\* empty: try_dequeue's notify_all has reached every one of them.
WatchersAlerted ==
    elements = <<>> => \A t \in emptyCv : call[t].op # "wait_empty"

\* Threads that have been woken, and have yet to find out what for.
Woken(op) == {t \in Threads : Awake(t) /\ call[t].op = op}

\* No wakeup is lost on the way to a dequeuer: while one is blocked, every
\* element in the queue has a woken dequeuer of its own coming for it.  This
\* depends on nobody else consuming a notification; see the runs for when.
DequeuersCovered ==
    (\E t \in emptyCv : call[t].op = "dequeue")
        => Len(elements) <= Cardinality(Woken("dequeue"))

\* No wakeup is lost on the way to a producer: while one is blocked, every free
\* place in the queue has a woken producer of its own coming for it.
ProducersCovered ==
    fullCv # {} => Capacity - Len(elements) <= Cardinality(Woken("enqueue"))

\* The queue implements BoundedQueue: every call takes effect in one step
\* between its invocation and its return, elements leave in the order they
\* entered, and a call without a timeout returns only when it has succeeded.
ImplementsBoundedQueue == Promise!Spec

\* An enqueue does not stay blocked while there is room.
EnqueueServed == Promise!EnqueueServed

\* A dequeue does not stay blocked while there is an element.
DequeueServed == Promise!DequeueServed

\* A wait_empty does not stay blocked while the queue is empty.
WaitEmptyServed == Promise!WaitEmptyServed
===============================================================================
