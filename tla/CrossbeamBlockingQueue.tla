------------------------ MODULE CrossbeamBlockingQueue ------------------------
(***************************************************************************)
(* src/crossbeam_blocking_queue.rs: the default queue of a thread pool, a  *)
(* crossbeam ArrayQueue polled in a loop.  Nobody sleeps and nobody is     *)
(* notified: a call that cannot succeed tries again until it does or its   *)
(* time has run out.                                                       *)
(*                                                                         *)
(* ArrayQueue is external; push, pop and is_empty are linearizable, so     *)
(* each is one step.  An iteration of a loop makes one attempt and, when   *)
(* that has failed, looks at the clock: two steps, between which the queue *)
(* may change.  wait_empty reads the queue once more after its loop.       *)
(***************************************************************************)
EXTENDS QueueCalls, Integers, Sequences

CONSTANT Capacity   \* the size given to ArrayQueue::new, which refuses 0

ASSUME CapacityAssumption == Capacity \in Nat \ {0}

VARIABLES elements,   \* elements: Arc<ArrayQueue<E>>, oldest first
          call,       \* call[t]: the call thread t has in progress, or Idle
          returned,   \* the latest return of any call: <<thread, value>>
          failed,     \* threads whose attempt has failed and that look at the clock next
          met         \* history, see Observe

vars == <<elements, call, returned, failed, met>>

Init == /\ elements = <<>>
        /\ call = [t \in Threads |-> Idle]
        /\ returned = <<>>
        /\ failed = {} /\ met = {}

-------------------------------------------------------------------------------
\* crossbeam::queue::ArrayQueue
IsFull == Len(elements) = Capacity
IsEmpty == elements = <<>>

\* t makes an attempt in the loop of c: the first one, or another one.
Attempts(t, c) == \/ call[t] = Idle /\ c \in Calls(t)
                  \/ call[t] = c /\ c # Idle /\ t \notin failed

\* The attempt has failed; the clock comes next.
Fails(t, c) == /\ call' = [call EXCEPT ![t] = c]
               /\ failed' = failed \cup {t}
               /\ UNCHANGED <<elements, returned>>

Return(t, value) == /\ call' = [call EXCEPT ![t] = Idle]
                    /\ returned' = <<t, value>>
                    /\ failed' = failed \ {t}

\* The loop of wait_empty is over.
LeaveLoop(t, c) == /\ call' = [call EXCEPT ![t] = [c EXCEPT !.op = "recheck"]]
                   /\ failed' = failed \ {t}
                   /\ UNCHANGED <<elements, returned>>

\* t looks at the clock in a call of op, and finds the time over.
OutOfTime(t, op) == /\ t \in failed
                    /\ call[t].op = op /\ call[t].timeout = "finite"

\* elapsed < t: the loop goes on.
Spin(t) == /\ t \in failed
           /\ failed' = failed \ {t}
           /\ UNCHANGED <<elements, call, returned>>

-------------------------------------------------------------------------------
\* Mutants: force_push, which drops the oldest element of a full queue; a failed
\* push is never tried again.
EnqueueForces(t, c) ==
    /\ Attempts(t, c) /\ c.op = "enqueue"
    /\ elements' = Append(IF IsFull THEN Tail(elements) ELSE elements, c.element)
    /\ Return(t, None)

EnqueueTriesOnce(t, c) == /\ call[t] = Idle /\ c \in Calls(t)
                          /\ c.op = "enqueue" /\ ~IsFull
                          /\ elements' = Append(elements, c.element)
                          /\ Return(t, None)

\* try_enqueue
Enqueue(t, c) == /\ Attempts(t, c) /\ c.op = "enqueue"
                 /\ ~IsFull
                 /\ elements' = Append(elements, c.element)
                 /\ Return(t, None)

\* Mutant: the element a failed push hands back is not kept for the next one.
EnqueueFailsEmptyHanded(t, c) == /\ Attempts(t, c) /\ c.op = "enqueue"
                                 /\ IsFull
                                 /\ Fails(t, [c EXCEPT !.element = None])

EnqueueFails(t, c) == /\ Attempts(t, c) /\ c.op = "enqueue"
                      /\ IsFull
                      /\ Fails(t, c)

EnqueueGivesUp(t) == /\ OutOfTime(t, "enqueue")
                     /\ Return(t, call[t].element)
                     /\ UNCHANGED elements

\* Mutant: a failed pop is never tried again.
DequeueTriesOnce(t, c) == /\ call[t] = Idle /\ c \in Calls(t)
                          /\ c.op = "dequeue" /\ ~IsEmpty
                          /\ elements' = Tail(elements)
                          /\ Return(t, Head(elements))

\* try_dequeue
Dequeue(t, c) == /\ Attempts(t, c) /\ c.op = "dequeue"
                 /\ ~IsEmpty
                 /\ elements' = Tail(elements)
                 /\ Return(t, Head(elements))

\* Mutant: the clock is looked at before the queue.
DequeueFailsUntried(t, c) == /\ Attempts(t, c) /\ c.op = "dequeue"
                             /\ Fails(t, c)

DequeueFails(t, c) == /\ Attempts(t, c) /\ c.op = "dequeue"
                      /\ IsEmpty
                      /\ Fails(t, c)

DequeueGivesUp(t) == /\ OutOfTime(t, "dequeue")
                     /\ Return(t, None)
                     /\ UNCHANGED elements

\* wait_empty: the loop ends when the queue is seen empty or time has run out,
\* and what is returned is a second look at the queue.
WaitEmptyFails(t, c) == /\ Attempts(t, c) /\ c.op = "wait_empty"
                        /\ ~IsEmpty
                        /\ Fails(t, c)

\* Mutant: the queue is looked at once, before the loop.
WaitEmptyLooksOnce(t, c) == /\ call[t] = Idle /\ c \in Calls(t)
                            /\ c.op = "wait_empty" /\ IsEmpty
                            /\ LeaveLoop(t, c)

WaitEmptyLeavesLoop(t, c) == /\ Attempts(t, c) /\ c.op = "wait_empty"
                             /\ IsEmpty
                             /\ LeaveLoop(t, c)

WaitEmptyGivesUp(t) == /\ OutOfTime(t, "wait_empty")
                       /\ LeaveLoop(t, call[t])

WaitEmptyReturns(t) == /\ call[t].op = "recheck"
                       /\ Return(t, IsEmpty)
                       /\ UNCHANGED elements

-------------------------------------------------------------------------------
Attempt(t, c) ==
    \/ Enqueue(t, c)        \/ EnqueueFails(t, c)
    \/ Dequeue(t, c)        \/ DequeueFails(t, c)
    \/ WaitEmptyFails(t, c) \/ WaitEmptyLeavesLoop(t, c)

Clock(t) == \/ Spin(t)           \/ EnqueueGivesUp(t)
            \/ DequeueGivesUp(t) \/ WaitEmptyGivesUp(t)

\* History: the threads during whose call in progress the queue has been full, if
\* it is an enqueue, or empty, if it is another call; whoever made it so, and
\* whether or not the thread has looked.
Meets(c, q) == Len(q) = IF c.op = "enqueue" THEN Capacity ELSE 0

Observe == met' = {t \in Threads : /\ call'[t] # Idle
                                    /\ \/ t \in met
                                       \/ Meets(call'[t], elements)
                                       \/ Meets(call'[t], elements')}

Next == /\ \E t \in Threads : \/ \E c \in Calls(t) : Attempt(t, c)
                              \/ Clock(t)
                              \/ WaitEmptyReturns(t)
        /\ Observe

Spec == Init /\ [][Next]_vars

\* A thread inside a call keeps being scheduled.
Resume(t) == /\ call[t] # Idle
             /\ Attempt(t, call[t]) \/ Clock(t) \/ WaitEmptyReturns(t)
             /\ Observe

FairSpec == Spec /\ \A t \in Threads : WF_vars(Resume(t))

-------------------------------------------------------------------------------
(* Properties.                                                             *)

Promise == INSTANCE BoundedQueue

\* Type invariant: the shape of the state, and that the queue stays bounded.
TypeOK ==
    /\ elements \in Seq(Elements) /\ Len(elements) <= Capacity
    /\ call \in [Threads -> [op : {"idle", "enqueue", "dequeue", "wait_empty", "recheck"},
                             element : Elements \cup {None},
                             timeout : {"max", "finite"}]]
    /\ \A t \in Threads :
         \/ call[t] \in Calls(t) \cup {Idle}
         \/ /\ call[t].op = "recheck"
            /\ [call[t] EXCEPT !.op = "wait_empty"] \in Calls(t)
    /\ returned \in (Threads \X Results) \cup {<<>>}
    /\ failed \subseteq Threads /\ \A t \in failed : call[t] \in Calls(t)
    /\ met \subseteq Threads

\* The queue implements BoundedQueue: every call takes effect in one step
\* between its invocation and its return, elements leave in the order they
\* entered, and an enqueue or dequeue without a timeout returns only when it has
\* succeeded.
ImplementsBoundedQueue == Promise!Spec

\* What a call reports was so at some moment between its invocation and its return,
\* although the attempt, the clock and the return are steps apart and others use the
\* queue in between: an enqueue hands its element back only if the queue has been
\* full, a dequeue returns None only if it has been empty, and wait_empty returns
\* true, or without a timeout at all, only if it has been empty.  BoundedQueue lets
\* a call whose time can run out give up at any moment.
AnswersWereTrue ==
    [][\A t \in Threads :
         call[t] # Idle /\ call'[t] = Idle =>
           LET answer == returned'[2]
               told == \/ call[t].op = "enqueue" /\ answer # None
                       \/ call[t].op = "dequeue" /\ answer = None
                       \/ /\ call[t].op = "recheck"
                          /\ answer = TRUE \/ call[t].timeout = "max"
           IN told => t \in met]_vars

\* The progress promises hold whatever mix of timeouts and wait_empty calls the
\* queue is used with: there is no wakeup to lose.
EnqueueServed == Promise!EnqueueServed
DequeueServed == Promise!DequeueServed
WaitEmptyServed == Promise!WaitEmptyServed
===============================================================================
