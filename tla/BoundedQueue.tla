----------------------------- MODULE BoundedQueue -----------------------------
(***************************************************************************)
(* What the crate promises of a blocking bounded queue, whichever of the   *)
(* two implementations is chosen: a FIFO of at most Capacity elements, on  *)
(* which a call takes effect in one indivisible step between its           *)
(* invocation and its return.  No mutex, flag, condition variable or spin  *)
(* loop appears here; BlockingQueue and CrossbeamBlockingQueue are shown   *)
(* to implement this module.                                               *)
(***************************************************************************)
EXTENDS QueueCalls, Integers, Sequences

CONSTANT Capacity   \* the largest number of elements the queue holds

VARIABLES elements,   \* the queue, oldest element first
          call,       \* call[t]: the call thread t has in progress, or Idle
          returned    \* the latest return of any call: <<thread, value>>

vars == <<elements, call, returned>>

Init == /\ elements = <<>>
        /\ call = [t \in Threads |-> Idle]
        /\ returned = <<>>

-------------------------------------------------------------------------------
\* c is a call t has in progress, or one it makes now and that need not wait.
Serving(t, c) == \/ call[t] = Idle /\ c \in Calls(t)
                 \/ call[t] = c /\ c # Idle

Return(t, value) == /\ call' = [call EXCEPT ![t] = Idle]
                    /\ returned' = <<t, value>>

\* A call that has to wait: it is in progress and has had no effect yet.
Invoke(t, c) == /\ call[t] = Idle /\ c \in Calls(t)
                /\ call' = [call EXCEPT ![t] = c]
                /\ UNCHANGED <<elements, returned>>

\* An element enters only when there is room.
Enqueue(t, c) == /\ Serving(t, c) /\ c.op = "enqueue"
                 /\ Len(elements) < Capacity
                 /\ elements' = Append(elements, c.element)
                 /\ Return(t, None)

\* The element that leaves is the oldest one.
Dequeue(t, c) == /\ Serving(t, c) /\ c.op = "dequeue"
                 /\ elements # <<>>
                 /\ elements' = Tail(elements)
                 /\ Return(t, Head(elements))

\* wait_empty returns true in a state in which the queue is empty.
WaitEmpty(t, c) == /\ Serving(t, c) /\ c.op = "wait_empty"
                   /\ elements = <<>>
                   /\ Return(t, TRUE)
                   /\ UNCHANGED elements

\* Having seen the queue empty, or out of time, it may instead look once more and
\* report what it sees then.
StopWaiting(t, c) == /\ Serving(t, c) /\ c.op = "wait_empty"
                     /\ elements = <<>> \/ c.timeout = "finite"
                     /\ call' = [call EXCEPT ![t] = [c EXCEPT !.op = "recheck"]]
                     /\ UNCHANGED <<elements, returned>>

Recheck(t) == /\ call[t].op = "recheck"
              /\ Return(t, elements = <<>>)
              /\ UNCHANGED elements

\* Only a call whose timeout can elapse gives up: enqueue hands its element
\* back, dequeue returns None, wait_empty says whether the queue is empty.
GiveUp(t, c) == /\ Serving(t, c) /\ c.timeout = "finite" /\ c.op # "recheck"
                /\ Return(t, IF c.op = "wait_empty" THEN elements = <<>>
                             ELSE c.element)
                /\ UNCHANGED elements

Step(t, c) == \/ Invoke(t, c)    \/ Enqueue(t, c)     \/ Dequeue(t, c)
              \/ WaitEmpty(t, c) \/ StopWaiting(t, c) \/ GiveUp(t, c)

Next == \E t \in Threads : \/ \E c \in Calls(t) : Step(t, c)
                           \/ Recheck(t)

Spec == Init /\ [][Next]_vars

-------------------------------------------------------------------------------
(* The progress promises: a call stays blocked only for the reason the     *)
(* documentation gives.                                                    *)

\* "When the queue is full will block until space available": an enqueue in
\* progress does not stay blocked while there is room.
EnqueueServed ==
    \A t \in Producers :
        call[t].op = "enqueue" /\ Len(elements) < Capacity
            ~> call[t].op # "enqueue" \/ Len(elements) = Capacity

\* "When the queue is empty will block until an element is available": a
\* dequeue in progress does not stay blocked while there is an element.
DequeueServed ==
    \A t \in Consumers :
        call[t].op = "dequeue" /\ elements # <<>>
            ~> call[t].op # "dequeue" \/ elements = <<>>

\* "Wait until the queue is empty": a wait_empty in progress does not stay
\* blocked while the queue is empty.
WaitEmptyServed ==
    \A t \in Watchers :
        call[t].op = "wait_empty" /\ elements = <<>>
            ~> call[t].op # "wait_empty" \/ elements # <<>>
===============================================================================
