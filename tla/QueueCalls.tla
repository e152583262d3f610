------------------------------ MODULE QueueCalls ------------------------------
(***************************************************************************)
(* The calls a thread can have in progress on one of the crate's blocking  *)
(* queues.  BlockingQueue, CrossbeamBlockingQueue and the adapter over     *)
(* both offer the same three blocking operations:                          *)
(*                                                                         *)
(*   enqueue(e) / try_enqueue(e, timeout)                                  *)
(*   dequeue()  / try_dequeue(timeout)                                     *)
(*   wait_empty(timeout)                                                   *)
(*                                                                         *)
(* enqueue and dequeue are the try_ operation with Duration::MAX.  A       *)
(* Duration is abstracted to whether it can elapse at all: "max" never     *)
(* does, "finite" elapses at a moment the model does not predict.          *)
(***************************************************************************)
CONSTANTS Producers,  \* threads that call enqueue / try_enqueue
          Consumers,  \* threads that call dequeue / try_dequeue
          Watchers,   \* threads that call wait_empty
          Elements,   \* the values that are enqueued
          Timeouts,   \* the durations in use, a subset of {"max", "finite"}
          None        \* Option::None

ASSUME CallsAssumption == /\ Timeouts \subseteq {"max", "finite"}
                          /\ None \notin Elements

\* The three sets may overlap: a thread may make every kind of call in turn.
Threads == Producers \cup Consumers \cup Watchers

\* No call in progress.
Idle == [op |-> "idle", element |-> None, timeout |-> "max"]

\* The calls thread t may make.
Calls(t) ==
    {c \in [op : {"enqueue", "dequeue", "wait_empty"},
            element : Elements \cup {None},
            timeout : Timeouts] :
        \/ c.op = "enqueue"    /\ t \in Producers /\ c.element # None
        \/ c.op = "dequeue"    /\ t \in Consumers /\ c.element = None
        \/ c.op = "wait_empty" /\ t \in Watchers  /\ c.element = None}

\* What a call can return: the element, None, or wait_empty's boolean.
Results == Elements \cup {None} \cup BOOLEAN
===============================================================================
