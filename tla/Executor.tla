------------------------------- MODULE Executor -------------------------------
(***************************************************************************)
(* What a thread pool promises of the jobs submitted to it, whatever its   *)
(* threads, queue, barriers and flags do: each one is executed at most     *)
(* once, by at most Tasks at a time, started in the order in which they    *)
(* were accepted, and none is lost.  Shutting down CompletePending settles *)
(* what had been accepted by then: when the threads have been joined all   *)
(* of it is done.                                                          *)
(***************************************************************************)
EXTENDS Integers, FiniteSets

CONSTANTS Jobs,          \* the users' commands
          Tasks,         \* number of threads
          ShutdownMode   \* "Immediate" or "CompletePending"

VARIABLES status,     \* status[j]: "new", "pending", "running" or "done"
          ahead,      \* pairs <<i, j>> of pending jobs, i accepted before j
          phase,      \* "open", "closing" or "joined"
          promised    \* the jobs that were accepted when the pool was shut down

vars == <<status, ahead, phase, promised>>

In(state) == {j \in Jobs : status[j] = state}

Init == /\ status = [j \in Jobs |-> "new"]
        /\ ahead = {}
        /\ phase = "open"
        /\ promised = {}

\* unchecked_submit is accepted at any time.
Submit(j) == /\ status[j] = "new"
             /\ status' = [status EXCEPT ![j] = "pending"]
             /\ ahead' = ahead \cup (In("pending") \X {j})
             /\ UNCHANGED <<phase, promised>>

\* The job that has waited longest starts, if a thread is free.
Run(j) == /\ phase # "joined"
          /\ status[j] = "pending"
          /\ \A i \in Jobs : <<i, j>> \notin ahead
          /\ Cardinality(In("running")) < Tasks
          /\ status' = [status EXCEPT ![j] = "running"]
          /\ ahead' = {p \in ahead : p[1] # j}
          /\ UNCHANGED <<phase, promised>>

\* However it ends: with Ok, Err or a panic.
Finish(j) == /\ status[j] = "running"
             /\ status' = [status EXCEPT ![j] = "done"]
             /\ UNCHANGED <<ahead, phase, promised>>

Shutdown == /\ phase = "open"
            /\ phase' = "closing"
            /\ promised' = Jobs \ In("new")
            /\ UNCHANGED <<status, ahead>>

Join == /\ phase = "closing"
        /\ In("running") = {}
        /\ ShutdownMode = "CompletePending" => promised \subseteq In("done")
        /\ phase' = "joined"
        /\ UNCHANGED <<status, ahead, promised>>

Next == \/ \E j \in Jobs : Submit(j) \/ Run(j) \/ Finish(j)
        \/ Shutdown
        \/ Join

Spec == Init /\ [][Next]_vars
===============================================================================
