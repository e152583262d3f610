------------------------------- MODULE PoolQueue -------------------------------
(***************************************************************************)
(* BlockingQueue as a ThreadPool uses it (QueueType::BlockingQueue).       *)
(*                                                                         *)
(* The workers are its only consumers, and dequeue without a timeout.      *)
(* Clients enqueue, with a timeout only in try_submit.  wait_empty is      *)
(* called by shutdown alone, without a timeout, and shutdown has the pool  *)
(* to itself (&mut self): no client is in a call then, and none makes one  *)
(* before it returns.  BlockingQueue's callers are free to do much more,   *)
(* and lose wakeups when they do.                                          *)
(***************************************************************************)
EXTENDS BlockingQueue

InCall(op) == \E t \in Threads : call[t].op = op

\* Mutant: shutdown does not exclude the clients.
Shared(c) == c.op # "enqueue" => c.timeout = "max"

\* The calls that the pool allows to be made now.
Allowed(c) == /\ c.op # "enqueue" => c.timeout = "max"
              /\ c.op = "enqueue" => ~InCall("wait_empty")
              /\ c.op = "wait_empty" => ~InCall("enqueue") /\ ~InCall("wait_empty")

PoolRun(t, c) == /\ call[t] = Idle => Allowed(c)
                 /\ Run(t, c)

PoolNext == \E t \in Threads : \/ \E c \in Calls(t) : PoolRun(t, c)
                               \/ GiveUp(t)
                               \/ WaitTimesOut(t)
                               \/ SpuriousWakeup(t)

PoolSpec == Init /\ [][PoolNext]_vars

FairPoolSpec == PoolSpec /\ Fairness
===============================================================================
