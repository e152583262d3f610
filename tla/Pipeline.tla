------------------------------- MODULE Pipeline -------------------------------
(***************************************************************************)
(* The programs of examples/: a main thread that sets up one to three      *)
(* thread pools, feeds the first, and shuts them down from first to last,  *)
(* while the commands of each pool submit to the next one, collect in      *)
(* thread-local storage or write to a file.                                *)
(*                                                                         *)
(* A pool is used here as ThreadPool and Executor promise it: its workers  *)
(* take commands in the order in which they were accepted, and a           *)
(* CompletePending shutdown followed by join ends every worker.  The empty *)
(* commands of shutdown, which only wake the workers up, are left out.     *)
(*                                                                         *)
(* Each pool is behind an RwLock.  Main takes it for writing around every  *)
(* call; a command takes the next pool's for reading and keeps it until    *)
(* submit has found room.  (read() of read_process_write_pipeline.rs reads *)
(* too, and the single pools have no lock: nobody else uses the first      *)
(* pool, so it makes no difference.)                                       *)
(***************************************************************************)
EXTENDS Integers, Sequences, FiniteSets

CONSTANTS Items,       \* number of items fed to the first stage
          QueueSize,   \* capacity of each queue (with_queue_size)
          Many         \* number of threads of the stages with several

ASSUME PipelineAssumption ==
    /\ Items \in Nat \ {0}
    /\ Many \in Nat \ {0}
    /\ QueueSize \in Nat /\ QueueSize >= Many

\* A pool, and what the commands submitted to it do.
Stage(tasks, does) == [tasks |-> tasks, does |-> does]

Do(op, stage) == [op |-> op, stage |-> stage]

Feed == <<Do("feed", 1)>>
SetLocals(n) == [s \in 1 .. n |-> Do("set_thread_local", s)]
Shutdowns(n) == [s \in 1 .. n |-> Do("shutdown", s)]

\* thread_pool.rs and thread_local.rs: one pool, whose commands print.
ThreadPoolStages == <<Stage(Many, "print")>>
ThreadPoolMain == Feed \o Shutdowns(1)

ThreadLocalStages == <<Stage(Many, "print_config")>>
ThreadLocalMain == SetLocals(1) \o Feed \o Shutdowns(1)

\* pipeline.rs.  Mutants: several threads write; the second stage is not told of
\* the third; the pools are shut down last first.
PipelineStagesManyWriters ==
    <<Stage(Many, "forward"), Stage(Many, "forward"), Stage(Many, "write")>>
PipelineMainSetsNextOnce == SetLocals(1) \o Feed \o Shutdowns(3)
PipelineMainBackwards ==
    SetLocals(2) \o Feed \o [s \in 1 .. 3 |-> Do("shutdown", 4 - s)]

PipelineStages ==
    <<Stage(Many, "forward"), Stage(Many, "forward"), Stage(1, "write")>>
PipelineMain == SetLocals(2) \o Feed \o Shutdowns(3)

\* flush_thread_local.rs.  Mutant: main flushes before the first stage is shut down.
FlushMainEarly == SetLocals(2) \o Feed \o <<Do("flush", 2)>> \o Shutdowns(3)

FlushStages ==
    <<Stage(Many, "forward"), Stage(Many, "collect"), Stage(1, "write")>>
FlushMain ==
    SetLocals(2) \o Feed \o <<Do("shutdown", 1), Do("flush", 2),
                             Do("shutdown", 2), Do("shutdown", 3)>>

\* fetch_thread_local.rs
FetchStages == <<Stage(Many, "forward"), Stage(Many, "collect")>>
FetchMain ==
    SetLocals(1) \o Feed \o <<Do("shutdown", 1), Do("fetch", 2), Do("shutdown", 2)>>

\* read_process_write_pipeline.rs
ReadProcessWriteStages == <<Stage(Many, "forward"), Stage(1, "write")>>
ReadProcessWriteMain == SetLocals(1) \o Feed \o Shutdowns(2)

Example(stages, script) == [stages |-> stages, script |-> script]

Examples ==
    [thread_pool        |-> Example(ThreadPoolStages, ThreadPoolMain),
     thread_local       |-> Example(ThreadLocalStages, ThreadLocalMain),
     pipeline           |-> Example(PipelineStages, PipelineMain),
     flush              |-> Example(FlushStages, FlushMain),
     fetch              |-> Example(FetchStages, FetchMain),
     read_process_write |-> Example(ReadProcessWriteStages, ReadProcessWriteMain)]

\* in_all_threads and in_all_threads_mut, by what they are called for.
Rounds == {"set_thread_local", "flush", "fetch"}

Command(op, items) == [op |-> op, items |-> items]
NoCommand == Command("none", {})

VARIABLES program,   \* the example that runs
          main,      \* where main is: step of its script, place in that step,
                     \* commands submitted or threads joined there, items fed
          queue,     \* queue[s]: the commands in the queue of stage s
          expired,   \* the stages whose pool has expired
          stopped,   \* the stages whose pool has stopped
          thread,    \* thread[t]: where thread t is in its loop, its command,
                     \* and its thread-local storage
          output     \* output[i]: how often item i has been printed, is in the
                     \* result file, or was fetched

vars == <<program, main, queue, expired, stopped, thread, output>>

Stages == Examples[program].stages
Script == Examples[program].script

NStages == Len(Stages)
Workers(s) == {s} \X (1 .. Stages[s].tasks)
Threads == UNION {Workers(s) : s \in 1 .. NStages}

Fresh == [pc |-> "idle", cmd |-> NoCommand,
          local |-> FALSE,      \* NEXT_THREAD_POOL or THREAD_LOCAL_CONFIG is set
          collected |-> {},     \* INTERMEDIATE_RESULT
          opened |-> FALSE,     \* RESULT_FILE is set
          failed |-> FALSE]     \* r of the worker loop is an error

Init == /\ program \in DOMAIN Examples
        /\ main = [step |-> 1, at |-> "lock", n |-> 0, fed |-> 0]
        /\ queue = [s \in 1 .. NStages |-> <<>>]
        /\ expired = {} /\ stopped = {}
        /\ thread = [t \in Threads |-> Fresh]
        /\ output = [i \in 1 .. Items |-> 0]

-------------------------------------------------------------------------------
Ended == main.at \in {"done", "failed"}

ScriptEnded == main.step > Len(Script)
Op == IF ScriptEnded THEN "end" ELSE Script[main.step].op
Here == IF ScriptEnded THEN 0 ELSE Script[main.step].stage

\* The locks: main holds one throughout a call, a thread while it submits.
WriteLocked(s) == Here = s /\ main.at \notin {"lock", "done", "failed"}
ReadLocked(s) == \E t \in Threads : thread[t].pc = "submit" /\ t[1] + 1 = s

\* Mutant: the queues are not bounded.
HasRoomAlways(s) == s \in 1 .. NStages

HasRoom(s) == Len(queue[s]) < QueueSize

\* submit(): into the queue of stage s, which has to have room.
Submit(s, command) == /\ HasRoom(s)
                      /\ queue' = [queue EXCEPT ![s] = Append(@, command)]

-------------------------------------------------------------------------------
(* The workers.                                                            *)

Goto(t, pc, command) ==
    thread' = [thread EXCEPT ![t].pc = pc, ![t].cmd = command]

OnlyThread == UNCHANGED <<program, main, expired, stopped>>

Take(t) == LET s == t[1] IN
    /\ thread[t].pc = "idle" /\ queue[s] # <<>>
    /\ Goto(t, "execute", Head(queue[s]))
    /\ queue' = [queue EXCEPT ![s] = Tail(@)]
    /\ OnlyThread /\ UNCHANGED output

Exit(t) == /\ thread[t].pc = "idle" /\ t[1] \in stopped /\ queue[t[1]] = <<>>
           /\ Goto(t, "exited", NoCommand)
           /\ OnlyThread /\ UNCHANGED <<queue, output>>

Executes(t, op) == thread[t].pc = "execute" /\ thread[t].cmd.op = op

\* A command that forwards its payload, and the function that flush() runs in
\* all threads: NEXT_THREAD_POOL must be set, its lock is taken for reading, and
\* submit asserts that the pool has not expired.
Forward(t) == LET next == t[1] + 1 IN
    /\ Executes(t, "forward") \/ Executes(t, "flush")
    /\ IF ~thread[t].local THEN Goto(t, "panicked", NoCommand)
       ELSE /\ ~WriteLocked(next)
            /\ IF next \in expired THEN Goto(t, "panicked", NoCommand)
               ELSE IF Executes(t, "forward") THEN Goto(t, "submit", thread[t].cmd)
               ELSE thread' = [thread EXCEPT
                      ![t].pc = "submit",
                      ![t].cmd = Command("flush", thread[t].collected),
                      ![t].collected = {}]
    /\ OnlyThread /\ UNCHANGED <<queue, output>>

\* The submission succeeds; flush's function then waits on the barrier.
Forwarded(t) == LET next == t[1] + 1  cmd == thread[t].cmd IN
    /\ thread[t].pc = "submit"
    /\ Submit(next, Command(Stages[next].does, cmd.items))
    /\ Goto(t, IF cmd.op = "flush" THEN "barrier" ELSE "idle", NoCommand)
    /\ OnlyThread /\ UNCHANGED output

\* The function of set_thread_local.
SetThreadLocal(t) ==
    /\ Executes(t, "set_thread_local")
    /\ thread' = [thread EXCEPT ![t].local = TRUE, ![t].pc = "barrier",
                                ![t].cmd = NoCommand]
    /\ OnlyThread /\ UNCHANGED <<queue, output>>

Collect(t) ==
    /\ Executes(t, "collect")
    /\ thread' = [thread EXCEPT ![t].collected = @ \cup thread[t].cmd.items,
                                ![t].pc = "idle", ![t].cmd = NoCommand]
    /\ OnlyThread /\ UNCHANGED <<queue, output>>

Outputs(items) ==
    output' = [i \in 1 .. Items |-> output[i] + IF i \in items THEN 1 ELSE 0]

\* fetch()'s function moves what the thread has collected to the result set.
Fetch(t) ==
    /\ Executes(t, "fetch")
    /\ Outputs(thread[t].collected)
    /\ thread' = [thread EXCEPT ![t].collected = {}, ![t].pc = "barrier",
                                ![t].cmd = NoCommand]
    /\ OnlyThread /\ UNCHANGED queue

\* The single-pool examples print; one of them needs its thread-local set.
Prints(t) ==
    /\ Executes(t, "print") \/ Executes(t, "print_config")
    /\ IF Executes(t, "print") \/ thread[t].local
       THEN Outputs(thread[t].cmd.items) /\ Goto(t, "idle", NoCommand)
       ELSE UNCHANGED output /\ Goto(t, "panicked", NoCommand)
    /\ OnlyThread /\ UNCHANGED queue

\* The first write of a thread creates the file, which empties it.
FileHas(t, items) ==
    output' = [i \in 1 .. Items |->
                 (IF thread[t].opened THEN output[i] ELSE 0)
                 + IF i \in items THEN 1 ELSE 0]

Write(t) == /\ Executes(t, "write")
            /\ FileHas(t, thread[t].cmd.items)
            /\ thread' = [thread EXCEPT ![t].opened = TRUE, ![t].pc = "idle",
                                        ![t].cmd = NoCommand]
            /\ OnlyThread /\ UNCHANGED queue

\* Creating the file fails, or writing after some of the payload; a file that was
\* created in the same call is not kept in RESULT_FILE.
WriteFails(t) ==
    /\ Executes(t, "write")
    /\ \/ ~thread[t].opened /\ UNCHANGED output
       \/ \E part \in SUBSET thread[t].cmd.items :
             part # thread[t].cmd.items /\ FileHas(t, part)
    /\ thread' = [thread EXCEPT ![t].failed = TRUE, ![t].pc = "idle",
                                ![t].cmd = NoCommand]
    /\ OnlyThread /\ UNCHANGED queue

Work(t) == \/ Take(t)           \/ Exit(t)    \/ Forward(t) \/ Forwarded(t)
           \/ SetThreadLocal(t) \/ Collect(t) \/ Fetch(t)
           \/ Prints(t)         \/ Write(t)   \/ WriteFails(t)

-------------------------------------------------------------------------------
(* Main.                                                                   *)

MainAt(place) == main' = [main EXCEPT !.at = place, !.n = 0]
NextStep == main' = [main EXCEPT !.step = @ + 1, !.at = "lock", !.n = 0]

\* The lock is taken, for writing, and the call begins: submit asserts that the
\* pool has not expired, shutdown() makes it expire.
Lock == /\ main.at = "lock" /\ ~ScriptEnded
        /\ ~ReadLocked(Here)
        /\ IF Op = "shutdown"
           THEN MainAt("drain") /\ expired' = expired \cup {Here}
           ELSE /\ MainAt(IF Here \in expired THEN "failed" ELSE "submit")
                /\ UNCHANGED expired
        /\ UNCHANGED <<program, queue, stopped, thread, output>>

OnlyMain == UNCHANGED <<program, expired, thread, output>>

\* One item is fed and the lock released.
FeedItem == /\ main.at = "submit" /\ Op = "feed"
            /\ Submit(Here, Command(Stages[Here].does, {main.fed + 1}))
            /\ main' = [main EXCEPT !.fed = @ + 1, !.at = "lock",
                                    !.step = IF main.fed + 1 = Items THEN @ + 1 ELSE @]
            /\ OnlyMain /\ UNCHANGED stopped

\* The source file cannot be downloaded, opened or read: main returns the error.
ReadFails == /\ main.at = "lock" /\ Op = "feed" /\ program = "read_process_write"
             /\ MainAt("failed")
             /\ OnlyMain /\ UNCHANGED <<queue, stopped>>

\* in_all_threads: a command for every thread, then the barrier.
SubmitRound == /\ main.at = "submit" /\ Op \in Rounds
               /\ Submit(Here, Command(Op, {}))
               /\ main' = [main EXCEPT !.n = @ + 1,
                             !.at = IF main.n + 1 = Stages[Here].tasks
                                    THEN "barrier" ELSE @]
               /\ OnlyMain /\ UNCHANGED stopped

\* Main and every thread have reached the barrier and go on.
RoundEnds == /\ main.at = "barrier"
             /\ \A t \in Workers(Here) : thread[t].pc = "barrier"
             /\ thread' = [t \in Threads |-> IF t[1] = Here
                             THEN [thread[t] EXCEPT !.pc = "idle"] ELSE thread[t]]
             /\ NextStep
             /\ UNCHANGED <<program, queue, expired, stopped, output>>

\* shutdown: the queue is empty and the pool is stopped, but its threads may still
\* be executing.
Drained == /\ main.at = "drain" /\ queue[Here] = <<>>
           /\ stopped' = stopped \cup {Here}
           /\ MainAt("join")
           /\ OnlyMain /\ UNCHANGED queue

\* Mutant: a thread that has nothing to do any more need not be waited for.
NotExecuting(t) == thread[t].pc \in {"idle", "submit", "exited", "panicked"}

Terminated(t) == thread[t].pc \in {"exited", "panicked"}

\* join: the threads from last to first; the default join_error_handler panics
\* when one has failed.
Join == LET tasks == Stages[Here].tasks
            t == <<Here, tasks - main.n>>
        IN /\ main.at = "join" /\ Terminated(t)
           /\ IF thread[t].failed \/ thread[t].pc = "panicked" THEN MainAt("failed")
              ELSE IF main.n + 1 = tasks THEN NextStep
              ELSE main' = [main EXCEPT !.n = @ + 1]
           /\ OnlyMain /\ UNCHANGED <<queue, stopped>>

\* Most examples end by comparing what came out with what went in.
Compares == program \in {"pipeline", "flush", "fetch"}

Return == /\ main.at = "lock" /\ ScriptEnded
          /\ MainAt(IF Compares /\ (\E i \in 1 .. Items : output[i] = 0)
                    THEN "failed" ELSE "done")
          /\ OnlyMain /\ UNCHANGED <<queue, stopped>>

Main == \/ Lock      \/ FeedItem \/ ReadFails \/ SubmitRound
        \/ RoundEnds \/ Drained  \/ Join      \/ Return

\* The process ends with main.
Next == /\ ~Ended
        /\ Main \/ \E t \in Threads : Work(t)

Spec == Init /\ [][Next]_vars

\* Main and every thread keep running.
Places == (1 .. 3) \X (1 .. Many)

Fairness == /\ WF_vars(~Ended /\ Main)
            /\ \A t \in Places : WF_vars(~Ended /\ t \in Threads /\ Work(t))

FairSpec == Spec /\ Fairness
-------------------------------------------------------------------------------
(* Properties.                                                             *)

Commands == [op : {"none", "print", "print_config", "forward", "collect", "write"}
                  \cup Rounds,
             items : SUBSET (1 .. Items)]

MainStates ==
    [step : 1 .. Len(Script) + 1,
     at : {"lock", "submit", "barrier", "drain", "join", "done", "failed"},
     n : 0 .. Many, fed : 0 .. Items]

ThreadStates ==
    [pc : {"idle", "execute", "submit", "barrier", "exited", "panicked"},
     cmd : Commands, local : BOOLEAN, collected : SUBSET (1 .. Items),
     opened : BOOLEAN, failed : BOOLEAN]

\* Type invariant: the shape of the state, and that no queue outgrows its capacity.
TypeOK ==
    /\ program \in DOMAIN Examples
    /\ main \in MainStates
    /\ queue \in [1 .. NStages -> Seq(Commands)]
    /\ \A s \in 1 .. NStages : Len(queue[s]) <= QueueSize
    /\ stopped \subseteq expired /\ expired \subseteq 1 .. NStages
    /\ thread \in [Threads -> ThreadStates]
    /\ output \in [1 .. Items -> Nat]

\* How many times item i exists: in queues, in the hands of a thread or in its
\* thread-local storage, and in the output.
Copies(i) ==
    Cardinality({p \in (1 .. NStages) \X (1 .. QueueSize) :
                   p[2] <= Len(queue[p[1]]) /\ i \in queue[p[1]][p[2]].items})
    + Cardinality({t \in Threads : i \in thread[t].cmd.items})
    + Cardinality({t \in Threads : i \in thread[t].collected})
    + output[i]

\* Unless a write has failed, every item that main has fed exists exactly once at
\* any moment, wherever in the pipeline it is: handing over from one pool to the
\* next, collecting and flushing neither lose nor duplicate it, and no thread
\* empties the file another one has written to.
Conserved == (\A t \in Threads : ~thread[t].failed)
                 => \A i \in 1 .. main.fed : Copies(i) = 1

\* Once main is past shutdown() of a stage, which CompletePending and join make of
\* it, that stage "finished processing the last command", as main's comments say:
\* its queue is empty, its threads have ended well, and nothing is forgotten in
\* their thread-local storage.
StageFinished ==
    \A k \in 1 .. main.step - 1 :
        LET s == Script[k].stage IN
        Script[k].op = "shutdown" =>
            /\ queue[s] = <<>>
            /\ \A t \in Workers(s) : /\ thread[t].pc = "exited" /\ ~thread[t].failed
                                     /\ thread[t].collected = {}

\* No command submits to a pool that has expired, or before its thread has been
\* told which pool is the next.
NobodyPanics == \A t \in Threads : thread[t].pc # "panicked"

\* When main has gone through its whole script, every item is in the output
\* exactly once: the examples' final assertion holds, and a failed write cannot
\* go unnoticed, because join has then stopped main before.
Complete == ScriptEnded => \A i \in 1 .. Items : output[i] = 1

\* Every example ends, with or without an error: full queues, locks held while
\* waiting for room, and barriers never block one another for ever.
Finishes == <>Ended
===============================================================================
