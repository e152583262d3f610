------------------------------ MODULE ThreadPool ------------------------------
(***************************************************************************)
(* src/thread_pool.rs: a fixed set of worker threads that take commands    *)
(* from one blocking bounded queue, and the threads that own or borrow the *)
(* pool: they submit commands, run a function in all threads, shut the     *)
(* pool down and join it.                                                  *)
(*                                                                         *)
(* The queue is used here as BoundedQueue promises it: an enqueue without  *)
(* a timeout takes effect in one step when there is room, a dequeue when   *)
(* there is an element, wait_empty when there is none.                     *)
(*                                                                         *)
(* submit, unchecked_submit, try_submit and in_all_threads borrow the pool *)
(* (&self) and may run together; shutdown and join borrow it exclusively   *)
(* (&mut self): the Rust compiler, or the RwLock of the examples, keeps    *)
(* every other call out while one of them runs.                            *)
(***************************************************************************)
EXTENDS Integers, Sequences, FiniteSets

CONSTANTS Tasks,          \* number of worker threads (with_tasks)
          QueueSize,      \* capacity of the queue (with_queue_size)
          ShutdownMode,   \* "Immediate" or "CompletePending"
          HandlerPanics,  \* whether join_error_handler panics, as the default does
          Clients,        \* threads that hold a reference to the pool
          Jobs,           \* the users' commands, each one Box<dyn Command>
          Rounds,         \* the calls of in_all_threads and in_all_threads_mut
          MutRounds,      \* those of in_all_threads_mut
          Failures,       \* what user code may do besides Ok: "err", "panic"
          ShutdownAgain,  \* whether shutdown may be called on an expired pool
          Start,          \* names the start barrier of ThreadPool::new
          Empty,          \* EmptyCommand
          None

ASSUME PoolAssumption ==
    /\ Tasks \in Nat
    /\ QueueSize \in Nat \ {0}
    /\ ShutdownMode \in {"Immediate", "CompletePending"}
    /\ HandlerPanics \in BOOLEAN /\ ShutdownAgain \in BOOLEAN
    /\ MutRounds \subseteq Rounds
    /\ Failures \subseteq {"err", "panic"}
    /\ Jobs \cap Rounds = {}
    /\ {Start, Empty, None} \cap (Jobs \cup Rounds) = {}
    /\ Start # Empty /\ Start # None /\ Empty # None

Workers == 1 .. Tasks

\* What the queue holds: users' commands, one RunInAllThreadsCommand per worker
\* for every round, and the EmptyCommands of shutdown.
Commands == Jobs \cup Rounds \cup {Empty}

\* Barrier::new(tasks + 1): one participant per worker and the calling thread,
\* which is participant 0.
Barriers == Rounds \cup {Start}
Participants == 0 .. Tasks

VARIABLES queue,     \* the queue's elements, oldest first
          stopped,   \* stopped: AtomicBool
          expired,   \* expired: bool
          worker,    \* worker[w]: where thread w is in its loop
          cmd,       \* cmd[w]: the command w is executing, or the barrier it is at
          failure,   \* failure[w]: the job whose error r holds, or None for Ok
          arrived,   \* arrived[b]: who has called wait() on barrier b
          client,    \* client[c]: the call client c has in progress
          threads,   \* threads: Vec<JoinHandle>, here handles 1 .. threads
          reported,  \* workers whose error was handed to join_error_handler
          \* history
          accepted,  \* jobs that were enqueued
          finished,  \* jobs whose execute() has returned or panicked
          promised,  \* jobs that were accepted when shutdown was called
          ranIn,     \* ranIn[r]: workers in which round r's function has run
          before,    \* before[r]: jobs that were accepted when round r was called
          late,      \* workers that took a command after `stopped` was set
          erred      \* workers in which a command returned Err or panicked

workerVars == <<worker, cmd, failure>>
clientVars == <<client, threads, reported>>
history    == <<promised, ranIn, before>>
vars == <<queue, stopped, expired, workerVars, arrived, clientVars,
          accepted, finished, history, late, erred>>

Idle == [op |-> "idle", arg |-> None, n |-> 0]

Init == /\ queue = <<>>
        /\ stopped = FALSE /\ expired = FALSE
        /\ worker = [w \in Workers |-> "start"]
        /\ cmd = [w \in Workers |-> Start]
        /\ failure = [w \in Workers |-> None]
        /\ arrived = [b \in Barriers |-> {}]
        /\ client = [c \in Clients |-> Idle]
        /\ threads = Tasks
        /\ reported = {}
        /\ accepted = {} /\ finished = {} /\ promised = {} /\ late = {}
        /\ erred = {}
        /\ ranIn = [r \in Rounds |-> {}]
        /\ before = [r \in Rounds |-> {}]

-------------------------------------------------------------------------------
(* The queue, as BoundedQueue promises it.                                 *)

HasRoom == Len(queue) < QueueSize

\* Mutant: the queue is not bounded.
EnqueueAlways(command) == queue' = Append(queue, command)

\* Mutant: a full queue makes room by dropping its oldest element.
EnqueueOverwrites(command) ==
    queue' = Append(IF HasRoom THEN queue ELSE Tail(queue), command)

Enqueue(command) == HasRoom /\ queue' = Append(queue, command)

-------------------------------------------------------------------------------
(* std::sync::Barrier: whoever has arrived goes on once all have.          *)

Arrive(b, p) == arrived' = [arrived EXCEPT ![b] = @ \cup {p}]

\* Mutant: Barrier::new(tasks).
ReleasedEarly(b) == Cardinality(arrived[b]) >= Tasks

Released(b) == arrived[b] = Participants

-------------------------------------------------------------------------------
(* Worker threads.                                                         *)

Goto(w, pc, command) == /\ worker' = [worker EXCEPT ![w] = pc]
                        /\ cmd' = [cmd EXCEPT ![w] = command]

OnlyWorker == UNCHANGED <<stopped, expired, clientVars, accepted, history>>

\* w only moves on.
Moves(w, pc, command) ==
    /\ Goto(w, pc, command)
    /\ OnlyWorker
    /\ UNCHANGED <<queue, failure, arrived, finished, late, erred>>

\* A freshly spawned thread waits on the start barrier.
Begin(w) == /\ worker[w] = "start"
            /\ Arrive(Start, w)
            /\ Goto(w, "barrier", Start)
            /\ OnlyWorker
            /\ UNCHANGED <<queue, failure, finished, late, erred>>

LeaveBarrier(w) == /\ worker[w] = "barrier"
                   /\ Released(cmd[w])
                   /\ Moves(w, "loop", None)

\* Mutant: a stopped worker goes on while there are commands.
TestStoppedAndDrained(w) ==
    /\ worker[w] = "loop"
    /\ Moves(w, IF stopped /\ queue = <<>> THEN "exited" ELSE "dequeue", None)

\* while !stopped.load(SeqCst)
TestStopped(w) == /\ worker[w] = "loop"
                  /\ Moves(w, IF stopped THEN "exited" ELSE "dequeue", None)

\* Mutant: a stopped worker drops the command it has just taken.
DequeueDrops(w) ==
    /\ worker[w] = "dequeue"
    /\ queue # <<>>
    /\ queue' = Tail(queue)
    /\ Goto(w, IF stopped THEN "loop" ELSE "execute",
               IF stopped THEN None ELSE Head(queue))
    /\ OnlyWorker
    /\ UNCHANGED <<failure, arrived, finished, late, erred>>

\* Mutant: the command that came last is taken first.
DequeueNewest(w) ==
    /\ worker[w] = "dequeue"
    /\ queue # <<>>
    /\ queue' = SubSeq(queue, 1, Len(queue) - 1)
    /\ Goto(w, "execute", queue[Len(queue)])
    /\ late' = IF stopped THEN late \cup {w} ELSE late
    /\ OnlyWorker
    /\ UNCHANGED <<failure, arrived, finished, erred>>

\* queue.dequeue()
Dequeue(w) == /\ worker[w] = "dequeue"
              /\ queue # <<>>
              /\ queue' = Tail(queue)
              /\ Goto(w, "execute", Head(queue))
              /\ late' = IF stopped THEN late \cup {w} ELSE late
              /\ OnlyWorker
              /\ UNCHANGED <<failure, arrived, finished, erred>>

\* Mutant: r holds the latest result, `r = c.execute()`.
EndsWithLatest(w, outcome) ==
    \/ /\ outcome \in {"ok", "err"}
       /\ Goto(w, "loop", None)
       /\ failure' = [failure EXCEPT ![w] = IF outcome = "ok" THEN None ELSE cmd[w]]
    \/ outcome = "panic" /\ Goto(w, "panicked", cmd[w]) /\ UNCHANGED failure

\* How execute() of user code ends: Ok, an Err that replaces the one r holds, or
\* a panic that unwinds the thread.
Ends(w, outcome) ==
    \/ outcome = "ok"    /\ Goto(w, "loop", None) /\ UNCHANGED failure
    \/ outcome = "err"   /\ Goto(w, "loop", None)
                         /\ failure' = [failure EXCEPT ![w] = cmd[w]]
    \/ outcome = "panic" /\ Goto(w, "panicked", cmd[w]) /\ UNCHANGED failure

ExecuteJob(w) == /\ worker[w] = "execute" /\ cmd[w] \in Jobs
                 /\ \E outcome \in {"ok"} \cup Failures :
                       /\ Ends(w, outcome)
                       /\ erred' = IF outcome = "ok" THEN erred ELSE erred \cup {w}
                 /\ finished' = finished \cup {cmd[w]}
                 /\ OnlyWorker
                 /\ UNCHANGED <<queue, arrived, late>>

ExecuteEmpty(w) == /\ worker[w] = "execute" /\ cmd[w] = Empty
                   /\ Moves(w, "loop", None)

\* Mutant: the mutex stays locked while the thread waits on the barrier.
LockedAtBarrier(r) ==
    \E w \in Workers : worker[w] \in {"in_f", "barrier"} /\ cmd[w] = r

\* RunMutInAllThreadsCommand locks the mutex around f; it is poisoned once f has
\* panicked, and then lock().unwrap() panics too.
Locked(r) == \E w \in Workers : worker[w] = "in_f" /\ cmd[w] = r
Poisoned(r) == \E w \in Workers : worker[w] = "panicked" /\ cmd[w] = r

EnterF(w) == /\ worker[w] = "execute" /\ cmd[w] \in Rounds
             /\ cmd[w] \in MutRounds => ~Locked(cmd[w])
             /\ IF cmd[w] \in MutRounds /\ Poisoned(cmd[w])
                THEN /\ Goto(w, "panicked", cmd[w])
                     /\ erred' = erred \cup {w}
                ELSE /\ Goto(w, "in_f", cmd[w])
                     /\ UNCHANGED erred
             /\ OnlyWorker
             /\ UNCHANGED <<queue, failure, arrived, finished, late>>

\* f returns, the mutex is released, and the thread waits on the barrier ...
LeaveF(w) == /\ worker[w] = "in_f"
             /\ ranIn' = [ranIn EXCEPT ![cmd[w]] = @ \cup {w}]
             /\ Arrive(cmd[w], w)
             /\ Goto(w, "barrier", cmd[w])
             /\ UNCHANGED <<queue, stopped, expired, failure, clientVars,
                            accepted, finished, promised, before, late, erred>>

\* ... or f panics and the thread never gets there.
PanicInF(w) == /\ worker[w] = "in_f"
               /\ "panic" \in Failures
               /\ Goto(w, "panicked", cmd[w])
               /\ erred' = erred \cup {w}
               /\ OnlyWorker
               /\ UNCHANGED <<queue, failure, arrived, finished, late>>

Work(w) == \/ Begin(w)        \/ LeaveBarrier(w) \/ TestStopped(w)
           \/ Dequeue(w)      \/ ExecuteJob(w)   \/ ExecuteEmpty(w)
           \/ EnterF(w)       \/ LeaveF(w)       \/ PanicInF(w)

-------------------------------------------------------------------------------
(* Threads that use the pool.                                              *)

OnlyClient == UNCHANGED <<workerVars, finished, late, erred>>

\* Nothing but the calling thread's own state, and what else the action says.
OnlyPool == UNCHANGED <<stopped, expired, arrived, threads, reported, accepted,
                        history>>
OnlyCall == OnlyClient /\ OnlyPool /\ UNCHANGED queue

At(c, op) == client[c].op = op

Call(c, op, arg) == client' = [client EXCEPT ![c] =
                                 [op |-> op, arg |-> arg, n |-> 0]]

\* Another submission inside the same call.
Again(c) == client' = [client EXCEPT ![c].n = @ + 1]

ReturnTo(c, pc) == client' = [client EXCEPT ![c] = [Idle EXCEPT !.op = pc]]

\* ThreadPool::new has spawned the threads; it returns when all have started.
New == /\ 0 \notin arrived[Start]
       /\ Arrive(Start, 0)
       /\ OnlyClient
       /\ UNCHANGED <<queue, stopped, expired, clientVars, accepted, history>>

Exclusive == {"wait_empty", "stop", "shutdown", "join"}

\* c makes a call with &self, or with &mut self.
Borrows(c) == /\ At(c, "idle") /\ Released(Start)
              /\ \A d \in Clients : client[d].op \notin Exclusive
BorrowsMut(c) == /\ At(c, "idle") /\ Released(Start)
                 /\ \A d \in Clients : client[d].op \in {"idle", "panicked"}

\* A job belongs to whoever submits it until it is accepted.
Offered(j) == j \in accepted \/ \E d \in Clients : client[d].arg = j

\* The calls that submit a user's command.
Submits == {"submit", "try_submit", "unchecked_submit"}

\* try_submit, and submit which is try_submit with Duration::MAX, assert that
\* the pool has not expired; unchecked_submit does not.
CallSubmit(c, j, op) ==
    /\ Borrows(c) /\ ~Offered(j)
    /\ IF expired /\ op # "unchecked_submit"
       THEN ReturnTo(c, "panicked") ELSE Call(c, op, j)
    /\ OnlyCall

Submit(c) == /\ client[c].op \in Submits
             /\ Enqueue(client[c].arg)
             /\ accepted' = accepted \cup {client[c].arg}
             /\ ReturnTo(c, "idle")
             /\ OnlyClient
             /\ UNCHANGED <<stopped, expired, arrived, threads, reported, history>>

\* The timeout of try_submit has elapsed: the command goes back to the caller.
SubmitGivesUp(c) == /\ At(c, "try_submit")
                    /\ ReturnTo(c, "idle")
                    /\ OnlyCall

\* in_all_threads and in_all_threads_mut submit one command per worker, then
\* wait on the barrier they share with those commands.
Called(r) == \/ 0 \in arrived[r]
             \/ \E d \in Clients : client[d].arg = r

CallInAllThreads(c, r) ==
    /\ Borrows(c) /\ ~Called(r)
    /\ IF expired /\ Tasks > 0
       THEN ReturnTo(c, "panicked") /\ UNCHANGED before
       ELSE /\ Call(c, "in_all_threads", r)
            /\ before' = [before EXCEPT ![r] = accepted]
    /\ OnlyClient
    /\ UNCHANGED <<queue, stopped, expired, arrived, threads, reported,
                   accepted, promised, ranIn>>

SubmitRound(c) == /\ At(c, "in_all_threads") /\ client[c].n < Tasks
                  /\ Enqueue(client[c].arg)
                  /\ Again(c)
                  /\ OnlyClient /\ OnlyPool

WaitRound(c) == /\ At(c, "in_all_threads") /\ client[c].n = Tasks
                /\ 0 \notin arrived[client[c].arg]
                /\ Arrive(client[c].arg, 0)
                /\ OnlyClient
                /\ UNCHANGED <<queue, stopped, expired, clientVars, accepted,
                               history>>

InAllThreadsReturns(c) ==
    /\ At(c, "in_all_threads") /\ Released(client[c].arg)
    /\ ReturnTo(c, "idle")
    /\ OnlyCall

\* Mutant: CompletePending does not wait.
ShutdownAtOnce(c) == /\ BorrowsMut(c) /\ (expired => ShutdownAgain)
                     /\ expired' = TRUE
                     /\ promised' = IF expired THEN promised ELSE accepted
                     /\ Call(c, "stop", None)
                     /\ OnlyClient
                     /\ UNCHANGED <<queue, stopped, arrived, threads, reported,
                                    accepted, ranIn, before>>

\* shutdown
Shutdown(c) == /\ BorrowsMut(c) /\ (expired => ShutdownAgain)
               /\ expired' = TRUE
               /\ promised' = IF expired THEN promised ELSE accepted
               /\ Call(c, IF ShutdownMode = "Immediate"
                          THEN "stop" ELSE "wait_empty", None)
               /\ OnlyClient
               /\ UNCHANGED <<queue, stopped, arrived, threads, reported,
                              accepted, ranIn, before>>

\* Mutant: wait_empty with a timeout, whose result is ignored.
WaitEmptyForAWhile(c) == /\ At(c, "wait_empty")
                         /\ Call(c, "stop", None)
                         /\ OnlyCall

\* queue.wait_empty(Duration::MAX)
WaitEmpty(c) == /\ At(c, "wait_empty")
                /\ queue = <<>>
                /\ Call(c, "stop", None)
                /\ OnlyCall

\* stopped.store(true, SeqCst)
StoreStopped(c) == /\ At(c, "stop")
                   /\ stopped' = TRUE
                   /\ Call(c, "shutdown", None)
                   /\ OnlyClient
                   /\ UNCHANGED <<queue, expired, arrived, threads, reported,
                                  accepted, history>>

\* Mutant: submit, which asserts that the pool has not expired.
SubmitEmptyChecked(c) == /\ At(c, "shutdown") /\ client[c].n < Tasks
                         /\ ReturnTo(c, "panicked")
                         /\ OnlyCall

SubmitEmpty(c) == /\ At(c, "shutdown") /\ client[c].n < Tasks
                  /\ Enqueue(Empty)
                  /\ Again(c)
                  /\ OnlyClient /\ OnlyPool

\* Mutant: one empty command too few.
ShutdownReturnsEarly(c) == /\ At(c, "shutdown") /\ client[c].n >= Tasks - 1
                           /\ ReturnTo(c, "idle")
                           /\ OnlyCall

ShutdownReturns(c) == /\ At(c, "shutdown") /\ client[c].n = Tasks
                      /\ ReturnTo(c, "idle")
                      /\ OnlyCall

\* join pops the handles from the end of the vector, waits for each thread, and
\* hands the error of a thread that failed to join_error_handler.
Terminated(w) == worker[w] \in {"exited", "panicked"}
Failed(w) == worker[w] = "panicked" \/ failure[w] # None

Join(c) == /\ BorrowsMut(c)
           /\ Call(c, "join", None)
           /\ OnlyCall

\* Mutant: join drains the vector, so that a handler that panics drops the handles
\* that are left.
JoinThreadDrains(c) ==
    /\ At(c, "join") /\ threads > 0
    /\ Terminated(threads)
    /\ threads' = IF Failed(threads) /\ HandlerPanics THEN 0 ELSE threads - 1
    /\ IF Failed(threads)
       THEN /\ reported' = reported \cup {threads}
            /\ IF HandlerPanics THEN ReturnTo(c, "panicked") ELSE UNCHANGED client
       ELSE UNCHANGED <<client, reported>>
    /\ OnlyClient
    /\ UNCHANGED <<queue, stopped, expired, arrived, accepted, history>>

JoinThread(c) == /\ At(c, "join") /\ threads > 0
                 /\ Terminated(threads)
                 /\ threads' = threads - 1
                 /\ IF Failed(threads)
                    THEN /\ reported' = reported \cup {threads}
                         /\ IF HandlerPanics THEN ReturnTo(c, "panicked")
                                             ELSE UNCHANGED client
                    ELSE UNCHANGED <<client, reported>>
                 /\ OnlyClient
                 /\ UNCHANGED <<queue, stopped, expired, arrived, accepted, history>>

\* What join returns, Err if it has reported anything, is left out.
JoinReturns(c) == /\ At(c, "join") /\ threads = 0
                  /\ ReturnTo(c, "idle")
                  /\ OnlyCall

\* What c does to get on with the call it has in progress ...
Proceed(c) == \/ Submit(c)      \/ SubmitGivesUp(c)
              \/ SubmitRound(c) \/ WaitRound(c)    \/ InAllThreadsReturns(c)
              \/ WaitEmpty(c)   \/ StoreStopped(c) \/ SubmitEmpty(c)
              \/ ShutdownReturns(c)
              \/ JoinThread(c)  \/ JoinReturns(c)

\* ... and the calls it can make.
Invoke(c) == \/ \E j \in Jobs, op \in Submits : CallSubmit(c, j, op)
             \/ \E r \in Rounds : CallInAllThreads(c, r)
             \/ Shutdown(c)
             \/ Join(c)

Next == \/ New
        \/ \E w \in Workers : Work(w)
        \/ \E c \in Clients : Proceed(c) \/ Invoke(c)

Spec == Init /\ [][Next]_vars

\* Every thread keeps running: a worker that can take a step does, user code
\* returns, and a client gets on with its call.  No client is obliged to call.
Fairness == /\ WF_vars(New)
            /\ \A w \in Workers : WF_vars(Work(w))
            /\ \A c \in Clients : WF_vars(Proceed(c))

FairSpec == Spec /\ Fairness
-------------------------------------------------------------------------------
(* Properties.                                                             *)

\* What a call in progress holds.
ClientStates == [op : {"idle", "in_all_threads", "panicked"} \cup Submits
                      \cup Exclusive,
                 arg : Jobs \cup Rounds \cup {None},
                 n : 0 .. Tasks]

ClientOK == /\ client \in [Clients -> ClientStates]
            /\ \A c \in Clients :
                 /\ client[c].op \in Submits => client[c].arg \in Jobs
                 /\ At(c, "in_all_threads") => client[c].arg \in Rounds

\* Type invariant: the shape of the state, and what a thread holds where.
TypeOK ==
    /\ queue \in Seq(Commands) /\ Len(queue) <= QueueSize
    /\ stopped \in BOOLEAN /\ expired \in BOOLEAN
    /\ worker \in [Workers -> {"start", "barrier", "loop", "dequeue", "execute",
                               "in_f", "exited", "panicked"}]
    /\ cmd \in [Workers -> Commands \cup {Start, None}]
    /\ \A w \in Workers :
         /\ worker[w] = "barrier" => cmd[w] \in Barriers
         /\ worker[w] = "execute" => cmd[w] \in Commands
         /\ worker[w] = "in_f" => cmd[w] \in Rounds
         /\ worker[w] = "panicked" => cmd[w] \in Jobs \cup Rounds
    /\ failure \in [Workers -> Jobs \cup {None}]
    /\ arrived \in [Barriers -> SUBSET Participants]
    /\ ClientOK
    /\ threads \in 0 .. Tasks
    /\ reported \subseteq Workers /\ late \subseteq Workers /\ erred \subseteq Workers
    /\ accepted \subseteq Jobs /\ finished \subseteq Jobs
    /\ promised \subseteq accepted
    /\ ranIn \in [Rounds -> SUBSET Workers]
    /\ before \in [Rounds -> SUBSET Jobs]

\* A job that was accepted is in exactly one place, once: in the queue, in the
\* hands of one worker, or done.  It is neither lost nor executed twice.
NothingLost ==
    \A j \in accepted :
        Cardinality({i \in 1 .. Len(queue) : queue[i] = j})
        + Cardinality({w \in Workers : worker[w] = "execute" /\ cmd[w] = j})
        + (IF j \in finished THEN 1 ELSE 0) = 1

Queued(j) == \E i \in 1 .. Len(queue) : queue[i] = j
Executing(j) == \E w \in Workers : worker[w] = "execute" /\ cmd[w] = j

\* The life of a job, and who is ahead of whom, as Executor sees them.
StatusOf(j) == IF Executing(j) THEN "running"
               ELSE IF j \in finished THEN "done"
               ELSE IF j \in accepted THEN "pending" ELSE "new"

Ahead(i, j) == \E m, n \in 1 .. Len(queue) :
                    m < n /\ queue[m] = i /\ queue[n] = j

Promise == INSTANCE Executor WITH
               status <- [j \in Jobs |-> StatusOf(j)],
               ahead  <- {p \in Jobs \X Jobs : Ahead(p[1], p[2])},
               phase  <- IF stopped /\ threads = 0 THEN "joined"
                         ELSE IF expired THEN "closing" ELSE "open"

\* The pool implements Executor: jobs start in the order in which they were
\* accepted, at most Tasks at a time and once each, and a pool that was shut down
\* and joined has kept what its shutdown mode promises, whoever called what in the
\* meantime and however commands ended.
ImplementsExecutor == Promise!Spec

\* CompletePending: once shutdown is past waiting and every thread has been
\* joined, every job that had been accepted when shutdown was called has been
\* executed to its end, though some threads may have panicked on the way.
CompletePendingCompletes ==
    ShutdownMode = "CompletePending" /\ stopped /\ threads = 0
        => promised \subseteq finished

\* After `stopped` is set a worker takes at most one more command, be it a job
\* still in the queue or one of shutdown's empty commands: one that did is on its
\* way out and never blocks in dequeue() again.
OneMoreCommand == \A w \in late : worker[w] # "dequeue"

\* in_all_threads returns only after f has run in every thread and every job that
\* was accepted before the call is done: each of the commands it submits went to
\* a thread of its own, and none overtook an earlier job.
InAllThreadsFlushes ==
    \A r \in Rounds :
        Released(r) => ranIn[r] = Workers /\ before[r] \subseteq finished

\* The empty commands shutdown has yet to submit.
ToCome == IF \E c \in Clients : At(c, "shutdown")
          THEN Tasks - (CHOOSE n \in 0 .. Tasks :
                          \E c \in Clients : At(c, "shutdown") /\ client[c].n = n)
          ELSE 0

\* Once `stopped` is set, every worker that is blocked in dequeue() has a command
\* of its own, in the queue or about to be submitted, that will let it see
\* `stopped`: nobody is left behind asleep for join to wait for.
EveryWorkerIsWoken ==
    stopped => Cardinality({w \in Workers : worker[w] = "dequeue"})
                 <= Len(queue) + ToCome

\* A CompletePending shutdown whose queue is no smaller than the number of
\* threads never blocks once it has seen the queue empty, however the workers
\* behave: its empty commands always find room.
ShutdownHasRoom ==
    ShutdownMode = "CompletePending" /\ Tasks <= QueueSize =>
        \A c \in Clients : At(c, "shutdown") /\ client[c].n < Tasks => HasRoom

\* join hands a thread to join_error_handler exactly when some command failed or
\* panicked in it, also when commands that ran there later succeeded, or when the
\* handler has panicked for another thread and join is called again.
EveryFailureReported ==
    \A w \in Workers : w > threads => (w \in reported <=> w \in erred)

\* shutdown() returns.
ShutdownTerminates ==
    \A c \in Clients : At(c, "wait_empty") \/ At(c, "stop") \/ At(c, "shutdown")
                         ~> At(c, "idle")

\* Immediate: shutdown returns, unless it ends up before a full queue when every
\* worker has gone.  As long as one of them is there, wherever `stopped` found it,
\* the queue will have room again or the worker will go too: nothing else, and no
\* order of the empty commands and the workers' last ones, leaves shutdown waiting.
Abandoned == ~HasRoom /\ \A w \in Workers : Terminated(w)

ShutdownWaitsOnlyIfAbandoned ==
    \A c \in Clients : At(c, "stop") \/ At(c, "shutdown") ~> At(c, "idle") \/ Abandoned

\* join() of a pool that has been shut down returns, or has panicked in the
\* handler: every thread terminates.
JoinTerminates ==
    \A c \in Clients : At(c, "join") /\ expired ~> At(c, "idle") \/ At(c, "panicked")

\* A job that is accepted before the pool is shut down is executed.
JobsFinish == \A j \in Jobs : j \in accepted /\ ~expired ~> j \in finished

\* in_all_threads() returns: every thread gets to run f.
InAllThreadsTerminates ==
    \A c \in Clients : At(c, "in_all_threads") ~> At(c, "idle")

\* shutdown() returns only when the work that was pending when it was called is
\* complete, as a test that looks at the results before join() expects.
ShutdownMeansComplete ==
    [][\A c \in Clients : ShutdownReturns(c) => promised \subseteq finished]_vars
===============================================================================
