# Verification of command-executor

TLA+ models of the `command-executor` crate (a thread pool over a blocking
bounded queue), the TLC runs that check them and the TLAPS proofs about them.
Paths are relative to the crate's root; `src/blocking_queue.rs` appears in
`PROJECT.json` as `src/src/blocking_queue.rs`.

## The system

| Component | State | Operations | Hard behaviour |
|---|---|---|---|
| `BlockingQueue` (`src/blocking_queue.rs`) | a deque, two flags `empty`/`full`, two condition variables, two mutexes | `enqueue`, `try_enqueue`, `dequeue`, `try_dequeue`, `wait_empty`, and readers (`len`, `is_empty`, ...) | lost wakeups, spurious wakeups, timeouts racing notifications, flags that summarise the deque |
| `CrossbeamBlockingQueue` (`src/crossbeam_blocking_queue.rs`), the pool's default | crossbeam's lock-free `ArrayQueue` | the same | attempts and clock reads alternate; `wait_empty` reads the queue twice |
| `BlockingQueueAdapter`, `QueueType` | which of the two it holds | forwards every call | none of its own |
| `ThreadPool` (`src/thread_pool.rs`), `ShutdownMode` | the queue, worker threads and their handles, `stopped` (atomic), `expired` | `new`, `submit`, `try_submit`, `unchecked_submit`, `in_all_threads`, `in_all_threads_mut`, `set_thread_local`, `shutdown`, `join` | shutdown racing the workers, blocking on the full queue, barriers shared by calls and workers, failing and panicking commands |
| `Command` (`src/command.rs`) | - | `execute` | ends with `Ok`, `Err` or a panic |
| `ThreadPoolBuilder` | parameters | `with_*`, `build` | - |
| examples: pipelines of pools (`examples/pipeline.rs`, `read_process_write_pipeline.rs`, `flush_thread_local.rs`, `fetch_thread_local.rs`) | an `RwLock<ThreadPool>` per stage, thread-local storage in the workers, a result file or set | `main`'s script: feed, `set_next`/`set_thread_local`, `flush`, `fetch`, `shutdown` and `join` stage by stage; commands that submit to the next stage | backpressure, locks held while waiting for room, order of the shutdowns, thread-local storage that has to be flushed, failing writes |
| examples: single pools (`examples/thread_pool.rs`, `thread_local.rs`) | one pool | feed, `set_thread_local`, `shutdown`, `join` | thread-local storage set before it is used |

Interaction. Clients call the pool; the pool and its workers meet only in the
queue, in the flag `stopped`, in the barriers (one for the start, one per call of
`in_all_threads`), and in `join`. The queue's callers meet in its two mutexes
and two condition variables. Nothing is persisted, no messages are sent over a
network; what is hard here is the interleaving of threads.

What makes each component correct:

* a queue: calls are atomic, FIFO, bounded; a blocking call waits only for the
  reason its documentation gives (progress);
* the pool: an accepted command is executed once or left in the queue, never
  lost; `CompletePending` executes everything accepted before `shutdown`;
  `in_all_threads` runs `f` once in each thread after everything accepted
  earlier; after `stopped` is set every worker ends, and `shutdown` and `join`
  return; every thread in which something failed is handed to `join_error_handler`;
* a pipeline: every item that is fed is in exactly one place until it is in the
  output once; no command submits to a pool that has expired; the program ends.

## Modules

| Module | Models |
|---|---|
| `QueueCalls` | the calls a thread can have in progress on a queue; a `Duration` is `"max"` (never elapses) or `"finite"` (elapses at an unpredictable moment) |
| `BoundedQueue` | the abstract promise: a bounded FIFO on which every call takes effect in one step, and the three progress promises of the documentation |
| `BlockingQueue` | `src/blocking_queue.rs` |
| `CrossbeamBlockingQueue` | `src/crossbeam_blocking_queue.rs` |
| `PoolQueue` | `BlockingQueue` restricted to the calls that a `ThreadPool` makes |
| `Executor` | the abstract promise of a pool: jobs start in order, at most `Tasks` at a time, once each; what a shutdown promised is done when the pool is joined |
| `ThreadPool` | `src/thread_pool.rs`, over a queue that behaves as `BoundedQueue` promises |
| `Pipeline` | the six programs of `examples/`, over pools that behave as `Executor` promises |
| `BlockingQueueProofs` | theorems about `BlockingQueue` |
| `PoolQueueProofs` | theorems about `PoolQueue` |
| `CrossbeamBlockingQueueProofs` | theorems about `CrossbeamBlockingQueue` |
| `ThreadPoolProofs` | theorems about `ThreadPool`: types, jobs, the refinement |
| `ThreadPoolShutdownProofs` | theorems about `ThreadPool`: shutdown and join |
| `ThreadPoolRoundsProofs` | theorems about `ThreadPool`: `in_all_threads` |
| `PipelineProofs` | theorems about `Pipeline`: types, panics, the end of a stage |
| `PipelineItemsProofs` | theorems about `Pipeline`: the items |
| `MCBlockingQueue`, `MCPoolQueue`, `MCCrossbeamBlockingQueue`, `MCThreadPool` | the instances TLC checks (`Pipeline` is its own) |

The layers meet in the two abstract specifications. `BlockingQueue` and
`CrossbeamBlockingQueue` implement `BoundedQueue`; `ThreadPool` uses its queue as
`BoundedQueue` describes it and implements `Executor`; `Pipeline` uses its pools as
`Executor` describes them.

Operators that a comment calls a *mutant* are not part of a specification. Each
is a plausible bug in the definition that follows it, and the property that
`PROJECT.json` pairs it with is violated when it takes that definition's place.

### BlockingQueue

Each operation locks `flags` at its start and holds it to its end except while
it is blocked in `wait_timeout`; `elements` is locked only inside. So what a
thread does between two `wait_timeout`s is one step, and no variable stands for a
mutex. `emptyCv` and `fullCv` are the sets of threads asleep in the two condition
variables; a thread that is in a call and in neither set has been woken and
competes for the mutex. From there it may find the time over (`...GivesUp`; the
code does not look at the flag again in that case), test the flag and go on, or
block again. `WaitTimesOut` is the timer, `SpuriousWakeup` what the standard
library permits. `timedOut` remembers `timeout_result.timed_out()` until the
thread has the mutex.

`len`, `is_empty`, `is_full` and `capacity` change nothing and lock `elements`
alone; they are left out. Lock poisoning cannot happen: no user code runs under
these mutexes (dropping elements aside).

### CrossbeamBlockingQueue

An iteration of a loop makes one attempt on the `ArrayQueue` and, when that has failed,
looks at the clock: two steps, between which other threads use the queue. `failed` has
the threads that are between them. Then a call with a finite timeout may give up, and
any call may go on (`Spin`), so a call may well give up beside a place or an element
that has just come. `wait_empty` looks at the queue in its loop and once more after it,
so it may return `false` having seen the queue empty, even without a timeout:
`BoundedQueue` allows that with `StopWaiting` and `Recheck`.

`AnswersWereTrue` says what remains true of the answers nevertheless: what a call
reports of the queue was so at some moment while it was in progress. For this `met`, a
history variable, has the threads during whose call the queue has been full (for an
enqueue) or empty (for the others), whoever made it so.

### PoolQueue

The queue's callers in a pool are not arbitrary: workers call `dequeue()` and never
with a timeout, clients `enqueue` or (in `try_submit`) `try_enqueue`, and only
`shutdown` calls `wait_empty`, without a timeout and while no client is in a call,
since it borrows the pool exclusively. `Allowed` says so and guards the start of each
call; everything else is `BlockingQueue`. The workers go on calling `dequeue()`: a
worker that stops calling is one more behaviour that the model has.

### ThreadPool

`worker[w]` is the place of thread `w` in `create_thread`'s closure: at the start
barrier, before the test of `stopped`, in `dequeue()`, executing, inside `f`, at
a barrier, exited or panicked. `client[c]` is the call a client has in progress
and how many submissions it has made in it. A client's `&self` calls interleave
freely; `&mut self` (`shutdown`, `join`) excludes every other call, which is what
the borrow checker or the examples' `RwLock` enforces (`Borrows`, `BorrowsMut`).
The queue is used through `BoundedQueue`'s promise: one step per enqueue,
dequeue and `wait_empty`. `accepted`, `finished`, `promised`, `ranIn`, `before`,
`late` and `erred` are history variables; no guard of the program reads them,
except that a job is submitted again only if it was not accepted, because a
submitted `Box<dyn Command>` has been moved.

Failures of user code: `"err"` is an `Err` from `execute`; `"panic"` a panic in
`execute` or in `f`. A panic in `f` of `in_all_threads_mut` poisons its mutex and
takes every worker that locks it later along. `HandlerPanics` says whether
`join_error_handler` panics, as the builder's default does; then `join` unwinds
and the remaining handles stay.

Bounds: each job and each round is used once (finite sets `Jobs`, `Rounds`);
`join` and, if `ShutdownAgain`, `shutdown` may be called any number of times.

`ImplementsExecutor` is the refinement. A job is `"new"` until it is accepted,
`"pending"` in the queue, `"running"` in a worker's hands and `"done"` when `execute`
has returned or panicked; `ahead` is the order of jobs in the queue, other commands
left out; the phase is `"closing"` once `expired` is set and `"joined"` once the pool
is stopped and has no handle left.

### Pipeline

`Examples` gives each program as data: its stages (number of threads, what their
commands do) and `main`'s script (feed, `set_thread_local`, `flush`, `fetch`,
`shutdown` with `join`). One set of actions runs all of them; `program` is chosen
in `Init`.

`main.at` is `main`'s place in the current step: about to take the pool's write
lock, submitting, at the barrier of an `in_all_threads`, waiting for the queue to be
empty, joining. A command takes the read lock of the next pool (`Forward`), checks
that it has not expired and keeps the lock until the queue has room (`Forwarded`);
the lock is what `ReadLocked` and `WriteLocked` read off the places, so no variable
stands for it. `local` is whether a thread has been told the next pool (or its
configuration), `collected` its thread-local intermediate result, `opened` whether it
has the result file open: the first write of a thread creates the file and so
empties it. A write may fail before the file is there, or after a part of its items;
the read of `read_process_write_pipeline.rs` may fail, and `main` then returns.

What the pools do is `Executor` with the places of the workers kept, because barriers,
locks and thread-local storage need them. A worker of a stopped pool ends when its
queue is empty; shutdown's empty commands, which only wake it, are left out. They need
room in the queue: `PipelineAssumption` asks for a queue no smaller than the number of
threads, the condition of `ShutdownHasRoom`, as all examples have it. Downloading,
decompression, hashing, printing and sleeping are left out; so are the sizes of
payloads, an item standing for one.

## Runs

| Run | Instance | Shows |
|---|---|---|
| `BlockingQueue_safety` | 2 producers, 2 consumers, 1 `wait_empty` caller, 2 elements, capacity 2, all timeouts | type invariant, `FlagsAgree`, `WatchersAlerted`, implements `BoundedQueue` |
| `PoolQueue_progress` | 2 clients, 2 workers, 1 owner that shuts down, capacity 2, no timeouts | no wakeup is lost (`DequeuersCovered`, `ProducersCovered`) and everyone is served |
| `PoolQueue_timed_stuck` | the same with `try_submit`, capacity 1 | **violated**: a timed call swallows a notification |
| `BlockingQueue_watcher_steals` | 2 consumers, 1 `wait_empty` caller, no timeouts | **violated**: `wait_empty` swallows a notification |
| `CrossbeamBlockingQueue` | 1 producer, 1 consumer, 1 thread that makes every kind of call, 2 elements, capacity 2, all timeouts | implements `BoundedQueue`, what a call reports was so (`AnswersWereTrue`), everyone is served |
| `ThreadPool_safety` | 2 workers, queue of 2, 2 clients, 3 jobs, 2 rounds, errors and panics, `CompletePending`, repeated shutdown | all safety properties, implements `Executor` |
| `ThreadPool_progress` | 2 workers, queue of 2, 2 clients, 2 jobs, 1 round, errors, `CompletePending` | `shutdown`, `join`, `in_all_threads` return, jobs finish |
| `ThreadPool_immediate` | 2 workers, queue of 3, 2 clients, 2 jobs, errors, a handler that panics, `Immediate` | safety, implements `Executor`, `shutdown` waits for ever only before a full queue that every worker has left (`ShutdownWaitsOnlyIfAbandoned`), `join` returns and no failed thread is missed |
| `ThreadPool_immediate_stuck` | 1 worker, queue of 1, 2 jobs, `Immediate` | **violated**: `shutdown` blocks for ever on the full queue |
| `ThreadPool_shutdown_early` | `CompletePending` | **violated**: `shutdown` returns while commands execute |
| `ThreadPool_two_rounds` | 2 clients, 2 rounds | **violated**: concurrent `in_all_threads` calls deadlock |
| `Pipeline` | the six examples, 4 items, 2 threads and queues of 2 per stage, failing reads and writes | `Conserved`, `StageFinished`, `NobodyPanics`, `Complete`, and every program ends |

Why the bounds are enough to be interesting. Two producers and two consumers are
the least with which a notification can go to the wrong thread of a kind; with
capacity 2 a queue can be empty, full and neither, and two elements make order
visible. Capacity 1 would make "was empty" and "is full" coincide. In the pool two
workers can split over two barriers, one can exit by seeing `stopped` while the
other needs an empty command, and one can panic while the other goes on; a queue
of two fills up with three jobs or with the commands of one round. In
`ThreadPool_immediate` a queue of three is one place short of two jobs and two empty
commands: shutdown goes through, waits for a worker, or waits for ever, depending on
where `stopped` found the workers. In the pipelines
four items are as many as two threads and a queue of two hold together, so that a
stage is blocked by the next one while `main` is blocked by it; two threads in the
stages with several are the least with which items overtake one another, and are what
a flush or a fetch has to reach each of. Stages and scripts are those of the programs.

The pool runs switch the deadlock check off: a pool whose workers have exited, all
panicked or wait at a barrier that will not fill has stopped. So does `Pipeline`, whose
process ends; `Finishes` is what excludes a deadlock there. The queue runs check it:
somebody can always make a call.

Symmetry is used in the two large safety runs only, over threads, clients,
elements and jobs (workers are numbers, as `join` takes them in order).

### Fairness

Nobody is obliged to call anything. A thread that is awake inside a queue call
takes the mutex in the end (`WF(Resume)`) and a running timer fires
(`WF(WaitTimesOut)`): the operating system schedules threads, and the mutex is
free whenever nobody is in a section. Which thread `notify_one` wakes is never
assumed fair. In the pool every worker that can step does, user code included:
`execute` and `f` return; and a client gets on with the call it has in progress.
The liveness runs exclude panics, see below. In `Pipeline` `main` and every thread go
on when they can. Weak fairness is enough although locks and places in a queue are
competed for: `main` takes the lock of a stage only when the stage before it has
nothing to submit or has ended, and the commands that compete for places are finitely
many.

## What the violations mean

* `BlockingQueue`: `notify_one` is sound only if whoever wakes up either uses what
  it was woken for or passes the wakeup on. A timed call that finds its time over
  (`src/blocking_queue.rs:131-138`, `181-188`) does neither, and a `wait_empty`
  caller cannot use it. In a pool, consumers use no timeouts and `wait_empty` runs
  under `&mut self`: `PoolQueue_progress`, and the theorems of `PoolQueueProofs` for any
  number of threads, show that nothing is lost there as long as nobody uses
  `try_submit`, and `PoolQueue_timed_stuck` that with it a `submit` may sleep on beside
  a free place (with `QueueType::BlockingQueue` only).
* `Immediate` shutdown enqueues its empty commands with a blocking enqueue into a
  queue nobody empties any more. The same happens in `CompletePending` when the
  queue has fewer places than there are threads: workers that see `stopped`
  themselves take no empty command. `ShutdownHasRoom` states the condition under
  which it cannot happen, and `ThreadPool_progress` checks at the boundary
  (as many places as threads).
* `shutdown` in `CompletePending` waits for the queue, not for the commands: work
  is complete only after `join`.
* `in_all_threads` must not be called by two clients at a time.

Also visible in the model, without a document that says otherwise: a panic in a
command or in `f` removes a worker for good; `in_all_threads` never returns after
that, and `CompletePending` shutdown never returns once all workers are gone and
the queue is not empty. A second `CompletePending` shutdown may wait for empty
commands that nobody takes. With capacity 0 `BlockingQueue` never sets `full` and
is unbounded (crossbeam's refuses 0).

## Proofs

`BlockingQueueProofs` proves, for every set of threads, elements and timeouts:

* `TypeCorrect`: the type invariant, for every capacity. A lemma says what a push
  and a pop do to the state (`PushBackEffect`, `PopFrontEffect`), one that every
  call that returns, and one that every call that blocks, keeps it well typed.
* `FlagsAgreeAlways`, `BoundedAlways`, assuming `Capacity > 0`. The inductive
  invariant is `Summarised == TypeOK /\ FlagsAgree /\ Bounded`: `FlagsAgree` alone is
  not inductive, since `full` is set by an equality that a longer deque would miss.
* `WatchersAlertedAlways`, from `Summarised`: the push that follows an empty moment
  cannot find a `wait_empty` caller asleep, because the pop that led to it woke all.
* `Refinement`: `Spec => ImplementsBoundedQueue`, step by step. Flags are what is
  looked at, elements what is promised, so each step needs `Summarised`.

`PoolQueueProofs` proves, for every capacity above 0 and any finite number of workers,
clients and owners:

* `NoDequeueForgotten`, `NoEnqueueForgotten`, assuming that no call has a timeout
  (`Untimed`): while a thread sleeps, every element (free place) has an awake thread of
  its kind. A step adds an element and wakes a sleeper, or takes one and uses up one
  awake thread; the counting is in `OneMore` and `OneFewer`. What makes the counting
  inductive beside a `wait_empty` that sleeps in the workers' condition variable is
  `Apart`: no enqueue is in progress then, so nobody can wake the wrong thread. The
  violated runs show that neither `Untimed` nor the exclusion can be dropped.
* `PoolRefinement`: what `BlockingQueue` implements, its use in a pool implements too.

`CrossbeamBlockingQueueProofs` proves, for every set of threads, elements and timeouts
and every capacity (crossbeam refuses 0):

* `TypeCorrect`, which includes that the queue stays bounded;
* `Refinement`: `Spec => ImplementsBoundedQueue`; a first attempt
  that fails is the invocation of a call that has to wait, later ones are stutters;
* `AnswersWereTrueAlways`. The inductive invariant is `MetWhenNeeded`: a thread whose
  attempt has failed in an enqueue or dequeue has met a full or empty queue, and so has a
  `wait_empty` that has left its loop without being able to run out of time.

`ThreadPoolProofs` proves, for every number of threads (0 included), queue size,
client, job and round, both shutdown modes and every way user code may end:

* `TypeCorrect`: the type invariant; among other things the queue stays bounded,
  whoever submits has a job, and whoever is in a round has that round.
* `OneMoreCommandAlways`, from `LateLeaves`, which adds that `stopped` is never reset.
* `CompletePendingCompletesAlways`. The inductive invariant `CompletionInv` has, besides
  the types, five parts. `Placed`: an accepted job is in the queue, with a worker, or
  finished. `Owned`: a job is submitted by one client and never again once accepted.
  `ExpiredFirst`: `expired` is set before shutdown does anything else, so what was
  promised is settled by then. `Drained`: once shutdown has seen the queue empty, no
  promised job is in it, though `unchecked_submit` may add others later. `Joined`: a
  popped handle is one of a thread that has terminated. At the end a promised job can
  be neither in the queue (`Drained`) nor with a worker (`Joined`), so by `Placed` it is
  finished.

* `NothingLostAlways`. `Placed` says that an accepted job is somewhere, `Once` that it
  is in no two places and twice in none; together they make the three cardinalities
  of `NothingLost` add up to 1.
* `ExecutorRefinement`: `Spec => ImplementsExecutor`. `StatusIs` reads a job's status off
  its place, `EnqueueAhead` and `DequeueAhead` say what the queue does to the order;
  `Run` needs that a worker with free hands leaves at most `Tasks - 1` jobs running
  (`RunningFits`), and `Join` needs `Drained` and `Joined`.

`ThreadPoolShutdownProofs`, on top of it:

* `EveryFailureReportedAlways`, from `FailuresKept`: a thread's `r`, or its panic, stands
  for every command that failed in it, and what is reported is what was popped.
* `ShutdownHasRoomAlways`. `Alone` is the exclusion of `&mut self`: guards look at the
  moment a call starts, the invariant at all the time it lasts. With it
  `OwnCommandsOnly` is inductive: the queue that shutdown has seen empty holds at most
  the empty commands submitted so far.
* `EveryWorkerIsWokenAlways`: the number of sleepers never exceeds queued commands and
  commands to come; a dequeue lowers both sides, and no worker becomes a sleeper once
  `stopped` is set.

`ThreadPoolRoundsProofs` proves `InAllThreadsFlushesAlways`, for at least one thread (with
none the barrier opens at once, whatever is in the queue). `Known`: commands and
arrivals of a round come from a call that was made. `Behind`: no command of a round is
ahead of a job accepted before it. `Passed`: whoever has taken one has thus found
these jobs gone from the queue. `Parked`: whoever has arrived has run `f` and does
nothing else until all have. When the last participant arrives every worker is at
the barrier, so a job accepted earlier is neither in the queue nor being executed,
and by `Placed` it is finished (`NextFlushed`).

`PipelineProofs` proves, for the six programs of `examples/`, any number of items and of
threads in the stages with several, any queue no smaller than that, and reads and writes
that may fail:

* `TypeCorrect`: the type invariant; among other things no queue overflows.
* `NobodyPanicsAlways`: no command submits to a pool that has expired or finds that
  its thread has not been told the next pool.
* `StageFinishedAlways`: once a stage has been shut down and joined, its threads are
  gone and nothing is left in its queue, in their hands or in their thread-local storage.

A program enters these proofs only by `WellScripted`, which is proved program by
program (`EveryProgram`): threads are told what they need before `main` feeds
(`FedOnce`, `Prepared`), stages are shut down from the first to the last and results are
taken from a stage when the one before it is shut down (`ShutDownInOrder`). A new
example with these traits needs no new proof. The inductive invariant `IInv` then says
what `main`'s place in the script allows:

* `MainOK`, `Expires`: what has been fed by then, and which pools have expired.
* `Queued`, `Hands`: a command in a queue or in a thread's hands `Fits`: it is the
  stage's own, and `main` has begun to feed, or one of the round under way.
* `RoundsCounted`, `RoundsLast`: as many commands of a round are queued or in hand as have
  been submitted, and nothing is queued behind the first of them. A thread that has one
  takes no second, so together they leave the queue empty when the barrier opens
  (`RoundOver`).
* `Told`, `Taken`: which threads a round has told the next pool, or relieved of their
  results.
* `Finished`: what shutdown and join have established for the stages behind `main`.

The heart is `Welcome`: a command that forwards is of a stage not yet finished, so the
next one is not yet being shut down, and its own thread has been told. `NobodyPanics` and
`StageFinished` are not inductive by themselves: a stage that is not finished when it
should be could forward to a pool that has expired, and a thread that has panicked
does not end, so that its stage is never finished.

`PipelineItemsProofs` proves, on top of it:

* `ConservedAlways`: as long as no write has failed, each item fed exists exactly once.
  `ItemsInv` strengthens it by what it does not say. `Counted`: an item not yet fed does
  not exist, or feeding would make a second. `Unopened`: the thread that opens the result
  file, and so empties it, finds nothing in it; this needs that the stage that
  writes has a single thread (`OneWriter`). `QueuesAppend` and `QueuesTail` count what a
  queue gains and loses; `Balance` then needs only the thread that takes a step.
* `CompleteAlways`: when `main` has gone through its script, the output has each item
  once. By `StagesFinished` there is no other place left, and no write has failed, which
  would have stopped `main` in `join`.

The assumptions on constants are `CallsAssumption`, `CapacityAssumption`,
`PoolAssumption` and `PipelineAssumption`, which TLC evaluates in every run of the
module they belong to. So every invariant, action property and refinement that a passing
run checks is also proved, for every value of the constants that its theorem admits.

Only model-checked are the progress properties, as liveness under fairness is out of the
prover's reach: `EnqueueServed`, `DequeueServed` and `WaitEmptyServed` of the queues,
`ShutdownTerminates`, `ShutdownWaitsOnlyIfAbandoned`, `JoinTerminates`, `JobsFinish` and `InAllThreadsTerminates` of the
pool, and `Finishes` of the pipelines.

## Not modelled

`ThreadPoolBuilder` (it stores parameters, which are the constants of `ThreadPool`), `len`
and the other readers, `Display`, the backoff of the polling loops, thread names and
error texts, the `Ok` or `Err` that `join` returns in the end (`ThreadPool` has what it
hands to the handler and whether that panics), the benches and the integration tests (read for what they expect of the
library). The adapter's `match` has no state: what it may be used as is `BoundedQueue`.
`set_thread_local` of the library is `in_all_threads` with a particular `f`; `Pipeline`
says what that `f` does.

Assumed away: that spawning a thread fails (`new` then panics and the threads already
started wait at the start barrier for ever); `BlockingQueue` with capacity 0 in the
theorems that need it above 0; that a second `CompletePending` shutdown returns.

## Plan

1. `QueueCalls`, `BoundedQueue`, `BlockingQueue`, `CrossbeamBlockingQueue`,
   `ThreadPool` with their runs; `BlockingQueueProofs`, `ThreadPoolProofs`: done.
2. `Executor` and the refinement of `ThreadPool`; `PoolQueue`, the pool's use of the
   condition variables; `Pipeline`, the composition of pools: done.
3. Every invariant and refinement of the queues and of the pool proved: done.
4. `PipelineProofs` and `PipelineItemsProofs`, every invariant of the pipelines: done.
5. Left: facts that progress rests on and that are safety properties, such as which
   waiting is for whom in a pipeline (a stage blocked by the next one, `main` by a
   stage), which would show for any number of items and threads what a
   deadlock would have to look like.
