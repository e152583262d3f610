---------------------------- MODULE PipelineProofs ----------------------------
(***************************************************************************)
(* Proofs about Pipeline: how main's script orders what the stages do, the *)
(* type invariant, that a stage is finished once it has been shut down and *)
(* that no command panics.                                                 *)
(***************************************************************************)
EXTENDS Pipeline, FiniteSetTheorems, FunctionTheorems, TLAPS

-------------------------------------------------------------------------------
(* What the six programs have in common.                                   *)

Steps == 1 .. Len(Script)
Does == {"print", "print_config", "forward", "collect", "write"}
After == {"flush", "fetch"}

\* The step in which main feeds the first stage, and the one that shuts stage s down.
FeedStep == CHOOSE k \in Steps : Script[k].op = "feed"
ShutdownStep(s) == CHOOSE k \in Steps : Script[k] = Do("shutdown", s)

WellBuilt ==
    /\ NStages \in Nat \ {0}
    /\ Stages \in [1 .. NStages -> [tasks : 1 .. Many, does : Does]]
    /\ Script \in Seq([op : {"feed", "shutdown"} \cup Rounds, stage : 1 .. NStages])

\* Threads are told the next stage before main feeds, results are taken after.
FedOnce ==
    /\ FeedStep \in Steps /\ Script[FeedStep] = Do("feed", 1)
    /\ \A k \in Steps : /\ Script[k].op = "feed" <=> k = FeedStep
                        /\ Script[k].op = "set_thread_local" <=> k < FeedStep

\* The stages are shut down from first to last, each in the last step about it,
\* and results are taken from a stage when the one before it has been shut down.
ShutDownInOrder ==
    /\ \A s \in 1 .. NStages : /\ ShutdownStep(s) \in Steps
                               /\ FeedStep < ShutdownStep(s)
                               /\ Script[ShutdownStep(s)] = Do("shutdown", s)
    /\ \A s \in 1 .. NStages - 1 : ShutdownStep(s) < ShutdownStep(s + 1)
    /\ \A k \in Steps : LET s == Script[k].stage IN
         /\ k <= ShutdownStep(s)
         /\ Script[k].op = "shutdown" => k = ShutdownStep(s)
         /\ Script[k].op \in After /\ s > 1 => ShutdownStep(s - 1) < k

\* Whoever forwards has a next stage and is told of it; what is collected is taken.
Prepared ==
    /\ \A s \in 1 .. NStages :
         /\ Stages[s].does = "forward" => s < NStages
         /\ Stages[s].does \in {"forward", "print_config"} =>
              \E k \in Steps : Script[k] = Do("set_thread_local", s)
         /\ Stages[s].does = "collect" =>
              \E k \in Steps : Script[k].op \in After /\ Script[k].stage = s
    /\ \A k \in Steps : Script[k].op = "flush" =>
         /\ Script[k].stage < NStages
         /\ \E j \in Steps : Script[j] = Do("set_thread_local", Script[k].stage)

\* The result file has one writer, and nothing else puts out anything.
OneWriter ==
    \A s \in 1 .. NStages : Stages[s].does = "write" =>
        /\ Stages[s].tasks = 1
        /\ \A r \in 1 .. NStages \ {s} :
             Stages[r].does \notin {"print", "print_config", "write"}
        /\ \A k \in Steps : Script[k].op # "fetch"

WellScripted == WellBuilt /\ FedOnce /\ ShutDownInOrder /\ Prepared /\ OneWriter

\* thread_pool.rs: feed, shut down.
LEMMA ThreadPoolWellScripted == program = "thread_pool" => WellScripted
<1> SUFFICES ASSUME program = "thread_pool" PROVE WellScripted
  OBVIOUS
<1>1. Stages = ThreadPoolStages /\ Script = ThreadPoolMain
  BY DEF Stages, Script, Examples, Example
<1>2. /\ Len(Script) = 2 /\ Steps = 1 .. 2
      /\ Script[1] = Do("feed", 1)
      /\ Script[2] = Do("shutdown", 1)
  BY <1>1 DEF ThreadPoolMain, Feed, Shutdowns, Steps
<1>3. /\ NStages = 1
      /\ Stages[1] = Stage(Many, "print")
  BY <1>1 DEF ThreadPoolStages, NStages
<1>4. FeedStep = 1 /\ ShutdownStep(1) = 2
  BY <1>2 DEF FeedStep, ShutdownStep, Do
<1>5. Stages \in [1 .. 1 -> [tasks : 1 .. Many, does : Does]]
  BY <1>1, <1>3, PipelineAssumption DEF Does, Stage, ThreadPoolStages
<1>6. Script \in Seq([op : {"feed", "shutdown"} \cup Rounds, stage : 1 .. 1])
  BY <1>1, <1>2 DEF Do, Rounds, ThreadPoolMain, Feed, Shutdowns
<1>7. WellBuilt
  BY <1>3, <1>5, <1>6 DEF WellBuilt
<1>8. FedOnce
  BY <1>2, <1>4 DEF FedOnce, Do
<1>9. ShutDownInOrder
  BY <1>2, <1>3, <1>4 DEF ShutDownInOrder, Do, After
<1>10. Prepared /\ OneWriter
  BY <1>2, <1>3 DEF Prepared, OneWriter, Do, Stage, After
<1> QED BY <1>7, <1>8, <1>9, <1>10 DEF WellScripted

\* thread_local.rs: the threads are told their configuration first.
LEMMA ThreadLocalWellScripted == program = "thread_local" => WellScripted
<1> SUFFICES ASSUME program = "thread_local" PROVE WellScripted
  OBVIOUS
<1>1. Stages = ThreadLocalStages /\ Script = ThreadLocalMain
  BY DEF Stages, Script, Examples, Example
<1>2. /\ Len(Script) = 3 /\ Steps = 1 .. 3
      /\ Script[1] = Do("set_thread_local", 1)
      /\ Script[2] = Do("feed", 1)
      /\ Script[3] = Do("shutdown", 1)
  BY <1>1 DEF ThreadLocalMain, SetLocals, Feed, Shutdowns, Steps
<1>3. /\ NStages = 1
      /\ Stages[1] = Stage(Many, "print_config")
  BY <1>1 DEF ThreadLocalStages, NStages
<1>4. FeedStep = 2 /\ ShutdownStep(1) = 3
  BY <1>2 DEF FeedStep, ShutdownStep, Do
<1>5. Stages \in [1 .. 1 -> [tasks : 1 .. Many, does : Does]]
  BY <1>1, <1>3, PipelineAssumption DEF Does, Stage, ThreadLocalStages
<1>6. Script \in Seq([op : {"feed", "shutdown"} \cup Rounds, stage : 1 .. 1])
  BY <1>1, <1>2 DEF Do, Rounds, ThreadLocalMain, SetLocals, Feed, Shutdowns
<1>7. WellBuilt
  BY <1>3, <1>5, <1>6 DEF WellBuilt
<1>8. FedOnce
  BY <1>2, <1>4 DEF FedOnce, Do
<1>9. ShutDownInOrder
  BY <1>2, <1>3, <1>4 DEF ShutDownInOrder, Do, After
<1>10. Prepared /\ OneWriter
  BY <1>2, <1>3 DEF Prepared, OneWriter, Do, Stage, After
<1> QED BY <1>7, <1>8, <1>9, <1>10 DEF WellScripted

\* pipeline.rs: three stages, set_next of the first two before feeding.
LEMMA PipelineWellScripted == program = "pipeline" => WellScripted
<1> SUFFICES ASSUME program = "pipeline" PROVE WellScripted
  OBVIOUS
<1>1. Stages = PipelineStages /\ Script = PipelineMain
  BY DEF Stages, Script, Examples, Example
<1>2. /\ Len(Script) = 6 /\ Steps = 1 .. 6
      /\ Script[1] = Do("set_thread_local", 1)
      /\ Script[2] = Do("set_thread_local", 2)
      /\ Script[3] = Do("feed", 1)
      /\ Script[4] = Do("shutdown", 1)
      /\ Script[5] = Do("shutdown", 2)
      /\ Script[6] = Do("shutdown", 3)
  BY <1>1 DEF PipelineMain, SetLocals, Feed, Shutdowns, Steps
<1>3. /\ NStages = 3
      /\ Stages[1] = Stage(Many, "forward")
      /\ Stages[2] = Stage(Many, "forward")
      /\ Stages[3] = Stage(1, "write")
  BY <1>1 DEF PipelineStages, NStages
<1>4. FeedStep = 3 /\ ShutdownStep(1) = 4 /\ ShutdownStep(2) = 5 /\ ShutdownStep(3) = 6
  BY <1>2 DEF FeedStep, ShutdownStep, Do
<1>5. Stages \in [1 .. 3 -> [tasks : 1 .. Many, does : Does]]
  BY <1>1, <1>3, PipelineAssumption DEF Does, Stage, PipelineStages
<1>6. Script \in Seq([op : {"feed", "shutdown"} \cup Rounds, stage : 1 .. 3])
  BY <1>1, <1>2 DEF Do, Rounds, PipelineMain, SetLocals, Feed, Shutdowns
<1>7. WellBuilt
  BY <1>3, <1>5, <1>6 DEF WellBuilt
<1>8. FedOnce
  BY <1>2, <1>4 DEF FedOnce, Do
<1>9. ShutDownInOrder
  BY <1>2, <1>3, <1>4 DEF ShutDownInOrder, Do, After
<1>10. Prepared /\ OneWriter
  BY <1>2, <1>3 DEF Prepared, OneWriter, Do, Stage, After
<1> QED BY <1>7, <1>8, <1>9, <1>10 DEF WellScripted

\* flush_thread_local.rs: the second stage is flushed between two shutdowns.
LEMMA FlushWellScripted == program = "flush" => WellScripted
<1> SUFFICES ASSUME program = "flush" PROVE WellScripted
  OBVIOUS
<1>1. Stages = FlushStages /\ Script = FlushMain
  BY DEF Stages, Script, Examples, Example
<1>2. /\ Len(Script) = 7 /\ Steps = 1 .. 7
      /\ Script[1] = Do("set_thread_local", 1)
      /\ Script[2] = Do("set_thread_local", 2)
      /\ Script[3] = Do("feed", 1)
      /\ Script[4] = Do("shutdown", 1)
      /\ Script[5] = Do("flush", 2)
      /\ Script[6] = Do("shutdown", 2)
      /\ Script[7] = Do("shutdown", 3)
  BY <1>1 DEF FlushMain, SetLocals, Feed, Steps
<1>3. /\ NStages = 3
      /\ Stages[1] = Stage(Many, "forward")
      /\ Stages[2] = Stage(Many, "collect")
      /\ Stages[3] = Stage(1, "write")
  BY <1>1 DEF FlushStages, NStages
<1>4. FeedStep = 3 /\ ShutdownStep(1) = 4 /\ ShutdownStep(2) = 6 /\ ShutdownStep(3) = 7
  BY <1>2 DEF FeedStep, ShutdownStep, Do
<1>5. Stages \in [1 .. 3 -> [tasks : 1 .. Many, does : Does]]
  BY <1>1, <1>3, PipelineAssumption DEF Does, Stage, FlushStages
<1>6. Script \in Seq([op : {"feed", "shutdown"} \cup Rounds, stage : 1 .. 3])
  BY <1>1, <1>2 DEF Do, Rounds, FlushMain, SetLocals, Feed
<1>7. WellBuilt
  BY <1>3, <1>5, <1>6 DEF WellBuilt
<1>8. FedOnce
  BY <1>2, <1>4 DEF FedOnce, Do
<1>9. ShutDownInOrder
  BY <1>2, <1>3, <1>4 DEF ShutDownInOrder, Do, After
<1>10. Prepared /\ OneWriter
  BY <1>2, <1>3 DEF Prepared, OneWriter, Do, Stage, After
<1> QED BY <1>7, <1>8, <1>9, <1>10 DEF WellScripted

\* fetch_thread_local.rs: the second stage is fetched from before its shutdown.
LEMMA FetchWellScripted == program = "fetch" => WellScripted
<1> SUFFICES ASSUME program = "fetch" PROVE WellScripted
  OBVIOUS
<1>1. Stages = FetchStages /\ Script = FetchMain
  BY DEF Stages, Script, Examples, Example
<1>2. /\ Len(Script) = 5 /\ Steps = 1 .. 5
      /\ Script[1] = Do("set_thread_local", 1)
      /\ Script[2] = Do("feed", 1)
      /\ Script[3] = Do("shutdown", 1)
      /\ Script[4] = Do("fetch", 2)
      /\ Script[5] = Do("shutdown", 2)
  BY <1>1 DEF FetchMain, SetLocals, Feed, Steps
<1>3. /\ NStages = 2
      /\ Stages[1] = Stage(Many, "forward")
      /\ Stages[2] = Stage(Many, "collect")
  BY <1>1 DEF FetchStages, NStages
<1>4. FeedStep = 2 /\ ShutdownStep(1) = 3 /\ ShutdownStep(2) = 5
  BY <1>2 DEF FeedStep, ShutdownStep, Do
<1>5. Stages \in [1 .. 2 -> [tasks : 1 .. Many, does : Does]]
  BY <1>1, <1>3, PipelineAssumption DEF Does, Stage, FetchStages
<1>6. Script \in Seq([op : {"feed", "shutdown"} \cup Rounds, stage : 1 .. 2])
  BY <1>1, <1>2 DEF Do, Rounds, FetchMain, SetLocals, Feed
<1>7. WellBuilt
  BY <1>3, <1>5, <1>6 DEF WellBuilt
<1>8. FedOnce
  BY <1>2, <1>4 DEF FedOnce, Do
<1>9. ShutDownInOrder
  BY <1>2, <1>3, <1>4 DEF ShutDownInOrder, Do, After
<1>10. Prepared /\ OneWriter
  BY <1>2, <1>3 DEF Prepared, OneWriter, Do, Stage, After
<1> QED BY <1>7, <1>8, <1>9, <1>10 DEF WellScripted

\* read_process_write_pipeline.rs: two stages, the second writes.
LEMMA ReadProcessWriteWellScripted == program = "read_process_write" => WellScripted
<1> SUFFICES ASSUME program = "read_process_write" PROVE WellScripted
  OBVIOUS
<1>1. Stages = ReadProcessWriteStages /\ Script = ReadProcessWriteMain
  BY DEF Stages, Script, Examples, Example
<1>2. /\ Len(Script) = 4 /\ Steps = 1 .. 4
      /\ Script[1] = Do("set_thread_local", 1)
      /\ Script[2] = Do("feed", 1)
      /\ Script[3] = Do("shutdown", 1)
      /\ Script[4] = Do("shutdown", 2)
  BY <1>1 DEF ReadProcessWriteMain, SetLocals, Feed, Shutdowns, Steps
<1>3. /\ NStages = 2
      /\ Stages[1] = Stage(Many, "forward")
      /\ Stages[2] = Stage(1, "write")
  BY <1>1 DEF ReadProcessWriteStages, NStages
<1>4. FeedStep = 2 /\ ShutdownStep(1) = 3 /\ ShutdownStep(2) = 4
  BY <1>2 DEF FeedStep, ShutdownStep, Do
<1>5. Stages \in [1 .. 2 -> [tasks : 1 .. Many, does : Does]]
  BY <1>1, <1>3, PipelineAssumption DEF Does, Stage, ReadProcessWriteStages
<1>6. Script \in Seq([op : {"feed", "shutdown"} \cup Rounds, stage : 1 .. 2])
  BY <1>1, <1>2 DEF Do, Rounds, ReadProcessWriteMain, SetLocals, Feed, Shutdowns
<1>7. WellBuilt
  BY <1>3, <1>5, <1>6 DEF WellBuilt
<1>8. FedOnce
  BY <1>2, <1>4 DEF FedOnce, Do
<1>9. ShutDownInOrder
  BY <1>2, <1>3, <1>4 DEF ShutDownInOrder, Do, After
<1>10. Prepared /\ OneWriter
  BY <1>2, <1>3 DEF Prepared, OneWriter, Do, Stage, After
<1> QED BY <1>7, <1>8, <1>9, <1>10 DEF WellScripted

\* Every program is one of the six.
LEMMA EveryProgram == program \in DOMAIN Examples => WellScripted
BY ThreadPoolWellScripted, ThreadLocalWellScripted, PipelineWellScripted,
   FlushWellScripted, FetchWellScripted, ReadProcessWriteWellScripted DEF Examples

-------------------------------------------------------------------------------
(* The inductive invariant.                                                *)

\* Where main can be in a step, and how far it has come.
MainOK ==
    /\ main.at \in {"submit", "barrier", "drain", "join"} => ~ScriptEnded
    /\ main.at \in {"drain", "join"} => Op = "shutdown" /\ Here \in expired
    /\ main.at = "barrier" => Op \in Rounds
    /\ main.at = "submit" => Op # "shutdown"
    /\ main.at = "barrier" => main.n = Stages[Here].tasks
    /\ main.at \in {"submit", "join"} => main.n < Stages[Here].tasks
    /\ main.at = "lock" \/ (main.at = "submit" /\ Op = "feed") => main.n = 0
    /\ main.step < FeedStep => main.fed = 0
    /\ main.step = FeedStep => main.fed < Items
    /\ main.step > FeedStep => main.fed = Items

\* A pool expires when main begins to shut it down.
Expires ==
    \A s \in expired :
        \/ ShutdownStep(s) < main.step
        \/ ShutdownStep(s) = main.step /\ main.at # "lock"

\* A round op is going on in stage s.
InRound(s, op) == /\ main.at \in {"submit", "barrier"}
                  /\ Here = s /\ Op = op /\ op \in Rounds

\* A command that stage s can have in its queue or begin to execute.
Fits(c, s) == \/ c.op = Stages[s].does /\ FeedStep <= main.step
              \/ InRound(s, c.op) /\ c.items = {}

Queued == \A s \in 1 .. NStages : \A k \in 1 .. Len(queue[s]) : Fits(queue[s][k], s)

\* What a thread has in hand, by where it is.
HandsOf(t) ==
    /\ thread[t].pc \in {"idle", "barrier", "exited"} => thread[t].cmd = NoCommand
    /\ thread[t].pc = "execute" => Fits(thread[t].cmd, t[1])
    /\ thread[t].pc = "submit" =>
         /\ t[1] < NStages
         /\ \/ thread[t].cmd.op = "forward" /\ Fits(thread[t].cmd, t[1])
            \/ /\ thread[t].cmd.op = "flush" /\ InRound(t[1], "flush")
               /\ thread[t].collected = {}
    /\ thread[t].pc = "barrier" =>
         /\ InRound(t[1], Op)
         /\ Op = "set_thread_local" => thread[t].local
         /\ Op \in After => thread[t].collected = {}
    /\ thread[t].pc # "panicked"
    /\ thread[t].collected # {} => Stages[t[1]].does = "collect"

Hands == \A t \in Threads : HandsOf(t)

\* The commands of a round in stage s: in its queue, taken, and at the barrier.
RoundCommands == {c \in Commands : c.op \in Rounds}
At(q, C) == {k \in 1 .. Len(q) : q[k] \in C}
InHand(s) == {t \in Workers(s) : thread[t].cmd.op \in Rounds \/ thread[t].pc = "barrier"}

RoundsCounted ==
    \A s \in 1 .. NStages : InRound(s, Op) =>
        Cardinality(At(queue[s], RoundCommands)) + Cardinality(InHand(s)) = main.n

\* Nothing else is submitted to a stage in which a round is going on: the commands
\* of the round are the last ones in its queue.
RoundsLast ==
    \A s \in 1 .. NStages : InRound(s, Op) =>
        /\ \A j, k \in 1 .. Len(queue[s]) :
             j < k /\ queue[s][j].op \in Rounds => queue[s][k].op \in Rounds
        /\ InHand(s) # {} => \A k \in 1 .. Len(queue[s]) : queue[s][k].op \in Rounds

\* What a round that is over has left behind.
Told ==
    \A k \in Steps : k < main.step /\ Script[k].op = "set_thread_local" =>
        \A t \in Workers(Script[k].stage) : thread[t].local

Taken ==
    \A k \in Steps : k < main.step /\ Script[k].op \in After =>
        LET s == Script[k].stage IN
        /\ \A j \in 1 .. Len(queue[s]) : queue[s][j].op \in Rounds
        /\ \A t \in Workers(s) : /\ thread[t].cmd.op # Stages[s].does
                                 /\ thread[t].collected = {}

\* What shutdown and join have established so far.
Finished ==
    \A s \in 1 .. NStages :
        /\ ShutdownStep(s) < main.step =>
             /\ queue[s] = <<>>
             /\ \A t \in Workers(s) : thread[t].pc = "exited" /\ ~thread[t].failed
        /\ ShutdownStep(s) = main.step /\ main.at = "join" =>
             /\ queue[s] = <<>>
             /\ \A t \in Workers(s) : t[2] > Stages[s].tasks - main.n =>
                  thread[t].pc = "exited" /\ ~thread[t].failed

IInv == /\ TypeOK /\ MainOK /\ Expires /\ Queued /\ Hands
        /\ RoundsCounted /\ RoundsLast /\ Told /\ Taken /\ Finished

-------------------------------------------------------------------------------
(* Facts used throughout.                                                  *)

\* What belongs to the program stays what it is.
LEMMA SameProgram ==
    program' = program =>
        /\ Stages' = Stages /\ Script' = Script /\ NStages' = NStages
        /\ Threads' = Threads /\ Steps' = Steps /\ FeedStep' = FeedStep
        /\ \A s : Workers(s)' = Workers(s) /\ ShutdownStep(s)' = ShutdownStep(s)
BY DEF Stages, Script, NStages, Threads, Workers, Steps, FeedStep, ShutdownStep

\* A thread is a stage and a number in it.
LEMMA ThreadsOfStages ==
    ASSUME WellBuilt
    PROVE  /\ \A t \in Threads : /\ t = <<t[1], t[2]>> /\ t[1] \in 1 .. NStages
                                 /\ t[2] \in 1 .. Stages[t[1]].tasks
                                 /\ t \in Workers(t[1])
           /\ \A s \in 1 .. NStages : \A t \in Workers(s) : t \in Threads /\ t[1] = s
           /\ \A s \in 1 .. NStages : \A n \in 1 .. Stages[s].tasks :
                 <<s, n>> \in Workers(s)
BY DEF Threads, Workers

\* The shape of the program, in one place.
LEMMA Shape ==
    ASSUME WellBuilt
    PROVE  /\ NStages \in Nat \ {0}
           /\ Len(Script) \in Nat /\ Steps = 1 .. Len(Script)
           /\ \A s \in 1 .. NStages : /\ Stages[s].tasks \in 1 .. Many
                                      /\ Stages[s].tasks \in Nat \ {0}
                                      /\ Stages[s].does \in Does
           /\ \A k \in Steps : /\ Script[k].stage \in 1 .. NStages
                               /\ Script[k].op \in {"feed", "shutdown"} \cup Rounds
<1>1. Len(Script) \in Nat /\ Steps = 1 .. Len(Script)
  BY DEF WellBuilt, Steps
<1>2. \A k \in Steps :
         Script[k] \in [op : {"feed", "shutdown"} \cup Rounds, stage : 1 .. NStages]
  <2> DEFINE D == [op : {"feed", "shutdown"} \cup Rounds, stage : 1 .. NStages]
  <2>1. Script \in Seq(D)
    BY DEF WellBuilt
  <2> HIDE DEF D
  <2>2. \A k \in Steps : Script[k] \in D
    BY <2>1 DEF Steps
  <2> QED BY <2>2 DEF D
<1>3. \A s \in 1 .. NStages : Stages[s] \in [tasks : 1 .. Many, does : Does]
  BY DEF WellBuilt
<1>4. \A s \in 1 .. NStages : /\ Stages[s].tasks \in 1 .. Many
                              /\ Stages[s].tasks \in Nat \ {0}
                              /\ Stages[s].does \in Does
  BY <1>3, PipelineAssumption
<1> QED BY <1>1, <1>2, <1>4 DEF WellBuilt

\* The types of what main counts.
LEMMA MainTyped ==
    ASSUME TypeOK, WellBuilt
    PROVE  /\ main.step \in 1 .. Len(Script) + 1 /\ main.step \in Nat
           /\ main.n \in Nat /\ main.fed \in Nat
<1>1. main.step \in 1 .. Len(Script) + 1 /\ main.n \in 0 .. Many /\ main.fed \in 0 .. Items
  BY DEF TypeOK, MainStates
<1> QED BY <1>1, Shape, PipelineAssumption

\* Where main is in its script.
LEMMA InScript ==
    ASSUME WellBuilt, main.step \in 1 .. Len(Script) + 1, ~ScriptEnded
    PROVE  /\ main.step \in Steps
           /\ Op = Script[main.step].op /\ Here = Script[main.step].stage
           /\ Here \in 1 .. NStages
           /\ Op \in {"feed", "shutdown"} \cup Rounds
BY Shape DEF ScriptEnded, Op, Here

\* Past its script main is in no step of it.
LEMMA NotInScript ==
    ASSUME ScriptEnded
    PROVE  Here = 0 /\ Op = "end"
BY DEF Op, Here

\* Having no command is carrying nothing.
LEMMA NoCommandOK == NoCommand \in Commands /\ NoCommand.items = {} /\ NoCommand.op = "none"
BY DEF NoCommand, Command, Commands

\* What a command is made of.
LEMMA CommandOK ==
    ASSUME NEW op \in Does \cup Rounds, NEW items \in SUBSET (1 .. Items)
    PROVE  /\ Command(op, items) \in Commands
           /\ Command(op, items).op = op /\ Command(op, items).items = items
BY DEF Command, Commands, Does

\* What a worker's step leaves alone.
LEMMA WorkLeaves ==
    ASSUME NEW t \in Threads, Work(t)
    PROVE  UNCHANGED <<program, main, expired, stopped>>
BY DEF Work, Take, Exit, Forward, Forwarded, SetThreadLocal, Collect, Fetch, Prints, Write,
       WriteFails, OnlyThread

-------------------------------------------------------------------------------
(* What a worker's step does, action by action.                            *)

\* Only thread t changes.
Alone(t) == \A u \in Threads \ {t} : thread'[u] = thread[u]

\* A thread that only moves on.
LEMMA GotoEffect ==
    ASSUME TypeOK, NEW t \in Threads, NEW command \in Commands,
           NEW pc \in {"idle", "execute", "submit", "barrier", "exited"},
           Goto(t, pc, command)
    PROVE  /\ Alone(t) /\ thread' \in [Threads -> ThreadStates]
           /\ thread'[t].pc = pc /\ thread'[t].cmd = command
           /\ thread'[t].local = thread[t].local
           /\ thread'[t].collected = thread[t].collected
           /\ thread'[t].opened = thread[t].opened
           /\ thread'[t].failed = thread[t].failed
BY DEF TypeOK, Goto, Alone, ThreadStates

\* A thread takes the first command of its queue.
LEMMA TakeEffect ==
    ASSUME TypeOK, WellBuilt, NEW t \in Threads, Take(t)
    PROVE  /\ Alone(t) /\ thread' \in [Threads -> ThreadStates]
           /\ thread[t].pc = "idle" /\ thread'[t].pc = "execute"
           /\ queue[t[1]] \in Seq(Commands) /\ queue[t[1]] # <<>>
           /\ thread'[t].cmd = Head(queue[t[1]])
           /\ thread'[t].local = thread[t].local
           /\ thread'[t].collected = thread[t].collected
           /\ thread'[t].opened = thread[t].opened
           /\ thread'[t].failed = thread[t].failed
           /\ queue'[t[1]] = Tail(queue[t[1]])
           /\ \A s \in 1 .. NStages \ {t[1]} : queue'[s] = queue[s]
           /\ queue' \in [1 .. NStages -> Seq(Commands)]
           /\ output' = output
<1>1. t[1] \in 1 .. NStages
  BY ThreadsOfStages
<1>2. queue[t[1]] \in Seq(Commands)
  BY <1>1 DEF TypeOK
<1>3. queue' = [queue EXCEPT ![t[1]] = Tail(queue[t[1]])]
  BY DEF Take
<1>4. /\ queue'[t[1]] = Tail(queue[t[1]])
      /\ \A s \in 1 .. NStages \ {t[1]} : queue'[s] = queue[s]
  BY <1>1, <1>3 DEF TypeOK
<1>5. Tail(queue[t[1]]) \in Seq(Commands) /\ Head(queue[t[1]]) \in Commands
  BY <1>2 DEF Take
<1>6. queue' \in [1 .. NStages -> Seq(Commands)]
  BY <1>3, <1>5 DEF TypeOK
<1>7. /\ Goto(t, "execute", Head(queue[t[1]]))
      /\ thread[t].pc = "idle" /\ queue[t[1]] # <<>> /\ output' = output
  BY DEF Take
<1> QED BY <1>2, <1>4, <1>5, <1>6, <1>7, GotoEffect

\* A thread of a stopped pool ends.
LEMMA ExitEffect ==
    ASSUME TypeOK, NEW t \in Threads, Exit(t)
    PROVE  /\ Alone(t) /\ thread' \in [Threads -> ThreadStates]
           /\ thread[t].pc = "idle" /\ thread'[t].pc = "exited"
           /\ thread'[t].cmd = NoCommand
           /\ thread'[t].local = thread[t].local
           /\ thread'[t].collected = thread[t].collected
           /\ thread'[t].opened = thread[t].opened
           /\ thread'[t].failed = thread[t].failed
           /\ queue' = queue /\ output' = output
BY NoCommandOK DEF TypeOK, Exit, Goto, Alone, ThreadStates

\* A command that submits to the next stage, in a thread that has been told of it.
LEMMA ForwardEffect ==
    ASSUME TypeOK, NEW t \in Threads, Forward(t), thread[t].local, t[1] + 1 \notin expired
    PROVE  /\ Alone(t) /\ thread' \in [Threads -> ThreadStates]
           /\ thread[t].pc = "execute" /\ thread'[t].pc = "submit"
           /\ \/ /\ thread[t].cmd.op = "forward"
                 /\ thread'[t].cmd = thread[t].cmd
                 /\ thread'[t].collected = thread[t].collected
              \/ /\ thread[t].cmd.op = "flush"
                 /\ thread'[t].cmd = Command("flush", thread[t].collected)
                 /\ thread'[t].collected = {}
           /\ thread'[t].local = thread[t].local
           /\ thread'[t].opened = thread[t].opened
           /\ thread'[t].failed = thread[t].failed
           /\ queue' = queue /\ output' = output
<1>1. CASE thread[t].cmd.op = "forward"
  <2>1. Executes(t, "forward") /\ thread[t].pc = "execute"
    BY <1>1 DEF Forward, Executes
  <2>2. Goto(t, "submit", thread[t].cmd) /\ queue' = queue /\ output' = output
    BY <2>1 DEF Forward
  <2>3. thread[t].cmd \in Commands
    BY DEF TypeOK, ThreadStates
  <2> QED BY <1>1, <2>1, <2>2, <2>3, GotoEffect
<1>2. CASE thread[t].cmd.op = "flush"
  <2>1. thread' = [thread EXCEPT ![t].pc = "submit",
                     ![t].cmd = Command("flush", thread[t].collected),
                     ![t].collected = {}]
    <3>1. ~Executes(t, "forward")
      BY <1>2 DEF Executes
    <3> QED BY <3>1 DEF Forward
  <2>2. thread[t].pc = "execute" /\ queue' = queue /\ output' = output
    BY DEF Forward, Executes
  <2>3. Command("flush", thread[t].collected) \in Commands
    BY CommandOK DEF TypeOK, ThreadStates, Rounds
  <2>4. /\ thread'[t].pc = "submit"
        /\ thread'[t].cmd = Command("flush", thread[t].collected)
        /\ thread'[t].collected = {} /\ thread'[t].local = thread[t].local
        /\ thread'[t].opened = thread[t].opened /\ thread'[t].failed = thread[t].failed
    BY <2>1 DEF TypeOK, ThreadStates
  <2>5. Alone(t)
    BY <2>1 DEF TypeOK, Alone
  <2>6. thread' \in [Threads -> ThreadStates]
    <3> DEFINE r == [thread[t] EXCEPT !.pc = "submit",
                       !.cmd = Command("flush", thread[t].collected), !.collected = {}]
    <3>1. thread[t] \in ThreadStates
      BY DEF TypeOK
    <3>2. r \in ThreadStates
      BY <2>3, <3>1 DEF ThreadStates
    <3>3. thread' = [thread EXCEPT ![t] = r]
      BY <2>1
    <3> QED BY <3>2, <3>3 DEF TypeOK
  <2> QED BY <1>2, <2>2, <2>4, <2>5, <2>6
<1> QED BY <1>1, <1>2 DEF Forward, Executes

\* The submission to the next stage succeeds.
LEMMA ForwardedEffect ==
    ASSUME TypeOK, WellBuilt, NEW t \in Threads, Forwarded(t), t[1] < NStages
    PROVE  LET next == t[1] + 1 IN
           /\ Alone(t) /\ thread' \in [Threads -> ThreadStates]
           /\ thread[t].pc = "submit"
           /\ thread'[t].pc = IF thread[t].cmd.op = "flush" THEN "barrier" ELSE "idle"
           /\ thread'[t].cmd = NoCommand
           /\ thread'[t].local = thread[t].local
           /\ thread'[t].collected = thread[t].collected
           /\ thread'[t].opened = thread[t].opened
           /\ thread'[t].failed = thread[t].failed
           /\ next \in 1 .. NStages
           /\ queue[next] \in Seq(Commands) /\ Len(queue[next]) < QueueSize
           /\ Command(Stages[next].does, thread[t].cmd.items) \in Commands
           /\ queue'[next] =
                Append(queue[next], Command(Stages[next].does, thread[t].cmd.items))
           /\ \A s \in 1 .. NStages \ {next} : queue'[s] = queue[s]
           /\ queue' \in [1 .. NStages -> Seq(Commands)]
           /\ output' = output
<1> DEFINE next == t[1] + 1
<1>1. t[1] \in 1 .. NStages /\ next \in 1 .. NStages
  BY ThreadsOfStages, Shape
<1>2. queue[next] \in Seq(Commands)
  BY <1>1 DEF TypeOK
<1>3. thread[t].cmd \in Commands /\ Stages[next].does \in Does
  BY <1>1, Shape DEF TypeOK, ThreadStates
<1>4. Command(Stages[next].does, thread[t].cmd.items) \in Commands
  BY <1>3, CommandOK DEF Commands, ThreadStates
<1>5. /\ Len(queue[next]) < QueueSize
      /\ queue' = [queue EXCEPT ![next] =
           Append(queue[next], Command(Stages[next].does, thread[t].cmd.items))]
  BY DEF Forwarded, Submit, HasRoom
<1>6. /\ queue'[next] =
           Append(queue[next], Command(Stages[next].does, thread[t].cmd.items))
      /\ \A s \in 1 .. NStages \ {next} : queue'[s] = queue[s]
  BY <1>1, <1>5 DEF TypeOK
<1>8. queue' \in [1 .. NStages -> Seq(Commands)]
  <2>1. Append(queue[next], Command(Stages[next].does, thread[t].cmd.items))
           \in Seq(Commands)
    BY <1>2, <1>4
  <2> QED BY <1>5, <2>1 DEF TypeOK
<1>7. /\ Alone(t) /\ thread' \in [Threads -> ThreadStates]
      /\ thread[t].pc = "submit"
      /\ thread'[t].pc = IF thread[t].cmd.op = "flush" THEN "barrier" ELSE "idle"
      /\ thread'[t].cmd = NoCommand
      /\ thread'[t].local = thread[t].local
      /\ thread'[t].collected = thread[t].collected
      /\ thread'[t].opened = thread[t].opened
      /\ thread'[t].failed = thread[t].failed
      /\ output' = output
  BY NoCommandOK DEF TypeOK, Forwarded, Goto, Alone, ThreadStates
<1> QED BY <1>1, <1>2, <1>4, <1>5, <1>6, <1>7, <1>8

\* The commands that are done in one step.
AtOnce(t) == \/ SetThreadLocal(t) \/ Collect(t) \/ Fetch(t)
            \/ Prints(t)         \/ Write(t)   \/ WriteFails(t)

\* They leave the thread without a command, idle or at the barrier.
LEMMA AtOnceEffect ==
    ASSUME TypeOK, NEW t \in Threads, AtOnce(t),
           thread[t].cmd.op = "print_config" => thread[t].local
    PROVE  /\ Alone(t) /\ thread' \in [Threads -> ThreadStates]
           /\ thread[t].pc = "execute"
           /\ thread'[t].cmd = NoCommand
           /\ \/ thread'[t].pc = "idle" /\ thread[t].cmd.op \in Does \ {"forward"}
              \/ /\ thread'[t].pc = "barrier"
                 /\ \/ thread[t].cmd.op = "set_thread_local" /\ thread'[t].local
                    \/ thread[t].cmd.op = "fetch" /\ thread'[t].collected = {}
           /\ thread[t].local => thread'[t].local
           /\ thread'[t].collected = IF thread[t].cmd.op = "collect"
                                     THEN thread[t].collected \cup thread[t].cmd.items
                                     ELSE IF thread[t].cmd.op = "fetch" THEN {}
                                     ELSE thread[t].collected
           /\ thread[t].failed => thread'[t].failed
           /\ queue' = queue
<1>1. CASE SetThreadLocal(t)
  BY <1>1, NoCommandOK DEF TypeOK, SetThreadLocal, Executes, Goto, Alone, ThreadStates
<1>2. CASE Collect(t)
  BY <1>2, NoCommandOK DEF TypeOK, Collect, Executes, Goto, Alone, ThreadStates, Does
<1>3. CASE Fetch(t)
  BY <1>3, NoCommandOK DEF TypeOK, Fetch, Executes, Goto, Alone, ThreadStates
<1>4. CASE Prints(t)
  BY <1>4, NoCommandOK DEF TypeOK, Prints, Executes, Goto, Alone, ThreadStates, Does
<1>5. CASE Write(t)
  BY <1>5, NoCommandOK DEF TypeOK, Write, Executes, Goto, Alone, ThreadStates, Does
<1>6. CASE WriteFails(t)
  BY <1>6, NoCommandOK DEF TypeOK, WriteFails, Executes, Goto, Alone, ThreadStates, Does
<1> QED BY <1>1, <1>2, <1>3, <1>4, <1>5, <1>6 DEF AtOnce

\* The output stays a count.
LEMMA OutputTyped ==
    ASSUME TypeOK, NEW t \in Threads, AtOnce(t)
    PROVE  output' \in [1 .. Items -> Nat]
<1>1. CASE SetThreadLocal(t) \/ Collect(t)
  BY <1>1 DEF TypeOK, SetThreadLocal, Collect
<1>2. CASE Fetch(t)
  BY <1>2 DEF TypeOK, Fetch, Outputs
<1>3. CASE Prints(t)
  BY <1>3 DEF TypeOK, Prints, Outputs
<1>4. CASE Write(t)
  BY <1>4 DEF TypeOK, Write, FileHas
<1>5. CASE WriteFails(t)
  BY <1>5 DEF TypeOK, WriteFails, FileHas
<1> QED BY <1>1, <1>2, <1>3, <1>4, <1>5 DEF AtOnce

\* Main moves on within a step of its script.
LEMMA MainAtEffect ==
    ASSUME TypeOK, NEW place, MainAt(place)
    PROVE  /\ main'.step = main.step /\ main'.fed = main.fed
           /\ main'.at = place /\ main'.n = 0
           /\ place \in {"lock", "submit", "barrier", "drain", "join", "done", "failed"} =>
                main' \in MainStates
<1>1. main \in MainStates /\ main' = [main EXCEPT !.at = place, !.n = 0]
  BY DEF TypeOK, MainAt
<1>2. 0 \in 0 .. Many
  BY PipelineAssumption
<1> QED BY <1>1, <1>2 DEF MainStates

\* Main goes on to the next step.
LEMMA NextStepEffect ==
    ASSUME TypeOK, WellBuilt, ~ScriptEnded, NextStep
    PROVE  /\ main'.step = main.step + 1 /\ main'.fed = main.fed
           /\ main'.at = "lock" /\ main'.n = 0
           /\ main' \in MainStates
<1>1. main.step + 1 \in 1 .. Len(Script) + 1
  <2>1. main.step \in Steps
    BY MainTyped, InScript
  <2> QED BY <2>1, Shape
<1>2. main \in MainStates
      /\ main' = [main EXCEPT !.step = @ + 1, !.at = "lock", !.n = 0]
  BY DEF TypeOK, NextStep
<1>3. 0 \in 0 .. Many
  BY PipelineAssumption
<1> QED BY <1>1, <1>2, <1>3 DEF MainStates

(* What a step of main does, action by action.                             *)

\* Main has taken the lock of the stage, and finds its pool expired or not.
LEMMA LockEffect ==
    ASSUME TypeOK, WellBuilt, MainOK, Lock
    PROVE  /\ main' \in MainStates
           /\ main.at = "lock" /\ ~ScriptEnded
           /\ main'.step = main.step /\ main'.fed = main.fed /\ main'.n = 0
           /\ \/ Op = "shutdown" /\ main'.at = "drain" /\ expired' = expired \cup {Here}
              \/ /\ Op # "shutdown" /\ main'.at \in {"submit", "failed"}
                 /\ expired' = expired
           /\ UNCHANGED <<program, queue, stopped, thread, output>>
<1>1. CASE Op = "shutdown"
  BY <1>1, MainAtEffect DEF Lock, MainStates
<1>2. CASE Op # "shutdown"
  <2>1. PICK place \in {"submit", "failed"} : MainAt(place) /\ expired' = expired
    BY <1>2 DEF Lock
  <2> QED BY <1>2, <2>1, MainAtEffect DEF Lock, MainStates
<1> QED BY <1>1, <1>2

\* What submitting does to the queues.
LEMMA SubmitEffect ==
    ASSUME TypeOK, NEW s \in 1 .. NStages, NEW c \in Commands, Submit(s, c)
    PROVE  /\ queue[s] \in Seq(Commands) /\ Len(queue[s]) < QueueSize
           /\ queue'[s] = Append(queue[s], c)
           /\ \A r \in 1 .. NStages \ {s} : queue'[r] = queue[r]
           /\ queue' \in [1 .. NStages -> Seq(Commands)]
<1>1. queue[s] \in Seq(Commands)
  BY DEF TypeOK
<1>2. Append(queue[s], c) \in Seq(Commands)
  BY <1>1
<1>3. queue' = [queue EXCEPT ![s] = Append(queue[s], c)] /\ Len(queue[s]) < QueueSize
  BY DEF Submit, HasRoom
<1> QED BY <1>1, <1>2, <1>3 DEF TypeOK

\* The next item goes into the queue of the first stage.
LEMMA FeedItemEffect ==
    ASSUME TypeOK, WellScripted, MainOK, FeedItem
    PROVE  LET c == Command(Stages[1].does, {main.fed + 1}) IN
           /\ main' \in MainStates
           /\ main.at = "submit" /\ Op = "feed" /\ Here = 1 /\ 1 \in 1 .. NStages
           /\ main.step = FeedStep
           /\ main'.fed = main.fed + 1 /\ main'.at = "lock" /\ main'.n = main.n
           /\ main'.step = IF main.fed + 1 = Items THEN main.step + 1 ELSE main.step
           /\ c \in Commands
           /\ queue[1] \in Seq(Commands) /\ Len(queue[1]) < QueueSize
           /\ queue'[1] = Append(queue[1], c)
           /\ \A s \in 1 .. NStages \ {1} : queue'[s] = queue[s]
           /\ queue' \in [1 .. NStages -> Seq(Commands)]
           /\ UNCHANGED <<program, expired, stopped, thread, output>>
<1> DEFINE c == Command(Stages[1].does, {main.fed + 1})
<1>0. WellBuilt /\ FedOnce
  BY DEF WellScripted
<1>1. /\ main.at = "submit" /\ Op = "feed" /\ ~ScriptEnded
      /\ Submit(Here, Command(Stages[Here].does, {main.fed + 1}))
      /\ main' = [main EXCEPT !.fed = @ + 1, !.at = "lock",
                              !.step = IF main.fed + 1 = Items THEN @ + 1 ELSE @]
      /\ UNCHANGED <<program, expired, stopped, thread, output>>
  BY DEF FeedItem, OnlyMain, Op
<1>2. main.step = FeedStep /\ Here = 1 /\ main.step \in Steps /\ 1 \in 1 .. NStages
  BY <1>0, <1>1, InScript DEF FedOnce, TypeOK, Do, MainStates
<1>3. main.fed < Items /\ main.fed \in Nat /\ Items \in Nat
  BY <1>2, PipelineAssumption DEF MainOK, TypeOK, MainStates
<1>4. c \in Commands
  BY <1>0, <1>2, <1>3, Shape, CommandOK
<1>5. main' \in MainStates
  <2>1. main.step + 1 \in 1 .. Len(Script) + 1
    BY <1>2, <1>0, Shape
  <2>2. main.fed + 1 \in 0 .. Items
    BY <1>3
  <2>3. main \in MainStates
    BY DEF TypeOK
  <2> QED BY <1>1, <2>1, <2>2, <2>3 DEF MainStates
<1>6. /\ main'.fed = main.fed + 1 /\ main'.at = "lock" /\ main'.n = main.n
      /\ main'.step = IF main.fed + 1 = Items THEN main.step + 1 ELSE main.step
  BY <1>1 DEF TypeOK, MainStates
<1>7. Submit(1, c)
  BY <1>1, <1>2
<1> QED BY <1>1, <1>2, <1>4, <1>5, <1>6, <1>7, SubmitEffect

\* Main gives up reading.
LEMMA ReadFailsEffect ==
    ASSUME TypeOK, ReadFails
    PROVE  /\ main' \in MainStates
           /\ main.at = "lock"
           /\ main'.step = main.step /\ main'.fed = main.fed
           /\ main'.at = "failed" /\ main'.n = 0
           /\ UNCHANGED <<program, queue, expired, stopped, thread, output>>
BY MainAtEffect DEF ReadFails, OnlyMain, MainStates

\* One more command of a round goes into the queue of its stage.
LEMMA SubmitRoundEffect ==
    ASSUME TypeOK, WellScripted, MainOK, SubmitRound
    PROVE  LET c == Command(Op, {}) IN
           /\ main' \in MainStates
           /\ main.at = "submit" /\ Op \in Rounds /\ ~ScriptEnded
           /\ Here \in 1 .. NStages /\ main.step \in Steps
           /\ main'.step = main.step /\ main'.fed = main.fed /\ main'.n = main.n + 1
           /\ main'.at = IF main.n + 1 = Stages[Here].tasks THEN "barrier" ELSE "submit"
           /\ c \in Commands /\ c.op = Op /\ c.items = {}
           /\ queue[Here] \in Seq(Commands) /\ Len(queue[Here]) < QueueSize
           /\ queue'[Here] = Append(queue[Here], c)
           /\ \A s \in 1 .. NStages \ {Here} : queue'[s] = queue[s]
           /\ queue' \in [1 .. NStages -> Seq(Commands)]
           /\ UNCHANGED <<program, expired, stopped, thread, output>>
<1> DEFINE c == Command(Op, {})
<1>0. WellBuilt
  BY DEF WellScripted
<1>1. /\ main.at = "submit" /\ Op \in Rounds /\ ~ScriptEnded
      /\ Submit(Here, c)
      /\ main' = [main EXCEPT !.n = @ + 1,
                    !.at = IF main.n + 1 = Stages[Here].tasks THEN "barrier" ELSE @]
      /\ UNCHANGED <<program, expired, stopped, thread, output>>
  BY DEF SubmitRound, OnlyMain, MainOK
<1>2. Here \in 1 .. NStages /\ main.step \in Steps
  BY <1>0, <1>1, InScript DEF TypeOK, MainStates
<1>3. main.n < Stages[Here].tasks /\ Stages[Here].tasks \in 1 .. Many /\ main.n \in Nat
  BY <1>0, <1>1, <1>2, Shape DEF MainOK, TypeOK, MainStates
<1>4. main.n + 1 \in 0 .. Many
  BY <1>3, PipelineAssumption
<1>5. c \in Commands /\ c.op = Op /\ c.items = {}
  BY <1>1, CommandOK
<1>6. main' \in MainStates
  BY <1>1, <1>4 DEF TypeOK, MainStates
<1>7. /\ main'.step = main.step /\ main'.fed = main.fed /\ main'.n = main.n + 1
      /\ main'.at = IF main.n + 1 = Stages[Here].tasks THEN "barrier" ELSE "submit"
  BY <1>1 DEF TypeOK, MainStates
<1> HIDE DEF c
<1>8. /\ queue[Here] \in Seq(Commands) /\ Len(queue[Here]) < QueueSize
      /\ queue'[Here] = Append(queue[Here], c)
      /\ \A s \in 1 .. NStages \ {Here} : queue'[s] = queue[s]
      /\ queue' \in [1 .. NStages -> Seq(Commands)]
  BY <1>1, <1>2, <1>5, SubmitEffect
<1> QED BY <1>1, <1>2, <1>5, <1>6, <1>7, <1>8 DEF c

\* The barrier opens: the threads of the stage are idle again.
LEMMA RoundEndsEffect ==
    ASSUME TypeOK, WellBuilt, MainOK, RoundEnds
    PROVE  /\ main' \in MainStates
           /\ main.at = "barrier" /\ ~ScriptEnded /\ Op \in Rounds
           /\ main'.step = main.step + 1 /\ main'.fed = main.fed
           /\ main'.at = "lock" /\ main'.n = 0
           /\ \A t \in Workers(Here) : thread[t].pc = "barrier"
           /\ thread' \in [Threads -> ThreadStates]
           /\ \A t \in Threads :
                /\ thread'[t].pc = IF t[1] = Here THEN "idle" ELSE thread[t].pc
                /\ thread'[t].cmd = thread[t].cmd
                /\ thread'[t].local = thread[t].local
                /\ thread'[t].collected = thread[t].collected
                /\ thread'[t].opened = thread[t].opened
                /\ thread'[t].failed = thread[t].failed
           /\ UNCHANGED <<program, queue, expired, stopped, output>>
<1>1. main.at = "barrier" /\ ~ScriptEnded /\ NextStep /\ Op \in Rounds
  BY DEF RoundEnds, MainOK
<1>2. /\ thread' = [t \in Threads |-> IF t[1] = Here THEN [thread[t] EXCEPT !.pc = "idle"]
                                                     ELSE thread[t]]
      /\ \A t \in Workers(Here) : thread[t].pc = "barrier"
      /\ UNCHANGED <<program, queue, expired, stopped, output>>
  BY DEF RoundEnds
<1>3. \A t \in Threads : thread[t] \in ThreadStates
  BY DEF TypeOK
<1>4. thread' \in [Threads -> ThreadStates]
  BY <1>2, <1>3 DEF ThreadStates
<1>5. \A t \in Threads :
                /\ thread'[t].pc = IF t[1] = Here THEN "idle" ELSE thread[t].pc
                /\ thread'[t].cmd = thread[t].cmd
                /\ thread'[t].local = thread[t].local
                /\ thread'[t].collected = thread[t].collected
                /\ thread'[t].opened = thread[t].opened
                /\ thread'[t].failed = thread[t].failed
  BY <1>2, <1>3 DEF ThreadStates
<1> QED BY <1>1, <1>2, <1>4, <1>5, NextStepEffect

\* The queue is empty and the pool is stopped.
LEMMA DrainedEffect ==
    ASSUME TypeOK, MainOK, Drained
    PROVE  /\ main' \in MainStates
           /\ main.at = "drain" /\ ~ScriptEnded /\ queue[Here] = <<>>
           /\ main'.step = main.step /\ main'.fed = main.fed
           /\ main'.at = "join" /\ main'.n = 0
           /\ stopped' = stopped \cup {Here}
           /\ UNCHANGED <<program, queue, expired, thread, output>>
BY MainAtEffect DEF Drained, OnlyMain, MainStates, MainOK

\* One thread is joined, from the last to the first.
LEMMA JoinEffect ==
    ASSUME TypeOK, WellBuilt, MainOK, Join
    PROVE  LET t == <<Here, Stages[Here].tasks - main.n>> IN
           /\ main' \in MainStates
           /\ main.at = "join" /\ ~ScriptEnded /\ main'.fed = main.fed
           /\ t \in Threads
           /\ \/ main'.at = "failed" /\ main'.step = main.step
              \/ /\ thread[t].pc = "exited" /\ ~thread[t].failed
                 /\ \/ /\ main.n + 1 = Stages[Here].tasks
                       /\ main'.step = main.step + 1 /\ main'.at = "lock" /\ main'.n = 0
                    \/ /\ main.n + 1 < Stages[Here].tasks
                       /\ main'.step = main.step /\ main'.at = "join"
                       /\ main'.n = main.n + 1
           /\ UNCHANGED <<program, queue, expired, stopped, thread, output>>
<1> DEFINE t == <<Here, Stages[Here].tasks - main.n>>
<1>1. /\ main.at = "join" /\ ~ScriptEnded /\ Terminated(t)
      /\ IF thread[t].failed \/ thread[t].pc = "panicked" THEN MainAt("failed")
         ELSE IF main.n + 1 = Stages[Here].tasks THEN NextStep
         ELSE main' = [main EXCEPT !.n = @ + 1]
      /\ UNCHANGED <<program, queue, expired, stopped, thread, output>>
  BY DEF Join, MainOK, OnlyMain
<1>2. /\ Here \in 1 .. NStages /\ Stages[Here].tasks \in 1 .. Many
      /\ main.n < Stages[Here].tasks /\ main.n \in Nat
      /\ Stages[Here].tasks - main.n \in 1 .. Stages[Here].tasks
  <2>1. Here \in 1 .. NStages
    BY <1>1, MainTyped, InScript
  <2>2. Stages[Here].tasks \in 1 .. Many /\ Stages[Here].tasks \in Nat
    BY <2>1, Shape
  <2>3. main.n < Stages[Here].tasks /\ main.n \in Nat
    BY <1>1, MainTyped DEF MainOK
  <2> QED BY <2>1, <2>2, <2>3
<1>3. t \in Threads
  BY <1>2, ThreadsOfStages
<1>4. CASE thread[t].failed \/ thread[t].pc = "panicked"
  BY <1>1, <1>3, <1>4, MainAtEffect DEF MainStates
<1>5. CASE ~(thread[t].failed \/ thread[t].pc = "panicked")
  <2>1. thread[t].pc = "exited" /\ ~thread[t].failed
    BY <1>1, <1>5 DEF Terminated
  <2>2. CASE main.n + 1 = Stages[Here].tasks
    <3>1. NextStep
      BY <1>1, <1>5, <2>2
    <3> QED BY <1>1, <1>3, <2>1, <2>2, <3>1, NextStepEffect
  <2>3. CASE main.n + 1 # Stages[Here].tasks
    <3>1. main' = [main EXCEPT !.n = @ + 1]
      BY <1>1, <1>5, <2>3
    <3>2. main.n + 1 < Stages[Here].tasks /\ main.n + 1 \in 0 .. Many
      BY <1>2, <2>3, PipelineAssumption
    <3>3. /\ main'.fed = main.fed /\ main'.step = main.step /\ main'.at = "join"
          /\ main'.n = main.n + 1
      BY <1>1, <3>1 DEF TypeOK, MainStates
    <3>4. main' \in MainStates
      BY <3>1, <3>2 DEF TypeOK, MainStates
    <3> QED BY <1>1, <1>3, <2>1, <3>2, <3>3, <3>4
  <2> QED BY <2>2, <2>3
<1> QED BY <1>4, <1>5

\* Main returns.
LEMMA ReturnEffect ==
    ASSUME TypeOK, Return
    PROVE  /\ main' \in MainStates
           /\ main.at = "lock" /\ main'.step = main.step /\ main'.fed = main.fed
           /\ main'.at \in {"done", "failed"} /\ main'.n = 0
           /\ UNCHANGED <<program, queue, expired, stopped, thread, output>>
<1>1. PICK place \in {"done", "failed"} : MainAt(place)
  BY DEF Return
<1> QED BY <1>1, MainAtEffect DEF Return, OnlyMain, MainStates

-------------------------------------------------------------------------------
(* No command panics, in a state that satisfies the invariant.             *)

\* Once main feeds, the threads of a stage that main prepares are told.
LEMMA ToldByThen ==
    ASSUME TypeOK, WellScripted, Told, FeedStep <= main.step,
           NEW t \in Threads, \E k \in Steps : Script[k] = Do("set_thread_local", t[1])
    PROVE  thread[t].local
<1> USE DEF WellScripted
<1>1. PICK k \in Steps : Script[k] = Do("set_thread_local", t[1])
  OBVIOUS
<1>2. Script[k].op = "set_thread_local" /\ Script[k].stage = t[1]
  BY <1>1 DEF Do
<1>3. k < FeedStep /\ FeedStep \in Steps
  BY <1>2 DEF FedOnce
<1>4. k < main.step
  BY <1>3, MainTyped, Shape
<1>5. t \in Workers(Script[k].stage)
  BY <1>2, ThreadsOfStages
<1> QED BY <1>2, <1>4, <1>5 DEF Told

\* A stage whose pool has expired is only being shut down, or is, and those before
\* it are finished.
LEMMA EarlierFinished ==
    ASSUME TypeOK, WellScripted, Expires, NEW s \in 1 .. NStages, s + 1 \in expired
    PROVE  ShutdownStep(s) < main.step
<1> USE DEF WellScripted
<1>1. s + 1 \in 1 .. NStages /\ s \in 1 .. NStages - 1
  BY Shape DEF TypeOK
<1>2. ShutdownStep(s) < ShutdownStep(s + 1)
  BY <1>1 DEF ShutDownInOrder
<1>3. ShutdownStep(s) \in Nat /\ ShutdownStep(s + 1) \in Nat
  BY <1>1, Shape DEF ShutDownInOrder
<1>4. ShutdownStep(s + 1) <= main.step
  BY <1>3, MainTyped DEF Expires
<1> QED BY <1>2, <1>3, <1>4, MainTyped

\* A round is the step of the script that main is in.
LEMMA RoundStep ==
    ASSUME TypeOK, WellBuilt, NEW s, NEW op, InRound(s, op)
    PROVE  /\ main.step \in Steps /\ ~ScriptEnded
           /\ Script[main.step].op = op /\ Script[main.step].stage = s
           /\ s \in 1 .. NStages /\ op \in Rounds /\ op \notin Does
<1>1. ~ScriptEnded
  BY NotInScript DEF InRound, Rounds
<1> QED BY <1>1, MainTyped, InScript DEF InRound, Rounds, Does

\* A command that forwards finds the next pool, told of and not expired.
LEMMA Welcome ==
    ASSUME IInv, WellScripted, NEW t \in Threads
    PROVE  /\ Executes(t, "forward") \/ Executes(t, "flush") =>
                thread[t].local /\ t[1] + 1 \notin expired /\ t[1] < NStages
           /\ Executes(t, "print_config") => thread[t].local
           /\ thread[t].pc = "submit" => t[1] < NStages
<1> USE DEF WellScripted
<1>0. TypeOK /\ Told /\ Expires /\ Hands /\ Finished
  BY DEF IInv
<1>1. t[1] \in 1 .. NStages /\ t \in Workers(t[1])
  BY ThreadsOfStages
<1>2. CASE Executes(t, "forward")
  <2>1. /\ thread[t].pc = "execute" /\ Stages[t[1]].does = "forward"
        /\ FeedStep <= main.step
    BY <1>0, <1>2, RoundStep DEF Hands, HandsOf, Fits, Executes, Does
  <2>2. thread[t].local /\ t[1] < NStages
    BY <1>0, <1>1, <2>1, ToldByThen DEF Prepared
  <2>3. t[1] + 1 \notin expired
    <3>1. SUFFICES ASSUME t[1] + 1 \in expired PROVE FALSE
      OBVIOUS
    <3>2. ShutdownStep(t[1]) < main.step
      BY <1>0, <1>1, <3>1, EarlierFinished
    <3> QED BY <1>0, <1>1, <2>1, <3>2 DEF Finished
  <2> QED BY <1>2, <2>1, <2>2, <2>3 DEF Executes
<1>3. CASE Executes(t, "flush")
  <2>1. thread[t].pc = "execute" /\ InRound(t[1], "flush")
    BY <1>0, <1>1, <1>3, Shape DEF Hands, HandsOf, Fits, Executes, Does
  <2>2. /\ main.step \in Steps /\ Script[main.step].op = "flush"
        /\ Script[main.step].stage = t[1]
    BY <1>0, <2>1, RoundStep
  <2>3. t[1] < NStages /\ \E j \in Steps : Script[j] = Do("set_thread_local", t[1])
    BY <2>2 DEF Prepared
  <2>4. FeedStep <= main.step
    BY <2>2, MainTyped, <1>0, Shape DEF FedOnce
  <2>5. thread[t].local
    BY <1>0, <2>3, <2>4, ToldByThen
  <2>6. t[1] + 1 \notin expired
    <3>1. SUFFICES ASSUME t[1] + 1 \in expired PROVE FALSE
      OBVIOUS
    <3>2. ShutdownStep(t[1]) < main.step
      BY <1>0, <1>1, <3>1, EarlierFinished
    <3> QED BY <1>0, <1>1, <2>1, <3>2 DEF Finished
  <2> QED BY <1>3, <2>1, <2>3, <2>5, <2>6 DEF Executes
<1>4. ASSUME Executes(t, "print_config") PROVE thread[t].local
  <2>1. Stages[t[1]].does = "print_config" /\ FeedStep <= main.step
    BY <1>0, <1>4, RoundStep DEF Hands, HandsOf, Fits, Executes, Does
  <2> QED BY <1>0, <1>1, <2>1, ToldByThen DEF Prepared
<1>5. ASSUME thread[t].pc = "submit" PROVE t[1] < NStages
  BY <1>0, <1>5 DEF Hands, HandsOf
<1> QED BY <1>2, <1>3, <1>4, <1>5

-------------------------------------------------------------------------------
(* The parts of the invariant, one by one.                                 *)

\* The invariant holds when main starts.
LEMMA InitIInv == Init => IInv
<1> SUFFICES ASSUME Init PROVE IInv
  OBVIOUS
<1>1. WellScripted /\ WellBuilt /\ FedOnce /\ ShutDownInOrder
  BY EveryProgram DEF Init, WellScripted
<1>2. /\ Len(Script) \in Nat \ {0} /\ FeedStep \in 1 .. Len(Script)
      /\ Steps = 1 .. Len(Script)
  BY <1>1, Shape DEF FedOnce
<1>3. /\ main.step = 1 /\ main.at = "lock" /\ main.n = 0 /\ main.fed = 0
      /\ main \in MainStates
  BY <1>2, PipelineAssumption DEF Init, MainStates
<1>4. \A s \in 1 .. NStages : queue[s] = <<>> /\ Len(queue[s]) = 0
  BY DEF Init
<1>5. \A t \in Threads :
        /\ thread[t].pc = "idle" /\ thread[t].cmd = NoCommand /\ ~thread[t].failed
        /\ thread[t].collected = {} /\ ~thread[t].local
  BY DEF Init, Fresh
<1>6. thread \in [Threads -> ThreadStates]
  BY NoCommandOK DEF Init, Fresh, ThreadStates
<1>7. TypeOK
  BY <1>3, <1>4, <1>6, PipelineAssumption DEF Init, TypeOK
<1>8. MainOK
  BY <1>2, <1>3, PipelineAssumption DEF MainOK
<1>9. \A s \in 1 .. NStages : ~(ShutdownStep(s) < main.step)
  BY <1>1, <1>2, <1>3 DEF ShutDownInOrder
<1>10. Expires /\ Finished
  BY <1>3, <1>9 DEF Init, Expires, Finished
<1>11. Queued /\ Hands
  BY <1>4, <1>5 DEF Queued, Hands, HandsOf
<1>12. \A s, op : ~InRound(s, op)
  BY <1>3 DEF InRound
<1>13. RoundsCounted /\ RoundsLast
  BY <1>12 DEF RoundsCounted, RoundsLast
<1>14. Told /\ Taken
  BY <1>2, <1>3 DEF Told, Taken
<1> QED BY <1>7, <1>8, <1>10, <1>11, <1>13, <1>14 DEF IInv

\* The steps of a thread, those that end a command in one step taken together.
LEMMA WorkCases ==
    ASSUME NEW t \in Threads, Work(t)
    PROVE  Take(t) \/ Exit(t) \/ Forward(t) \/ Forwarded(t) \/ AtOnce(t)
BY DEF Work, AtOnce

\* They are what the thread executes.
LEMMA Executing ==
    ASSUME NEW t \in Threads, AtOnce(t)
    PROVE  Executes(t, thread[t].cmd.op)
BY DEF AtOnce, SetThreadLocal, Collect, Fetch, Prints, Write, WriteFails, Executes

\* Types, by what is typed.
LEMMA KeepsTypeOK ==
    ASSUME TypeOK, WellBuilt, program' = program, main' \in MainStates,
           queue' \in [1 .. NStages -> Seq(Commands)],
           \A s \in 1 .. NStages : Len(queue'[s]) <= QueueSize,
           stopped' \subseteq expired', expired' \subseteq 1 .. NStages,
           thread' \in [Threads -> ThreadStates], output' \in [1 .. Items -> Nat]
    PROVE  TypeOK'
<1>1. MainStates' = MainStates /\ ThreadStates' = ThreadStates /\ Commands' = Commands
  BY SameProgram DEF MainStates, ThreadStates, Commands
<1> QED BY <1>1, SameProgram DEF TypeOK

\* A queue without its head.
LEMMA TailShorter ==
    ASSUME NEW q \in Seq(Commands), q # <<>>
    PROVE  /\ Tail(q) \in Seq(Commands) /\ Len(q) \in Nat \ {0}
           /\ Len(Tail(q)) = Len(q) - 1 /\ Head(q) = q[1]
           /\ \A k \in 1 .. Len(Tail(q)) : Tail(q)[k] = q[k + 1] /\ k + 1 \in 1 .. Len(q)
OBVIOUS

\* A queue with one more command.
LEMMA AppendLonger ==
    ASSUME NEW q \in Seq(Commands), NEW c \in Commands
    PROVE  /\ Append(q, c) \in Seq(Commands) /\ Len(q) \in Nat
           /\ Len(Append(q, c)) = Len(q) + 1 /\ Append(q, c)[Len(q) + 1] = c
           /\ \A k \in 1 .. Len(q) : Append(q, c)[k] = q[k]
OBVIOUS

\* A thread's step keeps the types: no queue outgrows its capacity.
LEMMA WorkTypeOK ==
    ASSUME IInv, WellScripted, NEW t \in Threads, Work(t)
    PROVE  TypeOK'
<1> USE DEF WellScripted
<1>0. /\ TypeOK /\ UNCHANGED <<program, main, expired, stopped>>
      /\ main' \in MainStates /\ queue \in [1 .. NStages -> Seq(Commands)]
      /\ \A s \in 1 .. NStages : Len(queue[s]) <= QueueSize
      /\ stopped \subseteq expired /\ expired \subseteq 1 .. NStages
      /\ output \in [1 .. Items -> Nat]
  BY WorkLeaves DEF IInv, TypeOK
<1>1. CASE Take(t)
  <2>1. \A s \in 1 .. NStages : Len(queue'[s]) <= QueueSize
    <3>1. t[1] \in 1 .. NStages
      BY ThreadsOfStages
    <3>2. /\ queue[t[1]] \in Seq(Commands) /\ queue[t[1]] # <<>>
          /\ queue'[t[1]] = Tail(queue[t[1]])
          /\ \A s \in 1 .. NStages \ {t[1]} : queue'[s] = queue[s]
      BY <1>0, <1>1, TakeEffect
    <3>3. Len(queue'[t[1]]) <= Len(queue[t[1]]) /\ Len(queue'[t[1]]) \in Nat
      BY <3>2, TailShorter
    <3>4. Len(queue[t[1]]) <= QueueSize /\ Len(queue[t[1]]) \in Nat
      BY <1>0, <3>1, <3>2
    <3>5. Len(queue'[t[1]]) <= QueueSize
      BY <3>3, <3>4, PipelineAssumption
    <3> QED BY <1>0, <3>2, <3>5
  <2> QED BY <1>0, <1>1, <2>1, TakeEffect, KeepsTypeOK
<1>2. CASE Exit(t)
  BY <1>0, <1>2, ExitEffect, KeepsTypeOK
<1>3. CASE Forward(t)
  <2>1. thread[t].local /\ t[1] + 1 \notin expired
    BY <1>3, Welcome DEF Forward
  <2> QED BY <1>0, <1>3, <2>1, ForwardEffect, KeepsTypeOK
<1>4. CASE Forwarded(t)
  <2>0. t[1] < NStages
    BY <1>4, Welcome DEF Forwarded
  <2>1. \A s \in 1 .. NStages : Len(queue'[s]) <= QueueSize
    <3>1. t[1] + 1 \in 1 .. NStages /\ Len(queue'[t[1] + 1]) <= QueueSize
      BY <1>0, <1>4, <2>0, ForwardedEffect, AppendLonger, PipelineAssumption
    <3> QED BY <1>0, <1>4, <2>0, <3>1, ForwardedEffect
  <2> QED BY <1>0, <1>4, <2>0, <2>1, ForwardedEffect, KeepsTypeOK
<1>5. CASE AtOnce(t)
  <2>1. thread[t].cmd.op = "print_config" => thread[t].local
    BY <1>5, Welcome, Executing
  <2>2. queue' = queue /\ thread' \in [Threads -> ThreadStates]
    BY <1>0, <1>5, <2>1, AtOnceEffect
  <2>3. output' \in [1 .. Items -> Nat]
    BY <1>0, <1>5, OutputTyped
  <2> QED BY <1>0, <2>2, <2>3, KeepsTypeOK
<1> QED BY <1>1, <1>2, <1>3, <1>4, <1>5, WorkCases

\* In the same step, main does the same thing to the same stage.
LEMMA SameStep ==
    program' = program /\ main'.step = main.step =>
        ScriptEnded' = ScriptEnded /\ Op' = Op /\ Here' = Here
BY SameProgram DEF ScriptEnded, Op, Here

\* So does a step of main.
LEMMA MainTypeOK ==
    ASSUME IInv, WellScripted, Main
    PROVE  TypeOK'
<1> USE DEF WellScripted
<1>0. /\ TypeOK /\ MainOK
      /\ queue \in [1 .. NStages -> Seq(Commands)]
      /\ \A s \in 1 .. NStages : Len(queue[s]) <= QueueSize
      /\ stopped \subseteq expired /\ expired \subseteq 1 .. NStages
      /\ thread \in [Threads -> ThreadStates]
      /\ output \in [1 .. Items -> Nat]
  BY DEF IInv, TypeOK
<1>1. CASE Lock
  <2>1. Here \in 1 .. NStages
    BY <1>0, <1>1, LockEffect, InScript, MainTyped
  <2> QED BY <1>0, <1>1, <2>1, LockEffect, KeepsTypeOK
<1>2. CASE FeedItem
  <2> DEFINE c == Command(Stages[1].does, {main.fed + 1})
  <2>1. /\ main' \in MainStates /\ 1 \in 1 .. NStages /\ c \in Commands
        /\ queue[1] \in Seq(Commands) /\ Len(queue[1]) < QueueSize
        /\ queue'[1] = Append(queue[1], c)
        /\ \A s \in 1 .. NStages \ {1} : queue'[s] = queue[s]
        /\ queue' \in [1 .. NStages -> Seq(Commands)]
        /\ UNCHANGED <<program, expired, stopped, thread, output>>
    BY <1>0, <1>2, FeedItemEffect
  <2> HIDE DEF c
  <2>2. Len(queue'[1]) <= QueueSize
    BY <2>1, AppendLonger, PipelineAssumption
  <2>3. \A s \in 1 .. NStages : Len(queue'[s]) <= QueueSize
    BY <1>0, <2>1, <2>2
  <2> QED BY <1>0, <2>1, <2>3, KeepsTypeOK
<1>3. CASE ReadFails
  BY <1>0, <1>3, ReadFailsEffect, KeepsTypeOK
<1>4. CASE SubmitRound
  <2> DEFINE c == Command(Op, {})
  <2>1. /\ main' \in MainStates /\ Here \in 1 .. NStages /\ c \in Commands
        /\ queue[Here] \in Seq(Commands) /\ Len(queue[Here]) < QueueSize
        /\ queue'[Here] = Append(queue[Here], c)
        /\ \A s \in 1 .. NStages \ {Here} : queue'[s] = queue[s]
        /\ queue' \in [1 .. NStages -> Seq(Commands)]
        /\ UNCHANGED <<program, expired, stopped, thread, output>>
    BY <1>0, <1>4, SubmitRoundEffect
  <2> HIDE DEF c
  <2>2. Len(queue'[Here]) <= QueueSize
    BY <2>1, AppendLonger, PipelineAssumption
  <2>3. \A s \in 1 .. NStages : Len(queue'[s]) <= QueueSize
    BY <1>0, <2>1, <2>2
  <2> QED BY <1>0, <2>1, <2>3, KeepsTypeOK
<1>5. CASE RoundEnds
  BY <1>0, <1>5, RoundEndsEffect, KeepsTypeOK
<1>6. CASE Drained
  <2>1. Here \in expired
    BY <1>0, <1>6, DrainedEffect DEF MainOK
  <2> QED BY <1>0, <1>6, <2>1, DrainedEffect, KeepsTypeOK
<1>7. CASE Join
  BY <1>0, <1>7, JoinEffect, KeepsTypeOK
<1>8. CASE Return
  BY <1>0, <1>8, ReturnEffect, KeepsTypeOK
<1> QED BY <1>1, <1>2, <1>3, <1>4, <1>5, <1>6, <1>7, <1>8 DEF Main

\* What main has fed, by its step.
Fed(step, fed) == /\ step < FeedStep => fed = 0
                  /\ step = FeedStep => fed < Items
                  /\ step > FeedStep => fed = Items

\* A step that is not feeding changes nothing about what is fed.
LEMMA FedOnward ==
    ASSUME TypeOK, WellScripted, MainOK, ~ScriptEnded, Op # "feed"
    PROVE  Fed(main.step + 1, main.fed)
<1>1. main.step # FeedStep /\ FeedStep \in Nat
  BY InScript, MainTyped, Shape DEF WellScripted, FedOnce, Do
<1> QED BY <1>1, MainTyped, PipelineAssumption DEF MainOK, Fed, WellScripted

\* Main follows its script.
LEMMA MainMainOK ==
    ASSUME IInv, WellScripted, Main
    PROVE  MainOK'
<1> USE DEF WellScripted
<1>0. TypeOK /\ MainOK /\ main.step \in Nat /\ main.fed \in Nat /\ main.n \in Nat
  BY MainTyped DEF IInv
<1>1. program' = program
  BY DEF Main, Lock, FeedItem, ReadFails, SubmitRound, RoundEnds, Drained, Join, Return,
         OnlyMain
<1>2. /\ FeedStep' = FeedStep /\ Stages' = Stages
      /\ main'.step = main.step => ScriptEnded' = ScriptEnded /\ Op' = Op /\ Here' = Here
  BY <1>1, SameProgram, SameStep
<1>3. CASE Lock
  <2>1. /\ Here \in 1 .. NStages /\ Stages[Here].tasks \in Nat \ {0}
    BY <1>0, <1>3, LockEffect, InScript, MainTyped, Shape
  <2> QED BY <1>0, <1>2, <1>3, <2>1, LockEffect DEF MainOK
<1>4. CASE FeedItem
  <2>1. /\ main'.at = "lock" /\ main'.n = 0 /\ main.step = FeedStep
        /\ main'.fed = main.fed + 1
        /\ main'.step = IF main.fed + 1 = Items THEN main.step + 1 ELSE main.step
    BY <1>0, <1>4, FeedItemEffect DEF MainOK
  <2>2. main.fed < Items
    BY <1>0, <2>1 DEF MainOK
  <2> QED BY <1>0, <1>2, <2>1, <2>2, PipelineAssumption DEF MainOK
<1>5. CASE ReadFails
  BY <1>0, <1>2, <1>5, ReadFailsEffect DEF MainOK
<1>6. CASE SubmitRound
  <2>1. Stages[Here].tasks \in Nat
    BY <1>0, <1>6, SubmitRoundEffect, Shape
  <2>2. main.n < Stages[Here].tasks
    BY <1>0, <1>6, SubmitRoundEffect DEF MainOK
  <2> QED BY <1>0, <1>2, <1>6, <2>1, <2>2, SubmitRoundEffect DEF MainOK, Rounds
<1>7. CASE RoundEnds
  <2>1. Fed(main.step + 1, main.fed)
    BY <1>0, <1>7, RoundEndsEffect, FedOnward DEF Rounds
  <2> QED BY <1>0, <1>2, <1>7, <2>1, RoundEndsEffect DEF MainOK, Fed
<1>8. CASE Drained
  <2>1. Op = "shutdown" /\ Here \in expired
    BY <1>0, <1>8, DrainedEffect DEF MainOK
  <2>2. Stages[Here].tasks \in Nat \ {0}
    BY <1>0, <1>8, DrainedEffect, InScript, MainTyped, Shape
  <2> QED BY <1>0, <1>2, <1>8, <2>1, <2>2, DrainedEffect DEF MainOK
<1>9. CASE Join
  <2>1. Op = "shutdown" /\ Here \in expired
    BY <1>0, <1>9, JoinEffect DEF MainOK
  <2>2. CASE main'.step = main.step
    BY <1>0, <1>2, <1>9, <2>1, <2>2, JoinEffect DEF MainOK
  <2>3. CASE main'.step = main.step + 1
    <3>1. Fed(main.step + 1, main.fed)
      BY <1>0, <1>9, <2>1, JoinEffect, FedOnward
    <3> QED BY <1>0, <1>2, <1>9, <2>3, <3>1, JoinEffect DEF MainOK, Fed
  <2> QED BY <1>0, <1>9, <2>2, <2>3, JoinEffect
<1>10. CASE Return
  BY <1>0, <1>2, <1>10, ReturnEffect DEF MainOK
<1> QED BY <1>3, <1>4, <1>5, <1>6, <1>7, <1>8, <1>9, <1>10 DEF Main

\* Only shutting down makes a pool expire.
LEMMA MainExpires ==
    ASSUME IInv, WellScripted, Main
    PROVE  Expires'
<1> USE DEF WellScripted
<1>0. TypeOK /\ MainOK /\ Expires /\ main.step \in Nat
  BY MainTyped DEF IInv
<1>1. program' = program
  BY DEF Main, Lock, FeedItem, ReadFails, SubmitRound, RoundEnds, Drained, Join, Return,
         OnlyMain
<1>2. /\ \A s : ShutdownStep(s)' = ShutdownStep(s)
      /\ \A s \in expired : s \in 1 .. NStages /\ ShutdownStep(s) \in Nat
  BY <1>0, <1>1, SameProgram, Shape DEF TypeOK, ShutDownInOrder
<1>3. CASE Lock
  <2>1. Op = "shutdown" => main.step = ShutdownStep(Here)
    BY <1>0, <1>3, LockEffect, InScript, MainTyped DEF ShutDownInOrder
  <2> QED BY <1>0, <1>2, <1>3, <2>1, LockEffect DEF Expires
<1>4. CASE FeedItem
  <2>1. main.step = FeedStep
    BY <1>0, <1>4, FeedItemEffect
  <2>2. \A s \in expired : FeedStep < ShutdownStep(s)
    BY <1>2 DEF ShutDownInOrder
  <2>3. expired = {}
    BY <1>0, <1>2, <2>1, <2>2 DEF Expires
  <2> QED BY <1>0, <1>4, <2>3, FeedItemEffect DEF Expires
<1>5. CASE ReadFails
  BY <1>0, <1>2, <1>5, ReadFailsEffect DEF Expires
<1>6. CASE SubmitRound
  BY <1>0, <1>2, <1>6, SubmitRoundEffect DEF Expires
<1>7. CASE RoundEnds
  BY <1>0, <1>2, <1>7, RoundEndsEffect DEF Expires
<1>8. CASE Drained
  BY <1>0, <1>2, <1>8, DrainedEffect DEF Expires
<1>9. CASE Join
  BY <1>0, <1>2, <1>9, JoinEffect DEF Expires
<1>10. CASE Return
  BY <1>0, <1>2, <1>10, ReturnEffect DEF Expires
<1> QED BY <1>3, <1>4, <1>5, <1>6, <1>7, <1>8, <1>9, <1>10 DEF Main

-------------------------------------------------------------------------------
(* Counting.                                                               *)

\* A set has as many elements as another onto which it is mapped one to one.
LEMMA SameSize ==
    ASSUME NEW S, NEW T, IsFiniteSet(S), NEW f \in [S -> T],
           \A a, b \in S : f[a] = f[b] => a = b,
           \A y \in T : \E x \in S : f[x] = y
    PROVE  IsFiniteSet(T) /\ Cardinality(T) = Cardinality(S)
<1>1. f \in Bijection(S, T)
  BY Fun_IsBij
<1>2. ExistsBijection(S, T)
  BY <1>1, Fun_ExistsBij
<1> QED BY <1>2, FS_Bijection

\* Places in a queue are finitely many.
LEMMA AtFinite ==
    ASSUME NEW q \in Seq(Commands), NEW C
    PROVE  IsFiniteSet(At(q, C)) /\ Cardinality(At(q, C)) \in Nat
<1>1. IsFiniteSet(1 .. Len(q)) /\ At(q, C) \in SUBSET (1 .. Len(q))
  BY FS_Interval DEF At
<1> QED BY <1>1, FS_Subset, FS_CardinalityType

\* Counting after an append.
LEMMA AtAppend ==
    ASSUME NEW q \in Seq(Commands), NEW c \in Commands, NEW C
    PROVE  Cardinality(At(Append(q, c), C)) =
             Cardinality(At(q, C)) + IF c \in C THEN 1 ELSE 0
<1>1. Len(q) + 1 \notin At(q, C)
  BY AppendLonger DEF At
<1>2. IsFiniteSet(At(q, C)) /\ Cardinality(At(q, C)) \in Nat
  BY AtFinite
<1>3. CASE c \in C
  <2>1. At(Append(q, c), C) = At(q, C) \cup {Len(q) + 1}
    BY <1>3, AppendLonger DEF At
  <2> QED BY <1>1, <1>2, <1>3, <2>1, FS_AddElement
<1>4. CASE c \notin C
  <2>1. At(Append(q, c), C) = At(q, C)
    BY <1>4, AppendLonger DEF At
  <2> QED BY <1>2, <1>4, <2>1
<1> QED BY <1>3, <1>4

\* Counting before the head is taken.
LEMMA AtTail ==
    ASSUME NEW q \in Seq(Commands), q # <<>>, NEW C
    PROVE  Cardinality(At(q, C)) =
             Cardinality(At(Tail(q), C)) + IF Head(q) \in C THEN 1 ELSE 0
<1> DEFINE S == At(Tail(q), C)
           T == At(q, C) \ {1}
           f == [k \in S |-> k + 1]
<1>1. /\ Tail(q) \in Seq(Commands) /\ Len(q) \in Nat \ {0}
      /\ Len(Tail(q)) = Len(q) - 1 /\ Head(q) = q[1]
      /\ \A k \in 1 .. Len(Tail(q)) : Tail(q)[k] = q[k + 1] /\ k + 1 \in 1 .. Len(q)
  BY TailShorter
<1>2. IsFiniteSet(S) /\ Cardinality(S) \in Nat /\ IsFiniteSet(At(q, C))
  BY <1>1, AtFinite
<1>3. f \in [S -> T]
  BY <1>1 DEF At
<1>4. \A a, b \in S : f[a] = f[b] => a = b
  BY <1>1 DEF At
<1>5. \A y \in T : \E x \in S : f[x] = y
  <2>1. ASSUME NEW y \in T PROVE \E x \in S : f[x] = y
    <3>1. y \in 2 .. Len(q) /\ q[y] \in C
      BY <1>1 DEF At
    <3>2. y - 1 \in 1 .. Len(Tail(q)) /\ Tail(q)[y - 1] = q[y]
      BY <1>1, <3>1
    <3>3. y - 1 \in S /\ f[y - 1] = y
      BY <3>1, <3>2 DEF At
    <3> QED BY <3>3
  <2> QED BY <2>1
<1> HIDE DEF f
<1>6. Cardinality(T) = Cardinality(S) /\ IsFiniteSet(T)
  BY <1>2, <1>3, <1>4, <1>5, SameSize
<1>7. 1 \in At(q, C) <=> Head(q) \in C
  BY <1>1 DEF At
<1>8. CASE Head(q) \in C
  <2>1. At(q, C) = T \cup {1} /\ 1 \notin T
    BY <1>7, <1>8
  <2>2. Cardinality(At(q, C)) = Cardinality(T) + 1
    BY <1>6, <2>1, FS_AddElement
  <2> QED BY <1>2, <1>6, <1>8, <2>2
<1>9. CASE Head(q) \notin C
  <2>1. At(q, C) = T
    BY <1>7, <1>9
  <2>2. Cardinality(At(q, C)) = Cardinality(At(Tail(q), C))
    BY <1>6, <2>1
  <2> QED BY <1>2, <1>9, <2>2
<1> QED BY <1>8, <1>9

\* A stage has as many workers as with_tasks said.
LEMMA WorkersCount ==
    ASSUME WellBuilt, NEW s \in 1 .. NStages
    PROVE  IsFiniteSet(Workers(s)) /\ Cardinality(Workers(s)) = Stages[s].tasks
<1>1. IsFiniteSet({s}) /\ Cardinality({s}) = 1
  BY FS_Singleton
<1>2. Stages[s].tasks \in Nat \ {0}
  BY Shape
<1>3. /\ IsFiniteSet(1 .. Stages[s].tasks)
      /\ Cardinality(1 .. Stages[s].tasks) = Stages[s].tasks
  <2> DEFINE n == Stages[s].tasks
  <2>1. n \in Int /\ 1 \in Int /\ ~(1 > n) /\ n - 1 + 1 = n
    BY <1>2
  <2> HIDE DEF n
  <2>2. IsFiniteSet(1 .. n) /\ Cardinality(1 .. n) = n
    BY <2>1, FS_Interval
  <2> QED BY <2>2 DEF n
<1>4. /\ IsFiniteSet({s} \X (1 .. Stages[s].tasks))
      /\ Cardinality({s} \X (1 .. Stages[s].tasks)) = 1 * Stages[s].tasks
  BY <1>1, <1>3, FS_Product
<1> QED BY <1>2, <1>4 DEF Workers

\* Those that have a command of a round are finitely many.
LEMMA InHandFinite ==
    ASSUME WellBuilt, NEW s \in 1 .. NStages
    PROVE  /\ IsFiniteSet(InHand(s)) /\ Cardinality(InHand(s)) \in Nat
           /\ InHand(s) \subseteq Workers(s)
<1>1. InHand(s) \in SUBSET Workers(s)
  BY DEF InHand
<1> QED BY <1>1, WorkersCount, FS_Subset, FS_CardinalityType

\* When the barrier of a round opens, the queue of the stage is empty.
LEMMA RoundOver ==
    ASSUME IInv, WellScripted, RoundEnds
    PROVE  Here \in 1 .. NStages /\ queue[Here] = <<>>
<1> USE DEF WellScripted
<1>0. TypeOK /\ MainOK /\ RoundsCounted /\ RoundsLast
  BY DEF IInv
<1>1. /\ Here \in 1 .. NStages /\ InRound(Here, Op) /\ main.n = Stages[Here].tasks
      /\ \A t \in Workers(Here) : thread[t].pc = "barrier"
  BY <1>0, RoundEndsEffect, MainTyped, InScript DEF InRound, MainOK
<1>2. queue[Here] \in Seq(Commands) /\ Stages[Here].tasks \in Nat \ {0}
  BY <1>0, <1>1, Shape DEF TypeOK
<1>3. InHand(Here) = Workers(Here)
  BY <1>1 DEF InHand
<1>4. Cardinality(InHand(Here)) = Stages[Here].tasks
  BY <1>1, <1>3, WorkersCount
<1>5. Cardinality(At(queue[Here], RoundCommands)) = 0
  BY <1>0, <1>1, <1>2, <1>4, AtFinite DEF RoundsCounted
<1>6. At(queue[Here], RoundCommands) = {}
  BY <1>2, <1>5, AtFinite, FS_EmptySet
<1>7. InHand(Here) # {}
  <2>1. 1 \in 1 .. Stages[Here].tasks
    BY <1>2
  <2>2. <<Here, 1>> \in Workers(Here)
    BY <1>1, <2>1, ThreadsOfStages
  <2> QED BY <1>3, <2>2
<1>8. \A k \in 1 .. Len(queue[Here]) : queue[Here][k] \in RoundCommands
  BY <1>0, <1>1, <1>2, <1>7 DEF RoundsLast, RoundCommands
<1>9. Len(queue[Here]) = 0
  BY <1>2, <1>6, <1>8 DEF At
<1> QED BY <1>1, <1>2, <1>9

-------------------------------------------------------------------------------
(* Queues, hands, and what rounds leave behind.                            *)

\* The invariant's parts that a thread's step starts from.
LEMMA Parts ==
    IInv => /\ TypeOK /\ MainOK /\ Expires /\ Queued /\ Hands
            /\ RoundsCounted /\ RoundsLast /\ Told /\ Taken /\ Finished
BY DEF IInv

\* What every step of a thread leaves alone, and what it never takes back.
LEMMA WorkKeeps ==
    ASSUME IInv, WellScripted, NEW t \in Threads, Work(t)
    PROVE  /\ Alone(t) /\ thread[t].pc \in {"idle", "execute", "submit"}
           /\ thread[t].local => thread'[t].local
           /\ Stages' = Stages /\ NStages' = NStages /\ Threads' = Threads
           /\ Script' = Script /\ Steps' = Steps
           /\ FeedStep' = FeedStep /\ \A s : ShutdownStep(s)' = ShutdownStep(s)
           /\ \A s : Workers(s)' = Workers(s)
           /\ main' = main /\ expired' = expired
           /\ Op' = Op /\ Here' = Here /\ \A s, op : InRound(s, op)' <=> InRound(s, op)
<1> USE DEF WellScripted
<1>0. TypeOK
  BY DEF IInv
<1>1. UNCHANGED <<program, main, expired, stopped>>
  BY WorkLeaves
<1>2. /\ Stages' = Stages /\ NStages' = NStages /\ Threads' = Threads
      /\ Script' = Script /\ Steps' = Steps
      /\ FeedStep' = FeedStep /\ \A s : ShutdownStep(s)' = ShutdownStep(s)
      /\ \A s : Workers(s)' = Workers(s)
      /\ Op' = Op /\ Here' = Here
  BY <1>1, SameProgram, SameStep
<1>3. \A s, op : InRound(s, op)' <=> InRound(s, op)
  BY <1>1, <1>2 DEF InRound
<1>4. /\ Alone(t) /\ thread[t].pc \in {"idle", "execute", "submit"}
      /\ thread[t].local => thread'[t].local
  <2>1. CASE Take(t)
    BY <1>0, <2>1, TakeEffect
  <2>2. CASE Exit(t)
    BY <1>0, <2>2, ExitEffect
  <2>3. CASE Forward(t)
    BY <1>0, <2>3, Welcome, ForwardEffect DEF Forward
  <2>4. CASE Forwarded(t)
    BY <1>0, <2>4, Welcome, ForwardedEffect DEF Forwarded
  <2>5. CASE AtOnce(t)
    BY <1>0, <2>5, Executing, Welcome, AtOnceEffect
  <2> QED BY <2>1, <2>2, <2>3, <2>4, <2>5, WorkCases
<1> QED BY <1>1, <1>2, <1>3, <1>4

\* No thread forgets the next pool.
LEMMA WorkTold ==
    ASSUME IInv, WellScripted, NEW t \in Threads, Work(t)
    PROVE  Told'
<1>1. \A u \in Threads : thread[u].local => thread'[u].local
  BY WorkKeeps DEF Alone
<1>2. \A k \in Steps : \A u \in Workers(Script[k].stage) : u \in Threads
  BY Shape, ThreadsOfStages DEF WellScripted
<1> QED BY <1>1, <1>2, WorkKeeps, Parts DEF Told

\* In a round after feeding, main is past feeding.
LEMMA AfterFeeding ==
    ASSUME TypeOK, WellScripted, NEW s, NEW op \in After, InRound(s, op)
    PROVE  FeedStep < main.step
BY RoundStep, MainTyped, Shape DEF WellScripted, FedOnce, After

\* What a thread that submits has in hand.
LEMMA Submitting ==
    ASSUME IInv, WellScripted, NEW t \in Threads, thread[t].pc = "submit"
    PROVE  /\ t[1] < NStages /\ FeedStep <= main.step
           /\ \/ thread[t].cmd.op = "forward"
              \/ /\ thread[t].cmd.op = "flush" /\ InRound(t[1], "flush")
                 /\ thread[t].collected = {}
<1>0. TypeOK /\ FeedStep \in Nat /\ main.step \in Nat
  BY Parts, MainTyped, Shape DEF WellScripted, FedOnce
<1>1. /\ t[1] < NStages
      /\ \/ thread[t].cmd.op = "forward" /\ Fits(thread[t].cmd, t[1])
         \/ /\ thread[t].cmd.op = "flush" /\ InRound(t[1], "flush")
            /\ thread[t].collected = {}
  BY Parts DEF Hands, HandsOf
<1>2. CASE thread[t].cmd.op = "forward" /\ Fits(thread[t].cmd, t[1])
  BY <1>1, <1>2 DEF Fits, InRound, Rounds
<1>3. CASE thread[t].cmd.op = "flush" /\ InRound(t[1], "flush") /\ thread[t].collected = {}
  BY <1>0, <1>1, <1>3, AfterFeeding DEF After
<1> QED BY <1>1, <1>2, <1>3

\* What a thread forwards fits the next stage.
LEMMA WorkQueued ==
    ASSUME IInv, WellScripted, NEW t \in Threads, Work(t)
    PROVE  Queued'
<1> USE DEF WellScripted
<1>0. /\ TypeOK /\ main' = main /\ Stages' = Stages /\ NStages' = NStages
      /\ FeedStep' = FeedStep /\ Op' = Op /\ Here' = Here
      /\ \A s \in 1 .. NStages : \A k \in 1 .. Len(queue[s]) : Fits(queue[s][k], s)
  BY WorkKeeps, Parts DEF Queued
<1>1. SUFFICES \A s \in 1 .. NStages : \A k \in 1 .. Len(queue'[s]) : Fits(queue'[s][k], s)
  BY <1>0 DEF Queued, Fits, InRound
<1>2. CASE queue' = queue
  BY <1>0, <1>2
<1>3. CASE Take(t)
  <2> DEFINE q == queue[t[1]]
  <2>1. /\ q \in Seq(Commands) /\ q # <<>> /\ queue'[t[1]] = Tail(q)
        /\ \A s \in 1 .. NStages \ {t[1]} : queue'[s] = queue[s]
    BY <1>0, <1>3, TakeEffect
  <2>2. \A k \in 1 .. Len(queue'[t[1]]) : Fits(queue'[t[1]][k], t[1])
    BY <1>0, <2>1, TailShorter, ThreadsOfStages
  <2> QED BY <1>0, <2>1, <2>2
<1>4. CASE Forwarded(t)
  <2> DEFINE next == t[1] + 1
             c == Command(Stages[next].does, thread[t].cmd.items)
  <2>0. t[1] < NStages /\ FeedStep <= main.step
    BY <1>4, Submitting DEF Forwarded
  <2>1. /\ next \in 1 .. NStages
        /\ queue[next] \in Seq(Commands) /\ c \in Commands
        /\ queue'[next] = Append(queue[next], c)
        /\ \A s \in 1 .. NStages \ {next} : queue'[s] = queue[s]
    BY <1>0, <1>4, <2>0, ForwardedEffect
  <2>2. Fits(c, next)
    BY <2>0 DEF Fits, Command
  <2> HIDE DEF c, next
  <2>3. \A k \in 1 .. Len(queue'[next]) : Fits(queue'[next][k], next)
    BY <1>0, <2>1, <2>2, AppendLonger
  <2> QED BY <1>0, <2>1, <2>3
<1>5. queue' = queue \/ Take(t) \/ Forwarded(t)
  <2>1. CASE Forward(t)
    BY <2>1 DEF Forward
  <2>2. CASE Exit(t)
    BY <2>2 DEF Exit
  <2>3. CASE AtOnce(t)
    BY <2>3 DEF AtOnce, SetThreadLocal, Collect, Fetch, Prints, Write, WriteFails
  <2> QED BY <2>1, <2>2, <2>3, WorkCases
<1> QED BY <1>2, <1>3, <1>4, <1>5

\* The hands of a thread that the step does not concern.
LEMMA SameHands ==
    ASSUME NEW t \in Threads, HandsOf(t), thread'[t] = thread[t], Stages' = Stages,
           NStages' = NStages, FeedStep' = FeedStep, main' = main, Op' = Op, Here' = Here
    PROVE  HandsOf(t)'
BY DEF HandsOf, Fits, InRound

\* A thread goes on as its command asks, and none panics.
LEMMA WorkHands ==
    ASSUME IInv, WellScripted, NEW t \in Threads, Work(t)
    PROVE  Hands'
<1> USE DEF WellScripted
<1>0. /\ TypeOK /\ main' = main /\ Stages' = Stages /\ NStages' = NStages
      /\ FeedStep' = FeedStep /\ Op' = Op /\ Here' = Here /\ Threads' = Threads
      /\ Alone(t) /\ HandsOf(t) /\ t[1] \in 1 .. NStages /\ Queued
  BY WorkKeeps, Parts, ThreadsOfStages DEF Hands
<1>1. \A u \in Threads \ {t} : HandsOf(u)'
  BY <1>0, SameHands, Parts DEF Alone, Hands
<1>2. HandsOf(t)'
  <2>1. CASE Take(t)
    <3>1. /\ thread'[t].pc = "execute" /\ thread'[t].cmd = Head(queue[t[1]])
          /\ thread'[t].collected = thread[t].collected
          /\ queue[t[1]] \in Seq(Commands) /\ queue[t[1]] # <<>>
      BY <1>0, <2>1, TakeEffect
    <3>2. Fits(Head(queue[t[1]]), t[1])
      BY <1>0, <3>1, TailShorter DEF Queued
    <3> QED BY <1>0, <3>1, <3>2 DEF HandsOf, Fits, InRound
  <2>2. CASE Exit(t)
    BY <1>0, <2>2, ExitEffect DEF HandsOf
  <2>3. CASE Forward(t)
    <3>1. /\ thread[t].local /\ t[1] + 1 \notin expired /\ t[1] < NStages
      BY <2>3, Welcome DEF Forward
    <3>2. /\ thread[t].pc = "execute" /\ thread'[t].pc = "submit"
          /\ \/ /\ thread[t].cmd.op = "forward"
                /\ thread'[t].cmd = thread[t].cmd
                /\ thread'[t].collected = thread[t].collected
             \/ /\ thread[t].cmd.op = "flush"
                /\ thread'[t].cmd.op = "flush"
                /\ thread'[t].collected = {}
      <4>1. \A items : Command("flush", items).op = "flush"
        BY DEF Command
      <4> QED BY <1>0, <2>3, <3>1, <4>1, ForwardEffect
    <3>3. thread[t].cmd.op = "flush" => InRound(t[1], "flush")
      BY <1>0, <3>2, Shape DEF HandsOf, Fits, Does
    <3> QED BY <1>0, <3>1, <3>2, <3>3 DEF HandsOf, Fits, InRound
  <2>4. CASE Forwarded(t)
    <3>1. /\ t[1] < NStages
          /\ \/ thread[t].cmd.op = "forward"
             \/ /\ thread[t].cmd.op = "flush" /\ InRound(t[1], "flush")
                /\ thread[t].collected = {}
      BY <2>4, Submitting DEF Forwarded
    <3>2. /\ thread'[t].pc = IF thread[t].cmd.op = "flush" THEN "barrier" ELSE "idle"
          /\ thread'[t].cmd = NoCommand
          /\ thread'[t].collected = thread[t].collected
      BY <1>0, <2>4, <3>1, ForwardedEffect
    <3> QED BY <1>0, <3>1, <3>2 DEF HandsOf, Fits, InRound
  <2>5. CASE AtOnce(t)
    <3> DEFINE op == thread[t].cmd.op
    <3>1. /\ thread[t].pc = "execute" /\ thread'[t].cmd = NoCommand
          /\ \/ thread'[t].pc = "idle" /\ op \in Does \ {"forward"}
             \/ /\ thread'[t].pc = "barrier"
                /\ \/ op = "set_thread_local" /\ thread'[t].local
                   \/ op = "fetch" /\ thread'[t].collected = {}
          /\ thread'[t].collected = IF op = "collect"
                                    THEN thread[t].collected \cup thread[t].cmd.items
                                    ELSE IF op = "fetch" THEN {}
                                    ELSE thread[t].collected
      BY <1>0, <2>5, Executing, Welcome, AtOnceEffect
    <3>2. /\ op \in Does => op = Stages[t[1]].does
          /\ op \in Rounds => InRound(t[1], op) /\ Op = op
      BY <1>0, <3>1, Shape DEF HandsOf, Fits, InRound, Does, Rounds
    <3>3. CASE thread'[t].pc = "idle"
      BY <1>0, <3>1, <3>2, <3>3 DEF HandsOf, Does
    <3>4. CASE thread'[t].pc = "barrier"
      BY <1>0, <3>1, <3>2, <3>4 DEF HandsOf, After, Rounds, InRound
    <3> QED BY <3>1, <3>3, <3>4
  <2> QED BY <2>1, <2>2, <2>3, <2>4, <2>5, WorkCases
<1> QED BY <1>0, <1>1, <1>2 DEF Hands

\* A thread that has not ended belongs to a stage that is not shut down yet, and the
\* next one is not being shut down either.
LEMMA Ahead ==
    ASSUME IInv, WellScripted, NEW t \in Threads, thread[t].pc # "exited"
    PROVE  /\ main.step <= ShutdownStep(t[1])
           /\ t[1] < NStages => main.step < ShutdownStep(t[1] + 1)
<1> USE DEF WellScripted
<1>1. t[1] \in 1 .. NStages /\ t \in Workers(t[1]) /\ main.step \in Nat
  BY Parts, MainTyped, ThreadsOfStages
<1>2. ShutdownStep(t[1]) \in Nat
  BY <1>1, Shape DEF ShutDownInOrder
<1>3. main.step <= ShutdownStep(t[1])
  BY <1>1, <1>2, Parts DEF Finished
<1>4. ASSUME t[1] < NStages PROVE main.step < ShutdownStep(t[1] + 1)
  <2>1. t[1] + 1 \in 1 .. NStages /\ t[1] \in 1 .. NStages - 1
    BY <1>1, <1>4, Shape
  <2>2. ShutdownStep(t[1]) < ShutdownStep(t[1] + 1) /\ ShutdownStep(t[1] + 1) \in Nat
    BY <2>1, Shape DEF ShutDownInOrder
  <2> QED BY <1>1, <1>2, <1>3, <2>2
<1> QED BY <1>3, <1>4

\* Nothing is forwarded to a stage in which a round is going on, or has been after
\* feeding.
LEMMA NotForwardedTo ==
    ASSUME IInv, WellScripted, NEW t \in Threads, Forwarded(t)
    PROVE  /\ t[1] < NStages
           /\ \A op : ~InRound(t[1] + 1, op)
           /\ \A k \in Steps : k < main.step /\ Script[k].op \in After =>
                Script[k].stage # t[1] + 1
<1> USE DEF WellScripted
<1>1. thread[t].pc = "submit" /\ t[1] < NStages /\ FeedStep <= main.step
  BY Submitting DEF Forwarded
<1>2. main.step <= ShutdownStep(t[1]) /\ TypeOK
  BY <1>1, Ahead, Parts
<1>3. t[1] \in 1 .. NStages /\ main.step \in Nat /\ FeedStep \in Nat /\ NStages \in Nat
  BY <1>2, MainTyped, ThreadsOfStages, Shape DEF FedOnce
<1>4. ShutdownStep(t[1]) \in Nat
  BY <1>3, Shape DEF ShutDownInOrder
<1>5. \A k \in Steps : Script[k].op \in After /\ Script[k].stage = t[1] + 1 =>
                       ShutdownStep(t[1]) < k
  BY <1>3 DEF ShutDownInOrder
<1>6. \A k \in Steps : k <= main.step /\ Script[k].op \in After => Script[k].stage # t[1] + 1
  BY <1>2, <1>3, <1>4, <1>5, Shape
<1>7. ASSUME NEW op, InRound(t[1] + 1, op) PROVE FALSE
  <2>1. /\ main.step \in Steps /\ Script[main.step].op = op /\ op \in Rounds
        /\ Script[main.step].stage = t[1] + 1
    BY <1>2, <1>7, RoundStep
  <2>2. op # "set_thread_local"
    BY <1>1, <1>3, <2>1 DEF FedOnce
  <2> QED BY <1>3, <1>6, <2>1, <2>2 DEF Rounds, After
<1>8. \A k \in Steps : k < main.step => k <= main.step
  BY <1>3, Shape
<1> QED BY <1>1, <1>6, <1>7, <1>8

\* Only taking a command of a round puts a thread among those with one in hand.
LEMMA InHandKept ==
    ASSUME IInv, WellScripted, NEW t \in Threads, Work(t), ~Take(t)
    PROVE  \A s \in 1 .. NStages : InHand(s)' = InHand(s)
<1> USE DEF WellScripted
<1>0. TypeOK /\ HandsOf(t) /\ Alone(t) /\ \A s : Workers(s)' = Workers(s)
  BY WorkKeeps, Parts DEF Hands
<1> DEFINE holds == thread[t].cmd.op \in Rounds \/ thread[t].pc = "barrier"
           holds1 == thread'[t].cmd.op \in Rounds \/ thread'[t].pc = "barrier"
<1>1. holds <=> holds1
  <2> USE NoCommandOK DEF Rounds
  <2>1. CASE Exit(t)
    BY <1>0, <2>1, ExitEffect DEF HandsOf
  <2>2. CASE Forward(t)
    <3>1. \A items : Command("flush", items).op = "flush"
      BY DEF Command
    <3>2. thread[t].local /\ t[1] + 1 \notin expired
      BY <2>2, Welcome DEF Forward
    <3>3. /\ thread[t].pc = "execute" /\ thread'[t].pc = "submit"
          /\ \/ thread[t].cmd.op = "forward" /\ thread'[t].cmd = thread[t].cmd
             \/ thread[t].cmd.op = "flush" /\ thread'[t].cmd.op = "flush"
      BY <1>0, <2>2, <3>1, <3>2, ForwardEffect
    <3> QED BY <3>3
  <2>3. CASE Forwarded(t)
    <3>1. /\ thread[t].pc = "submit" /\ thread'[t].cmd = NoCommand
          /\ thread'[t].pc = IF thread[t].cmd.op = "flush" THEN "barrier" ELSE "idle"
          /\ thread[t].cmd.op \in {"forward", "flush"}
      BY <1>0, <2>3, Submitting, ForwardedEffect DEF Forwarded
    <3> QED BY <3>1
  <2>4. CASE AtOnce(t)
    <3>1. /\ thread[t].pc = "execute" /\ thread'[t].cmd = NoCommand
          /\ \/ thread'[t].pc = "idle" /\ thread[t].cmd.op \in Does \ {"forward"}
             \/ /\ thread'[t].pc = "barrier"
                /\ thread[t].cmd.op \in {"set_thread_local", "fetch"}
      BY <1>0, <2>4, Executing, Welcome, AtOnceEffect
    <3> QED BY <3>1 DEF Does
  <2> QED BY <2>1, <2>2, <2>3, <2>4, WorkCases
<1>2. \A s \in 1 .. NStages : \A u \in Workers(s) : u \in Threads
  BY ThreadsOfStages
<1> QED BY <1>0, <1>1, <1>2 DEF InHand, Alone

\* Taking moves a command of a round from the queue into a hand.
LEMMA TakeInHand ==
    ASSUME IInv, WellScripted, NEW t \in Threads, Take(t)
    PROVE  /\ t \notin InHand(t[1])
           /\ InHand(t[1])' = IF Head(queue[t[1]]).op \in Rounds
                              THEN InHand(t[1]) \cup {t} ELSE InHand(t[1])
           /\ \A s \in 1 .. NStages \ {t[1]} : InHand(s)' = InHand(s)
<1> USE DEF WellScripted
<1>0. /\ TypeOK /\ HandsOf(t) /\ Alone(t) /\ \A s : Workers(s)' = Workers(s)
      /\ \A s \in 1 .. NStages : \A u \in Workers(s) : u \in Threads /\ u[1] = s
      /\ t \in Workers(t[1]) /\ t[1] \in 1 .. NStages
  BY WorkKeeps, Parts, ThreadsOfStages DEF Hands, Work
<1>1. /\ thread[t].pc = "idle" /\ thread'[t].pc = "execute"
      /\ thread[t].cmd = NoCommand /\ thread'[t].cmd = Head(queue[t[1]])
  BY <1>0, TakeEffect DEF HandsOf
<1>2. t \notin InHand(t[1])
  BY <1>1, NoCommandOK DEF InHand, Rounds
<1> QED BY <1>0, <1>1, <1>2 DEF InHand, Alone

\* A thread's step moves the commands of a round and loses none.
LEMMA WorkRoundsCounted ==
    ASSUME IInv, WellScripted, NEW t \in Threads, Work(t)
    PROVE  RoundsCounted'
<1> USE DEF WellScripted
<1>0. /\ TypeOK /\ main' = main /\ NStages' = NStages /\ Op' = Op /\ Here' = Here
      /\ RoundCommands' = RoundCommands /\ t[1] \in 1 .. NStages
      /\ \A s, op : InRound(s, op)' <=> InRound(s, op)
  BY WorkKeeps, Parts, ThreadsOfStages DEF RoundCommands, Commands
<1> DEFINE Count(s) == Cardinality(At(queue[s], RoundCommands)) + Cardinality(InHand(s))
           Count1(s) == Cardinality(At(queue'[s], RoundCommands)) + Cardinality(InHand(s)')
<1>1. SUFFICES ASSUME NEW s \in 1 .. NStages, InRound(s, Op) PROVE Count1(s) = Count(s)
  <2>1. \A s \in 1 .. NStages : InRound(s, Op) => Count(s) = main.n
    BY Parts DEF RoundsCounted
  <2>2. \A s \in 1 .. NStages : InRound(s, Op) => Count1(s) = main.n
    BY <1>1, <2>1
  <2>3. \A s \in 1 .. NStages : InRound(s, Op)' <=> InRound(s, Op)
    BY <1>0 DEF InRound
  <2> QED BY <1>0, <2>2, <2>3 DEF RoundsCounted, At
<1>2. CASE ~Take(t)
  <2>1. InHand(s)' = InHand(s)
    BY <1>2, InHandKept
  <2>2. queue'[s] = queue[s]
    <3>1. CASE Forwarded(t)
      <4>1. s # t[1] + 1 /\ t[1] < NStages
        BY <1>1, <3>1, NotForwardedTo
      <4> QED BY <1>0, <3>1, <4>1, ForwardedEffect
    <3>2. CASE ~Forwarded(t)
      BY <1>2, <3>2 DEF Work, Exit, Forward, SetThreadLocal, Collect, Fetch, Prints, Write,
                    WriteFails
    <3> QED BY <3>1, <3>2
  <2> QED BY <2>1, <2>2
<1>3. CASE Take(t)
  <2>1. CASE s = t[1]
    <3> DEFINE q == queue[s]
    <3>1. q \in Seq(Commands) /\ q # <<>> /\ queue'[s] = Tail(q)
      BY <1>0, <1>3, <2>1, TakeEffect
    <3>2. Head(q) \in Commands /\ Tail(q) \in Seq(Commands)
      BY <3>1
    <3>3. Head(q) \in RoundCommands <=> Head(q).op \in Rounds
      BY <3>2 DEF RoundCommands
    <3>4. Cardinality(At(q, RoundCommands)) = Cardinality(At(Tail(q), RoundCommands))
                                    + IF Head(q).op \in Rounds THEN 1 ELSE 0
      BY <3>1, <3>3, AtTail
    <3>5. /\ Cardinality(At(Tail(q), RoundCommands)) \in Nat
          /\ IsFiniteSet(InHand(s)) /\ Cardinality(InHand(s)) \in Nat
      BY <3>2, AtFinite, InHandFinite
    <3>6. t \notin InHand(s)
          /\ InHand(s)' = IF Head(q).op \in Rounds THEN InHand(s) \cup {t} ELSE InHand(s)
      BY <1>3, <2>1, TakeInHand
    <3>7. Cardinality(InHand(s)') = Cardinality(InHand(s))
                                    + IF Head(q).op \in Rounds THEN 1 ELSE 0
      <4>1. Cardinality(InHand(s) \cup {t}) = Cardinality(InHand(s)) + 1
        BY <3>5, <3>6, FS_AddElement
      <4>2. CASE Head(q).op \in Rounds
        BY <3>6, <4>1, <4>2
      <4>3. CASE Head(q).op \notin Rounds
        BY <3>5, <3>6, <4>3
      <4> QED BY <4>2, <4>3
    <3> HIDE DEF q
    <3>8. Cardinality(At(queue'[s], RoundCommands)) + Cardinality(InHand(s)')
             = Cardinality(At(q, RoundCommands)) + Cardinality(InHand(s))
      BY <3>1, <3>4, <3>5, <3>7
    <3> QED BY <3>8 DEF q
  <2>2. CASE s # t[1]
    <3>1. queue'[s] = queue[s] /\ InHand(s)' = InHand(s)
      BY <1>0, <1>3, <2>2, TakeEffect, TakeInHand
    <3> QED BY <3>1
  <2> QED BY <2>1, <2>2
<1> QED BY <1>2, <1>3

\* The steps of a thread that leave the queues alone.
LEMMA QueueKept ==
    ASSUME NEW t \in Threads, Work(t), ~Take(t), ~Forwarded(t)
    PROVE  queue' = queue
BY DEF Work, Exit, Forward, SetThreadLocal, Collect, Fetch, Prints, Write, WriteFails

\* It leaves them the last ones in the queue.
LEMMA WorkRoundsLast ==
    ASSUME IInv, WellScripted, NEW t \in Threads, Work(t)
    PROVE  RoundsLast'
<1> USE DEF WellScripted
<1>0. /\ TypeOK /\ main' = main /\ NStages' = NStages /\ Op' = Op /\ Here' = Here
      /\ t[1] \in 1 .. NStages
  BY WorkKeeps, Parts, ThreadsOfStages
<1>1. SUFFICES ASSUME NEW s \in 1 .. NStages, InRound(s, Op)
               PROVE  /\ \A j, k \in 1 .. Len(queue'[s]) :
                           j < k /\ queue'[s][j].op \in Rounds => queue'[s][k].op \in Rounds
                      /\ InHand(s)' # {} =>
                           \A k \in 1 .. Len(queue'[s]) : queue'[s][k].op \in Rounds
  BY <1>0 DEF RoundsLast, InRound
<1>2. /\ \A j, k \in 1 .. Len(queue[s]) :
            j < k /\ queue[s][j].op \in Rounds => queue[s][k].op \in Rounds
      /\ InHand(s) # {} => \A k \in 1 .. Len(queue[s]) : queue[s][k].op \in Rounds
  BY <1>1, Parts DEF RoundsLast
<1>3. CASE ~Take(t)
  <2>1. InHand(s)' = InHand(s)
    BY <1>3, InHandKept
  <2>2. queue'[s] = queue[s]
    <3>1. CASE Forwarded(t)
      <4>1. s # t[1] + 1 /\ t[1] < NStages
        BY <1>1, <3>1, NotForwardedTo
      <4> QED BY <1>0, <3>1, <4>1, ForwardedEffect
    <3> QED BY <1>3, <3>1, QueueKept
  <2> QED BY <1>2, <2>1, <2>2
<1>4. CASE Take(t) /\ s # t[1]
  <2>1. queue'[s] = queue[s] /\ InHand(s)' = InHand(s)
    BY <1>0, <1>4, TakeEffect, TakeInHand
  <2> QED BY <1>2, <2>1
<1>5. CASE Take(t) /\ s = t[1]
  <2> DEFINE q == queue[s]
  <2>1. q \in Seq(Commands) /\ q # <<>> /\ queue'[s] = Tail(q)
    BY <1>0, <1>5, TakeEffect
  <2>2. InHand(s)' = IF Head(q).op \in Rounds THEN InHand(s) \cup {t} ELSE InHand(s)
    BY <1>5, TakeInHand
  <2>3. /\ Len(q) \in Nat \ {0} /\ Len(Tail(q)) = Len(q) - 1 /\ Head(q) = q[1]
        /\ \A k \in 1 .. Len(Tail(q)) : Tail(q)[k] = q[k + 1] /\ k + 1 \in 1 .. Len(q)
    BY <2>1, TailShorter
  <2>4. /\ \A j, k \in 1 .. Len(q) : j < k /\ q[j].op \in Rounds => q[k].op \in Rounds
        /\ InHand(s) # {} => \A k \in 1 .. Len(q) : q[k].op \in Rounds
    BY <1>2
  <2> HIDE DEF q
  <2>5. \A j, k \in 1 .. Len(Tail(q)) :
            j < k /\ Tail(q)[j].op \in Rounds => Tail(q)[k].op \in Rounds
    <3>1. ASSUME NEW j \in 1 .. Len(Tail(q)), NEW k \in 1 .. Len(Tail(q)), j < k,
                 Tail(q)[j].op \in Rounds
          PROVE  Tail(q)[k].op \in Rounds
      <4>1. j + 1 \in 1 .. Len(q) /\ k + 1 \in 1 .. Len(q) /\ j + 1 < k + 1
        BY <2>3, <3>1
      <4> QED BY <2>3, <2>4, <3>1, <4>1
    <3> QED BY <3>1
  <2>6. InHand(s)' # {} => \A k \in 1 .. Len(Tail(q)) : Tail(q)[k].op \in Rounds
    <3>1. CASE Head(q).op \in Rounds
      <4>1. \A k \in 1 .. Len(Tail(q)) : 1 < k + 1 /\ 1 \in 1 .. Len(q)
        BY <2>3
      <4> QED BY <2>3, <2>4, <3>1, <4>1
    <3>2. CASE Head(q).op \notin Rounds
      BY <2>2, <2>3, <2>4, <3>2
    <3> QED BY <3>1, <3>2
  <2> QED BY <2>1, <2>5, <2>6
<1> QED BY <1>3, <1>4, <1>5

\* Nothing is collected again once it has been taken.
LEMMA WorkTaken ==
    ASSUME IInv, WellScripted, NEW t \in Threads, Work(t)
    PROVE  Taken'
<1> USE DEF WellScripted
<1>0. /\ TypeOK /\ main' = main /\ NStages' = NStages /\ Stages' = Stages
      /\ Script' = Script /\ Steps' = Steps /\ Alone(t) /\ HandsOf(t)
      /\ \A s : Workers(s)' = Workers(s)
      /\ t[1] \in 1 .. NStages /\ t \in Workers(t[1])
  BY WorkKeeps, Parts, ThreadsOfStages DEF Hands
<1>1. SUFFICES ASSUME NEW k \in Steps, k < main.step, Script[k].op \in After
               PROVE  LET s == Script[k].stage IN
                      /\ \A j \in 1 .. Len(queue'[s]) : queue'[s][j].op \in Rounds
                      /\ \A u \in Workers(s) : /\ thread'[u].cmd.op # Stages[s].does
                                               /\ thread'[u].collected = {}
  BY <1>0 DEF Taken
<1> DEFINE s == Script[k].stage
<1>2. /\ s \in 1 .. NStages /\ Stages[s].does \in Does
      /\ \A u \in Workers(s) : u \in Threads /\ u[1] = s
  BY Shape, ThreadsOfStages
<1>3. /\ \A j \in 1 .. Len(queue[s]) : queue[s][j].op \in Rounds
      /\ \A u \in Workers(s) : /\ thread[u].cmd.op # Stages[s].does
                               /\ thread[u].collected = {}
  BY <1>1, Parts DEF Taken
<1> HIDE DEF s
<1>4. \A j \in 1 .. Len(queue'[s]) : queue'[s][j].op \in Rounds
  <2>1. CASE Take(t) /\ s = t[1]
    <3>1. /\ queue[s] \in Seq(Commands) /\ queue[s] # <<>> /\ queue'[s] = Tail(queue[s])
      BY <1>0, <2>1, TakeEffect
    <3> QED BY <1>3, <3>1, TailShorter
  <2>2. CASE Take(t) /\ s # t[1]
    BY <1>0, <1>2, <1>3, <2>2, TakeEffect
  <2>3. CASE Forwarded(t)
    <3>1. s # t[1] + 1 /\ t[1] < NStages
      BY <1>1, <2>3, NotForwardedTo DEF s
    <3> QED BY <1>0, <1>2, <1>3, <2>3, <3>1, ForwardedEffect
  <2> QED BY <1>3, <2>1, <2>2, <2>3, QueueKept
<1>5. s = t[1] => thread'[t].cmd.op # Stages[s].does /\ thread'[t].collected = {}
  <2>1. SUFFICES ASSUME s = t[1]
                 PROVE  thread'[t].cmd.op # Stages[s].does /\ thread'[t].collected = {}
    OBVIOUS
  <2>2. NoCommand.op # Stages[s].does
    BY <1>2, NoCommandOK DEF Does
  <2>3. thread[t].cmd.op # Stages[s].does /\ thread[t].collected = {}
    BY <1>0, <1>3, <2>1
  <2>4. CASE Take(t)
    <3>1. /\ queue[s] \in Seq(Commands) /\ queue[s] # <<>>
          /\ thread'[t].cmd = Head(queue[s]) /\ thread'[t].collected = {}
      BY <1>0, <2>1, <2>3, <2>4, TakeEffect
    <3>2. Head(queue[s]).op \in Rounds
      BY <1>3, <3>1, TailShorter
    <3> QED BY <1>2, <3>1, <3>2 DEF Rounds, Does
  <2>5. CASE Exit(t)
    BY <1>0, <2>2, <2>3, <2>5, ExitEffect
  <2>6. CASE Forward(t)
    <3>1. \A items : Command("flush", items).op = "flush"
      BY DEF Command
    <3>2. thread[t].local /\ t[1] + 1 \notin expired
      BY <2>6, Welcome DEF Forward
    <3>3. thread'[t].cmd.op = thread[t].cmd.op
      BY <1>0, <2>6, <3>1, <3>2, ForwardEffect
    <3>4. thread'[t].collected = {}
      BY <1>0, <2>3, <2>6, <3>2, ForwardEffect
    <3> QED BY <2>3, <3>3, <3>4
  <2>7. CASE Forwarded(t)
    BY <1>0, <2>2, <2>3, <2>7, NotForwardedTo, ForwardedEffect
  <2>8. CASE AtOnce(t)
    <3>1. /\ thread[t].pc = "execute" /\ thread'[t].cmd = NoCommand
          /\ thread'[t].collected = IF thread[t].cmd.op = "collect"
                                    THEN thread[t].collected \cup thread[t].cmd.items
                                    ELSE IF thread[t].cmd.op = "fetch" THEN {}
                                    ELSE thread[t].collected
      BY <1>0, <2>8, Executing, Welcome, AtOnceEffect
    <3>2. thread[t].cmd.op # "collect"
      BY <1>0, <2>1, <2>3, <3>1 DEF HandsOf, Fits, InRound, Rounds
    <3> QED BY <2>2, <2>3, <3>1, <3>2
  <2> QED BY <2>4, <2>5, <2>6, <2>7, <2>8, WorkCases
<1>6. \A u \in Workers(s) : thread'[u].cmd.op # Stages[s].does /\ thread'[u].collected = {}
  BY <1>0, <1>2, <1>3, <1>5 DEF Alone
<1> QED BY <1>4, <1>6 DEF s

\* A stage that is finished stays so.
LEMMA WorkFinished ==
    ASSUME IInv, WellScripted, NEW t \in Threads, Work(t)
    PROVE  Finished'
<1> USE DEF WellScripted
<1>0. /\ TypeOK /\ main' = main /\ NStages' = NStages /\ Stages' = Stages
      /\ Alone(t) /\ \A s : Workers(s)' = Workers(s) /\ ShutdownStep(s)' = ShutdownStep(s)
      /\ thread[t].pc # "exited" /\ t[1] \in 1 .. NStages /\ t \in Workers(t[1])
      /\ main.step \in Nat
  BY WorkKeeps, Parts, ThreadsOfStages, MainTyped
<1>1. ASSUME NEW s \in 1 .. NStages, ShutdownStep(s) <= main.step, queue[s] = <<>>
      PROVE  queue'[s] = <<>>
  <2>1. CASE Take(t)
    BY <1>0, <1>1, <2>1, TakeEffect
  <2>2. CASE Forwarded(t)
    <3>1. t[1] < NStages
      BY <2>2, NotForwardedTo
    <3>2. main.step < ShutdownStep(t[1] + 1)
      BY <1>0, <3>1, Ahead
    <3>3. ShutdownStep(s) \in Nat
      BY Shape DEF ShutDownInOrder
    <3>4. s # t[1] + 1
      BY <1>0, <1>1, <3>2, <3>3
    <3> QED BY <1>0, <1>1, <2>2, <3>1, <3>4, ForwardedEffect
  <2> QED BY <1>1, <2>1, <2>2, QueueKept
<1>2. ASSUME NEW s \in 1 .. NStages, NEW u \in Workers(s),
             thread[u].pc = "exited" /\ ~thread[u].failed
      PROVE  thread'[u].pc = "exited" /\ ~thread'[u].failed
  BY <1>0, <1>2, ThreadsOfStages DEF Alone
<1>3. \A s \in 1 .. NStages : ShutdownStep(s) \in Nat
  BY Shape DEF ShutDownInOrder
<1>4. \A s \in 1 .. NStages :
        /\ ShutdownStep(s) < main.step =>
             /\ queue[s] = <<>>
             /\ \A u \in Workers(s) : thread[u].pc = "exited" /\ ~thread[u].failed
        /\ ShutdownStep(s) = main.step /\ main.at = "join" =>
             /\ queue[s] = <<>>
             /\ \A u \in Workers(s) : u[2] > Stages[s].tasks - main.n =>
                  thread[u].pc = "exited" /\ ~thread[u].failed
  BY Parts DEF Finished
<1>5. \A s \in 1 .. NStages :
        /\ ShutdownStep(s) < main.step => ShutdownStep(s) <= main.step
        /\ ShutdownStep(s) = main.step => ShutdownStep(s) <= main.step
  BY <1>0, <1>3
<1> QED BY <1>0, <1>1, <1>2, <1>4, <1>5 DEF Finished

-------------------------------------------------------------------------------
(* The same for main's steps.                                              *)

\* What every step of main leaves alone, and that it only goes onward.
LEMMA MainKeeps ==
    ASSUME IInv, WellScripted, Main
    PROVE  /\ Stages' = Stages /\ NStages' = NStages /\ Threads' = Threads
           /\ Script' = Script /\ Steps' = Steps
           /\ FeedStep' = FeedStep /\ \A s : ShutdownStep(s)' = ShutdownStep(s)
           /\ \A s : Workers(s)' = Workers(s)
           /\ main'.step = main.step => Op' = Op /\ Here' = Here
           /\ main.step \in Nat /\ main'.step \in {main.step, main.step + 1}
           /\ ~RoundEnds => thread' = thread
           /\ \A t \in Threads : thread'[t].local = thread[t].local
<1> USE DEF WellScripted
<1>1. program' = program /\ TypeOK /\ MainOK
  BY Parts DEF Main, Lock, FeedItem, ReadFails, SubmitRound, RoundEnds, Drained, Join, Return,
         OnlyMain
<1>2. /\ Stages' = Stages /\ NStages' = NStages /\ Threads' = Threads
      /\ Script' = Script /\ Steps' = Steps
      /\ FeedStep' = FeedStep /\ \A s : ShutdownStep(s)' = ShutdownStep(s)
      /\ \A s : Workers(s)' = Workers(s)
      /\ main'.step = main.step => Op' = Op /\ Here' = Here
      /\ main.step \in Nat
  BY <1>1, SameProgram, SameStep, MainTyped
<1>3. /\ main'.step \in {main.step, main.step + 1}
      /\ ~RoundEnds => thread' = thread
      /\ \A t \in Threads : thread'[t].local = thread[t].local
  <2>1. CASE Lock
    BY <1>1, <2>1, LockEffect
  <2>2. CASE FeedItem
    BY <1>1, <2>2, FeedItemEffect
  <2>3. CASE ReadFails
    BY <1>1, <2>3, ReadFailsEffect
  <2>4. CASE SubmitRound
    BY <1>1, <2>4, SubmitRoundEffect
  <2>5. CASE RoundEnds
    BY <1>1, <2>5, RoundEndsEffect
  <2>6. CASE Drained
    BY <1>1, <2>6, DrainedEffect
  <2>7. CASE Join
    BY <1>1, <2>7, JoinEffect
  <2>8. CASE Return
    BY <1>1, <2>8, ReturnEffect
  <2> QED BY <2>1, <2>2, <2>3, <2>4, <2>5, <2>6, <2>7, <2>8 DEF Main
<1> QED BY <1>2, <1>3

\* The queues are changed by feeding and by submitting the commands of a round only.
LEMMA MainQueue ==
    ASSUME IInv, WellScripted, Main
    PROVE  FeedItem \/ SubmitRound \/ queue' = queue
BY DEF Main, Lock, ReadFails, RoundEnds, Drained, Join, Return, OnlyMain

\* A step of the script is over when the last item is fed, when the barrier of its
\* round opens, or when the last thread is joined.
LEMMA StepOver ==
    ASSUME IInv, WellScripted, Main, main'.step # main.step
    PROVE  /\ main.step \in Steps /\ main'.step = main.step + 1
           /\ Op = Script[main.step].op /\ Here = Script[main.step].stage
           /\ \/ FeedItem /\ Op = "feed"
              \/ RoundEnds /\ Op \in Rounds
              \/ Join /\ Op = "shutdown" /\ main.n + 1 = Stages[Here].tasks
<1> USE DEF WellScripted
<1>1. TypeOK /\ MainOK /\ main'.step = main.step + 1
  BY Parts, MainKeeps
<1>2. ~ScriptEnded =>
        /\ main.step \in Steps
        /\ Op = Script[main.step].op /\ Here = Script[main.step].stage
  BY <1>1, MainTyped, InScript
<1>3. ~Lock /\ ~ReadFails /\ ~SubmitRound /\ ~Drained /\ ~Return
  BY <1>1, LockEffect, ReadFailsEffect, SubmitRoundEffect, DrainedEffect, ReturnEffect
<1>4. CASE FeedItem
  BY <1>1, <1>2, <1>4, FeedItemEffect DEF Op
<1>5. CASE RoundEnds
  BY <1>1, <1>2, <1>5, RoundEndsEffect
<1>6. CASE Join
  <2>1. Op = "shutdown" /\ ~ScriptEnded
    BY <1>1, <1>6, JoinEffect DEF MainOK
  <2>2. main.n + 1 = Stages[Here].tasks
    BY <1>1, <1>6, JoinEffect
  <2> QED BY <1>1, <1>2, <1>6, <2>1, <2>2
<1> QED BY <1>3, <1>4, <1>5, <1>6 DEF Main

\* A round that is going on goes on until its barrier opens.
LEMMA RoundGoesOn ==
    ASSUME IInv, WellScripted, Main, ~RoundEnds, NEW s, NEW op, InRound(s, op)
    PROVE  SubmitRound /\ InRound(s, op)' /\ Op' = Op
<1> USE DEF WellScripted
<1>1. TypeOK /\ MainOK
  BY Parts
<1>2. main.at \in {"submit", "barrier"} /\ Op \in Rounds /\ Op = op /\ Here = s
  BY DEF InRound
<1>3. ~FeedItem /\ ~Lock /\ ~ReadFails /\ ~Drained /\ ~Join /\ ~Return
  BY <1>2 DEF FeedItem, Lock, ReadFails, Drained, Join, Return, Rounds
<1>4. SubmitRound
  BY <1>3 DEF Main
<1>5. /\ main'.step = main.step /\ main'.at \in {"submit", "barrier"}
  BY <1>1, <1>4, SubmitRoundEffect
<1>6. Op' = Op /\ Here' = Here
  BY <1>5, MainKeeps
<1> QED BY <1>2, <1>4, <1>5, <1>6 DEF InRound

\* One that is going on after a step of main was before, or begins.
LEMMA RoundBefore ==
    ASSUME IInv, WellScripted, Main, NEW s, NEW op, InRound(s, op)'
    PROVE  /\ main'.step = main.step /\ op \in Rounds /\ Op = op /\ Here = s
           /\ s \in 1 .. NStages /\ thread' = thread
           /\ \/ Lock /\ main'.n = 0 /\ queue' = queue /\ \A r, o : ~InRound(r, o)
              \/ SubmitRound /\ InRound(s, op)
<1> USE DEF WellScripted
<1>1. TypeOK /\ MainOK
  BY Parts
<1>2. main'.at \in {"submit", "barrier"} /\ op \in Rounds /\ Op' = op /\ Here' = s
  BY DEF InRound
<1>3. CASE Lock
  <2>1. /\ main.at = "lock" /\ main'.step = main.step /\ main'.n = 0 /\ queue' = queue
        /\ thread' = thread /\ ~ScriptEnded
    BY <1>1, <1>3, LockEffect
  <2>2. Op' = Op /\ Here' = Here /\ Here \in 1 .. NStages
    BY <1>1, <2>1, MainKeeps, MainTyped, InScript
  <2>3. \A r, o : ~InRound(r, o)
    BY <2>1 DEF InRound
  <2> QED BY <1>2, <1>3, <2>1, <2>2, <2>3
<1>4. CASE SubmitRound
  <2>1. /\ main.at = "submit" /\ main'.step = main.step /\ thread' = thread
        /\ Here \in 1 .. NStages
    BY <1>1, <1>4, SubmitRoundEffect
  <2>2. Op' = Op /\ Here' = Here
    BY <2>1, MainKeeps
  <2> QED BY <1>2, <1>4, <2>1, <2>2 DEF InRound
<1>5. ~FeedItem /\ ~ReadFails /\ ~RoundEnds /\ ~Drained /\ ~Join /\ ~Return
  BY <1>1, <1>2, FeedItemEffect, ReadFailsEffect, RoundEndsEffect, DrainedEffect,
     JoinEffect, ReturnEffect
<1> QED BY <1>3, <1>4, <1>5 DEF Main

\* Outside a round, there is no command of one.
LEMMA NoRound ==
    ASSUME IInv, WellScripted, NEW s \in 1 .. NStages, \A op : ~InRound(s, op)
    PROVE  /\ \A k \in 1 .. Len(queue[s]) : queue[s][k].op \notin Rounds
           /\ At(queue[s], RoundCommands) = {} /\ InHand(s) = {}
<1> USE DEF WellScripted
<1>1. Queued /\ Hands /\ TypeOK /\ Stages[s].does \notin Rounds
  BY Parts, Shape DEF Does, Rounds
<1>2. \A k \in 1 .. Len(queue[s]) : queue[s][k].op \notin Rounds
  BY <1>1 DEF Queued, Fits
<1>3. At(queue[s], RoundCommands) = {}
  BY <1>2 DEF At, RoundCommands
<1>4. ASSUME NEW t \in Workers(s)
      PROVE  thread[t].cmd.op \notin Rounds /\ thread[t].pc # "barrier"
  <2>1. t \in Threads /\ t[1] = s
    BY ThreadsOfStages
  <2>2. HandsOf(t) /\ thread[t].pc \in {"idle", "execute", "submit", "barrier", "exited"}
    BY <1>1, <2>1 DEF Hands, HandsOf, TypeOK, ThreadStates
  <2>3. thread[t].pc # "barrier"
    BY <2>1, <2>2 DEF HandsOf
  <2>4. CASE thread[t].pc = "execute"
    BY <1>1, <2>1, <2>2, <2>4 DEF HandsOf, Fits
  <2>5. CASE thread[t].pc = "submit"
    BY <1>1, <2>1, <2>2, <2>5 DEF HandsOf, Fits
  <2>6. CASE thread[t].pc \in {"idle", "exited"}
    BY <2>2, <2>6, NoCommandOK DEF HandsOf, Rounds
  <2> QED BY <2>2, <2>3, <2>4, <2>5, <2>6
<1>5. InHand(s) = {}
  BY <1>4 DEF InHand
<1> QED BY <1>2, <1>3, <1>5

\* When the barrier of set_thread_local opens, every thread is told.
LEMMA MainTold ==
    ASSUME IInv, WellScripted, Main
    PROVE  Told'
<1> USE DEF WellScripted
<1>0. /\ Script' = Script /\ Steps' = Steps /\ \A s : Workers(s)' = Workers(s)
      /\ \A t \in Threads : thread'[t].local = thread[t].local
      /\ main.step \in Nat /\ main'.step \in {main.step, main.step + 1}
      /\ TypeOK /\ MainOK /\ Hands /\ Told
  BY MainKeeps, Parts
<1>1. SUFFICES ASSUME NEW k \in Steps, k < main'.step, Script[k].op = "set_thread_local",
                      NEW t \in Workers(Script[k].stage)
               PROVE  thread[t].local
  <2>1. \A k \in Steps : \A t \in Workers(Script[k].stage) : t \in Threads
    BY Shape, ThreadsOfStages
  <2> QED BY <1>0, <1>1, <2>1 DEF Told
<1>2. CASE k < main.step
  BY <1>0, <1>1, <1>2 DEF Told
<1>3. CASE ~(k < main.step)
  <2>1. k = main.step /\ main'.step # main.step
    BY <1>0, <1>1, <1>3, Shape
  <2>2. RoundEnds /\ Op = "set_thread_local" /\ Here = Script[k].stage
    BY <1>1, <2>1, StepOver
  <2>3. thread[t].pc = "barrier" /\ t \in Threads
    BY <1>0, <1>1, <2>2, RoundEndsEffect, Shape, ThreadsOfStages
  <2> QED BY <1>0, <2>2, <2>3 DEF Hands, HandsOf
<1> QED BY <1>2, <1>3

\* When the barrier of a flush or fetch opens, everything collected is taken.
LEMMA MainTaken ==
    ASSUME IInv, WellScripted, Main
    PROVE  Taken'
<1> USE DEF WellScripted
<1>0. /\ Script' = Script /\ Steps' = Steps /\ \A s : Workers(s)' = Workers(s)
      /\ Stages' = Stages
      /\ main.step \in Nat /\ main'.step \in {main.step, main.step + 1}
      /\ TypeOK /\ MainOK /\ Hands
  BY MainKeeps, Parts
<1>1. SUFFICES ASSUME NEW k \in Steps, k < main'.step, Script[k].op \in After
               PROVE  LET s == Script[k].stage IN
                      /\ \A j \in 1 .. Len(queue'[s]) : queue'[s][j].op \in Rounds
                      /\ \A u \in Workers(s) : /\ thread'[u].cmd.op # Stages[s].does
                                               /\ thread'[u].collected = {}
  BY <1>0 DEF Taken
<1> DEFINE s == Script[k].stage
<1>2. /\ s \in 1 .. NStages /\ Stages[s].does \in Does /\ k \in Nat
      /\ \A u \in Workers(s) : u \in Threads /\ u[1] = s
  BY Shape, ThreadsOfStages
<1>3. ASSUME k < main.step
      PROVE  /\ \A j \in 1 .. Len(queue[s]) : queue[s][j].op \in Rounds
             /\ \A u \in Workers(s) : /\ thread[u].cmd.op # Stages[s].does
                                      /\ thread[u].collected = {}
  BY <1>1, <1>3, Parts DEF Taken
<1> HIDE DEF s
<1>4. FeedStep < k /\ FeedStep \in Nat
  BY <1>1, <1>2, Shape DEF FedOnce, After
<1>5. CASE FeedItem
  BY <1>0, <1>1, <1>2, <1>4, <1>5, FeedItemEffect
<1>6. CASE SubmitRound
  <2> DEFINE c == Command(Op, {})
  <2>1. /\ main'.step = main.step /\ Op \in Rounds /\ Here \in 1 .. NStages
        /\ c \in Commands /\ c.op = Op /\ queue[Here] \in Seq(Commands)
        /\ queue'[Here] = Append(queue[Here], c)
        /\ \A r \in 1 .. NStages \ {Here} : queue'[r] = queue[r]
        /\ thread' = thread
    BY <1>0, <1>6, SubmitRoundEffect
  <2> HIDE DEF c
  <2>2. \A j \in 1 .. Len(queue'[s]) : queue'[s][j].op \in Rounds
    <3>0. \A j \in 1 .. Len(queue[s]) : queue[s][j].op \in Rounds
      BY <1>1, <1>3, <2>1
    <3>1. CASE s = Here
      <4> DEFINE q == queue[s]
      <4>1. /\ Len(Append(q, c)) = Len(q) + 1 /\ Append(q, c)[Len(q) + 1] = c
            /\ \A j \in 1 .. Len(q) : Append(q, c)[j] = q[j]
            /\ Len(q) \in Nat /\ queue'[s] = Append(q, c)
        BY <2>1, <3>1, AppendLonger
      <4> HIDE DEF q
      <4>2. \A j \in 1 .. Len(Append(q, c)) : j \in 1 .. Len(q) \/ j = Len(q) + 1
        BY <4>1
      <4> QED BY <2>1, <3>0, <4>1, <4>2 DEF q
    <3>2. CASE s # Here
      BY <1>1, <1>2, <1>3, <2>1, <3>2
    <3> QED BY <3>1, <3>2
  <2> QED BY <1>1, <1>3, <2>1, <2>2 DEF s
<1>7. CASE RoundEnds
  <2>1. /\ \A u \in Threads : /\ thread'[u].cmd = thread[u].cmd
                              /\ thread'[u].collected = thread[u].collected
        /\ queue' = queue /\ main'.step = main.step + 1
    BY <1>0, <1>7, RoundEndsEffect
  <2>2. CASE k < main.step
    BY <1>2, <1>3, <2>1, <2>2 DEF s
  <2>3. CASE ~(k < main.step)
    <3>1. k = main.step
      BY <1>0, <1>1, <1>2, <2>3
    <3>2. Op \in After /\ Here = s
      BY <1>1, <2>1, <3>1, <1>0, StepOver DEF s
    <3>3. queue[s] = <<>>
      BY <1>7, <3>2, RoundOver
    <3>4. \A u \in Workers(s) : /\ thread[u].pc = "barrier" /\ HandsOf(u)
      BY <1>0, <1>2, <1>7, <3>2, RoundEndsEffect DEF Hands
    <3>5. \A u \in Workers(s) : thread[u].cmd = NoCommand /\ thread[u].collected = {}
      BY <3>2, <3>4 DEF HandsOf
    <3> QED BY <1>2, <2>1, <3>3, <3>5, NoCommandOK DEF s, Does
  <2> QED BY <2>2, <2>3
<1>8. CASE Lock \/ ReadFails \/ Drained \/ Join \/ Return
  <2>1. queue' = queue /\ thread' = thread
    BY <1>0, <1>8, LockEffect, ReadFailsEffect, DrainedEffect, JoinEffect, ReturnEffect
  <2>2. k < main.step
    <3>1. SUFFICES ASSUME ~(k < main.step) PROVE FALSE
      OBVIOUS
    <3>2. k = main.step /\ main'.step # main.step
      BY <1>0, <1>1, <1>2, <3>1
    <3>3. Op = Script[k].op /\ (FeedItem \/ RoundEnds \/ Op = "shutdown")
      BY <3>2, StepOver
    <3>4. ~FeedItem /\ ~RoundEnds
      BY <1>0, <1>8, <3>2, FeedItemEffect, RoundEndsEffect, LockEffect, ReadFailsEffect,
         DrainedEffect, JoinEffect, ReturnEffect
    <3> QED BY <1>1, <3>3, <3>4 DEF After
  <2> QED BY <1>3, <2>1, <2>2 DEF s
<1> QED BY <1>5, <1>6, <1>7, <1>8 DEF Main

\* To fit after a step, spelt out.
FitsNext(c, s) ==
    \/ c.op = Stages'[s].does /\ FeedStep' <= main'.step
    \/ /\ main'.at \in {"submit", "barrier"} /\ Here' = s /\ Op' = c.op
       /\ c.op \in Rounds /\ c.items = {}

\* What fits keeps fitting, as long as the round it belongs to is not over.
LEMMA FitsOn ==
    ASSUME IInv, WellScripted, Main
    PROVE  \A c, s : Fits(c, s) /\ (RoundEnds => s # Here) => FitsNext(c, s)
<1> USE DEF WellScripted
<1>0. /\ Stages' = Stages /\ FeedStep' = FeedStep /\ FeedStep \in Nat
      /\ main.step \in Nat /\ main'.step \in {main.step, main.step + 1}
  BY MainKeeps, Shape DEF FedOnce
<1>1. ASSUME NEW c, NEW s, Fits(c, s), RoundEnds => s # Here
      PROVE  FitsNext(c, s)
  <2>1. CASE c.op = Stages[s].does /\ FeedStep <= main.step
    BY <1>0, <2>1 DEF FitsNext
  <2>2. CASE InRound(s, c.op) /\ c.items = {}
    <3> DEFINE op == c.op
    <3>1. ~RoundEnds
      BY <1>1, <2>2 DEF InRound
    <3>2. op \in Rounds /\ InRound(s, op)
      BY <2>2 DEF InRound
    <3> HIDE DEF op
    <3>3. main'.at \in {"submit", "barrier"} /\ Here' = s /\ Op' = op
      BY <3>1, <3>2, RoundGoesOn DEF InRound
    <3> QED BY <2>2, <3>2, <3>3 DEF FitsNext, op
  <2> QED BY <1>1, <2>1, <2>2 DEF Fits
<1> QED BY <1>1

\* What main submits fits.
LEMMA MainQueued ==
    ASSUME IInv, WellScripted, Main
    PROVE  Queued'
<1> USE DEF WellScripted
<1>0. /\ NStages' = NStages /\ Stages' = Stages /\ FeedStep' = FeedStep
      /\ TypeOK /\ MainOK
      /\ \A s \in 1 .. NStages : \A k \in 1 .. Len(queue[s]) : Fits(queue[s][k], s)
  BY MainKeeps, Parts DEF Queued
<1>1. ASSUME NEW s \in 1 .. NStages, NEW k \in 1 .. Len(queue[s])
      PROVE  FitsNext(queue[s][k], s)
  <2>1. RoundEnds => s # Here
    BY <1>1, RoundOver
  <2> QED BY <1>0, <2>1, FitsOn
<1>2. SUFFICES \A s \in 1 .. NStages : \A k \in 1 .. Len(queue'[s]) :
                 FitsNext(queue'[s][k], s)
  BY <1>0 DEF Queued, Fits, InRound, FitsNext
<1>3. CASE FeedItem
  <2> DEFINE c == Command(Stages[1].does, {main.fed + 1})
  <2>1. /\ 1 \in 1 .. NStages /\ c \in Commands /\ c.op = Stages[1].does
        /\ queue[1] \in Seq(Commands) /\ queue'[1] = Append(queue[1], c)
        /\ \A r \in 1 .. NStages \ {1} : queue'[r] = queue[r]
        /\ main.step = FeedStep
    BY <1>0, <1>3, FeedItemEffect DEF Command
  <2> HIDE DEF c
  <2>2. FeedStep <= main'.step /\ FeedStep \in Nat
    BY <2>1, MainKeeps
  <2>3. FitsNext(c, 1)
    BY <1>0, <2>1, <2>2 DEF FitsNext
  <2>4. \A k \in 1 .. Len(queue'[1]) : FitsNext(queue'[1][k], 1)
    BY <1>1, <2>1, <2>3, AppendLonger
  <2> QED BY <1>1, <2>1, <2>4
<1>4. CASE SubmitRound
  <2> DEFINE c == Command(Op, {})
  <2>1. /\ main.at = "submit" /\ main'.step = main.step /\ Op \in Rounds
        /\ Here \in 1 .. NStages
        /\ main'.at \in {"submit", "barrier"}
        /\ c \in Commands /\ c.op = Op /\ c.items = {} /\ queue[Here] \in Seq(Commands)
        /\ queue'[Here] = Append(queue[Here], c)
        /\ \A r \in 1 .. NStages \ {Here} : queue'[r] = queue[r]
    BY <1>0, <1>4, SubmitRoundEffect
  <2> HIDE DEF c
  <2>2. FitsNext(c, Here)
    BY <2>1, MainKeeps DEF FitsNext
  <2>3. \A k \in 1 .. Len(queue'[Here]) : FitsNext(queue'[Here][k], Here)
    BY <1>1, <2>1, <2>2, AppendLonger
  <2> QED BY <1>1, <2>1, <2>3
<1>5. CASE queue' = queue
  BY <1>1, <1>5
<1> QED BY <1>3, <1>4, <1>5, MainQueue

\* Main puts nothing into a thread's hands.
LEMMA MainHands ==
    ASSUME IInv, WellScripted, Main
    PROVE  Hands'
<1> USE DEF WellScripted
<1>0. /\ NStages' = NStages /\ Stages' = Stages /\ FeedStep' = FeedStep
      /\ Threads' = Threads /\ TypeOK /\ MainOK
      /\ \A t \in Threads : HandsOf(t)
  BY MainKeeps, Parts DEF Hands
<1>1. ASSUME NEW t \in Threads PROVE HandsOf(t)'
  <2>0. HandsOf(t) /\ t[1] \in 1 .. NStages
    BY <1>0, ThreadsOfStages
  <2>1. CASE ~RoundEnds
    <3>1. thread' = thread
      BY <2>1, MainKeeps
    <3>2. Fits(thread[t].cmd, t[1]) => FitsNext(thread[t].cmd, t[1])
      BY <2>1, FitsOn
    <3>3. FitsNext(thread[t].cmd, t[1]) => Fits(thread[t].cmd, t[1])'
      BY <1>0, <3>1 DEF FitsNext, Fits, InRound
    <3>4. \A op : InRound(t[1], op) => InRound(t[1], op)' /\ Op' = Op
      BY <2>1, RoundGoesOn
    <3>5. InRound(t[1], "flush") => InRound(t[1], "flush")'
      BY <3>4
    <3>6. InRound(t[1], Op) => InRound(t[1], Op)' /\ Op' = Op
      <4> DEFINE op == Op
      <4>1. InRound(t[1], op) => /\ main'.at \in {"submit", "barrier"} /\ Op' = op
                                 /\ Here' = t[1] /\ op \in Rounds
        BY <3>4 DEF InRound
      <4> QED BY <4>1 DEF InRound
    <3> QED BY <1>0, <2>0, <3>1, <3>2, <3>3, <3>5, <3>6 DEF HandsOf
  <2>2. CASE RoundEnds
    <3>1. /\ thread'[t].pc = IF t[1] = Here THEN "idle" ELSE thread[t].pc
          /\ thread'[t].cmd = thread[t].cmd
          /\ thread'[t].collected = thread[t].collected
          /\ t[1] = Here => thread[t].pc = "barrier"
      BY <1>0, <2>0, <2>2, RoundEndsEffect, ThreadsOfStages
    <3>2. CASE t[1] = Here
      BY <1>0, <2>0, <3>1, <3>2 DEF HandsOf
    <3>3. CASE t[1] # Here
      <4>1. Fits(thread[t].cmd, t[1]) => FitsNext(thread[t].cmd, t[1])
        BY <3>3, FitsOn
      <4>2. FitsNext(thread[t].cmd, t[1]) => Fits(thread[t].cmd, t[1])'
        BY <1>0, <3>1 DEF FitsNext, Fits, InRound
      <4>3. \A op : ~InRound(t[1], op)
        BY <3>3 DEF InRound
      <4> QED BY <1>0, <2>0, <3>1, <3>3, <4>1, <4>2, <4>3 DEF HandsOf
    <3> QED BY <3>2, <3>3
  <2> QED BY <2>1, <2>2
<1> QED BY <1>0, <1>1 DEF Hands

\* A round that main is in after its step: it has begun, with nothing submitted,
\* or one more command has been.
LEMMA RoundNext ==
    ASSUME IInv, WellScripted, Main, NEW s, NEW op, InRound(s, op)'
    PROVE  /\ s \in 1 .. NStages /\ Op = op /\ op \in Rounds /\ InHand(s)' = InHand(s)
           /\ \/ /\ main'.n = 0 /\ queue' = queue
                 /\ At(queue[s], RoundCommands) = {} /\ InHand(s) = {}
                 /\ \A k \in 1 .. Len(queue[s]) : queue[s][k].op \notin Rounds
              \/ /\ InRound(s, op) /\ main'.n = main.n + 1
                 /\ Command(op, {}) \in Commands /\ Command(op, {}).op = op
                 /\ queue[s] \in Seq(Commands)
                 /\ queue'[s] = Append(queue[s], Command(op, {}))
<1> USE DEF WellScripted
<1>1. /\ op \in Rounds /\ Op = op /\ Here = s /\ s \in 1 .. NStages /\ thread' = thread
      /\ \/ Lock /\ main'.n = 0 /\ queue' = queue /\ \A r, o : ~InRound(r, o)
         \/ SubmitRound /\ InRound(s, op)
  BY RoundBefore
<1>2. InHand(s)' = InHand(s)
  BY <1>1, MainKeeps DEF InHand
<1>3. CASE Lock /\ main'.n = 0 /\ queue' = queue /\ \A r, o : ~InRound(r, o)
  <2>1. /\ At(queue[s], RoundCommands) = {} /\ InHand(s) = {}
        /\ \A k \in 1 .. Len(queue[s]) : queue[s][k].op \notin Rounds
    BY <1>1, <1>3, NoRound
  <2> QED BY <1>1, <1>2, <1>3, <2>1
<1>4. CASE SubmitRound /\ InRound(s, op)
  <2>1. /\ main'.n = main.n + 1 /\ Command(Op, {}) \in Commands /\ Command(Op, {}).op = Op
        /\ queue[Here] \in Seq(Commands)
        /\ queue'[Here] = Append(queue[Here], Command(Op, {}))
    BY <1>4, Parts, SubmitRoundEffect
  <2> QED BY <1>1, <1>2, <1>4, <2>1
<1> QED BY <1>1, <1>3, <1>4

\* A round begins with none of its commands and is submitted one by one.
LEMMA MainRoundsCounted ==
    ASSUME IInv, WellScripted, Main
    PROVE  RoundsCounted'
<1> USE DEF WellScripted
<1>0. NStages' = NStages /\ RoundCommands' = RoundCommands
  BY MainKeeps DEF RoundCommands, Commands
<1>1. ASSUME NEW s \in 1 .. NStages, NEW op, InRound(s, op)'
      PROVE  Cardinality(At(queue'[s], RoundCommands)) + Cardinality(InHand(s)') = main'.n
  <2>1. /\ Op = op /\ op \in Rounds /\ InHand(s)' = InHand(s)
    BY <1>1, RoundNext
  <2>2. CASE /\ main'.n = 0 /\ queue' = queue
             /\ At(queue[s], RoundCommands) = {} /\ InHand(s) = {}
    BY <2>1, <2>2, FS_EmptySet
  <2>3. CASE /\ InRound(s, op) /\ main'.n = main.n + 1
             /\ Command(op, {}) \in Commands /\ Command(op, {}).op = op
             /\ queue[s] \in Seq(Commands)
             /\ queue'[s] = Append(queue[s], Command(op, {}))
    <3> DEFINE c == Command(op, {})
               m == Cardinality(At(queue[s], RoundCommands))
               h == Cardinality(InHand(s))
    <3>1. c \in RoundCommands
      BY <2>1, <2>3 DEF RoundCommands
    <3>2. Cardinality(At(queue'[s], RoundCommands)) = m + 1
      BY <2>3, <3>1, AtAppend
    <3>3. m + h = main.n
      BY <2>1, <2>3, Parts DEF RoundsCounted
    <3>4. m \in Nat /\ h \in Nat
      BY <2>3, AtFinite, InHandFinite
    <3>5. Cardinality(InHand(s)') = h
      BY <2>1
    <3> HIDE DEF m, h
    <3> QED BY <2>3, <3>2, <3>3, <3>4, <3>5
  <2> QED BY <1>1, <2>2, <2>3, RoundNext
<1>2. ASSUME NEW s \in 1 .. NStages,
             main'.at \in {"submit", "barrier"}, Here' = s, Op' \in Rounds
      PROVE  Cardinality(At(queue'[s], RoundCommands)) + Cardinality(InHand(s)') = main'.n
  <2>1. \A op : op = Op' => InRound(s, op)'
    BY <1>2 DEF InRound
  <2> QED BY <1>1, <2>1
<1> QED BY <1>0, <1>2 DEF RoundsCounted, InRound, At

\* Its commands go behind everything else.
LEMMA MainRoundsLast ==
    ASSUME IInv, WellScripted, Main
    PROVE  RoundsLast'
<1> USE DEF WellScripted
<1>0. NStages' = NStages
  BY MainKeeps
<1> DEFINE Last(q, H) ==
             /\ \A j, k \in 1 .. Len(q) : j < k /\ q[j].op \in Rounds => q[k].op \in Rounds
             /\ H # {} => \A k \in 1 .. Len(q) : q[k].op \in Rounds
<1>1. ASSUME NEW s \in 1 .. NStages, NEW op, InRound(s, op)'
      PROVE  Last(queue'[s], InHand(s)')
  <2>1. /\ Op = op /\ op \in Rounds /\ InHand(s)' = InHand(s)
    BY <1>1, RoundNext
  <2>2. CASE /\ queue' = queue /\ InHand(s) = {}
             /\ \A k \in 1 .. Len(queue[s]) : queue[s][k].op \notin Rounds
    BY <2>1, <2>2
  <2>3. CASE /\ InRound(s, op)
             /\ Command(op, {}) \in Commands /\ Command(op, {}).op = op
             /\ queue[s] \in Seq(Commands)
             /\ queue'[s] = Append(queue[s], Command(op, {}))
    <3> DEFINE c == Command(op, {})
               q == queue[s]
    <3>1. Last(q, InHand(s))
      BY <2>1, <2>3, Parts DEF RoundsLast
    <3>2. c.op \in Rounds /\ c \in Commands /\ q \in Seq(Commands)
      BY <2>1, <2>3
    <3> HIDE DEF c, q
    <3>3. /\ Len(Append(q, c)) = Len(q) + 1 /\ Append(q, c)[Len(q) + 1] = c
          /\ \A k \in 1 .. Len(q) : Append(q, c)[k] = q[k]
          /\ Len(q) \in Nat
      BY <3>2, AppendLonger
    <3>4. \A k \in 1 .. Len(Append(q, c)) : k \in 1 .. Len(q) \/ k = Len(q) + 1
      BY <3>3
    <3>5. \A j, k \in 1 .. Len(Append(q, c)) :
            j < k /\ Append(q, c)[j].op \in Rounds => Append(q, c)[k].op \in Rounds
      <4>1. ASSUME NEW j \in 1 .. Len(Append(q, c)), NEW k \in 1 .. Len(Append(q, c)),
                   j < k, Append(q, c)[j].op \in Rounds
            PROVE  Append(q, c)[k].op \in Rounds
        <5>1. CASE k = Len(q) + 1
          BY <3>2, <3>3, <5>1
        <5>2. CASE k \in 1 .. Len(q)
          <6>1. j \in 1 .. Len(q)
            BY <3>3, <4>1, <5>2
          <6> QED BY <3>1, <3>3, <4>1, <5>2, <6>1
        <5> QED BY <3>4, <4>1, <5>1, <5>2
      <4> QED BY <4>1
    <3>6. InHand(s) # {} => \A k \in 1 .. Len(Append(q, c)) : Append(q, c)[k].op \in Rounds
      BY <3>1, <3>2, <3>3, <3>4
    <3>7. Last(Append(q, c), InHand(s))
      BY <3>5, <3>6
    <3>8. queue'[s] = Append(q, c)
      BY <2>3 DEF q, c
    <3> QED BY <2>1, <3>7, <3>8
  <2> QED BY <1>1, <2>2, <2>3, RoundNext
<1>2. ASSUME NEW s \in 1 .. NStages,
             main'.at \in {"submit", "barrier"}, Here' = s, Op' \in Rounds
      PROVE  Last(queue'[s], InHand(s)')
  <2>1. \A op : op = Op' => InRound(s, op)'
    BY <1>2 DEF InRound
  <2> QED BY <1>1, <2>1
<1> QED BY <1>0, <1>2 DEF RoundsLast, InRound

\* Joining the last thread finishes a stage.
LEMMA MainFinished ==
    ASSUME IInv, WellScripted, Main
    PROVE  Finished'
<1> USE DEF WellScripted
<1>0. /\ NStages' = NStages /\ Stages' = Stages /\ \A s : Workers(s)' = Workers(s)
      /\ \A s : ShutdownStep(s)' = ShutdownStep(s)
      /\ main.step \in Nat /\ main'.step \in {main.step, main.step + 1}
      /\ ~RoundEnds => thread' = thread
      /\ TypeOK /\ MainOK
  BY MainKeeps, Parts
<1>1. SUFFICES ASSUME NEW s \in 1 .. NStages
               PROVE  /\ ShutdownStep(s) < main'.step =>
                           /\ queue'[s] = <<>>
                           /\ \A t \in Workers(s) :
                                thread'[t].pc = "exited" /\ ~thread'[t].failed
                      /\ ShutdownStep(s) = main'.step /\ main'.at = "join" =>
                           /\ queue'[s] = <<>>
                           /\ \A t \in Workers(s) : t[2] > Stages[s].tasks - main'.n =>
                                thread'[t].pc = "exited" /\ ~thread'[t].failed
  BY <1>0 DEF Finished
<1>2. /\ ShutdownStep(s) \in Nat /\ ShutdownStep(s) \in Steps
      /\ FeedStep < ShutdownStep(s) /\ FeedStep \in Nat
      /\ Script[ShutdownStep(s)].op = "shutdown" /\ Script[ShutdownStep(s)].stage = s
      /\ Stages[s].tasks \in Nat \ {0}
  <2>1. ShutdownStep(s) \in Steps /\ FeedStep < ShutdownStep(s) /\ FeedStep \in Steps
    BY DEF ShutDownInOrder, FedOnce
  <2>2. Script[ShutdownStep(s)] = Do("shutdown", s)
    BY DEF ShutDownInOrder
  <2> QED BY <2>1, <2>2, Shape DEF Do
<1>3. /\ ShutdownStep(s) < main.step =>
           /\ queue[s] = <<>>
           /\ \A t \in Workers(s) : thread[t].pc = "exited" /\ ~thread[t].failed
      /\ ShutdownStep(s) = main.step /\ main.at = "join" =>
           /\ queue[s] = <<>>
           /\ \A t \in Workers(s) : t[2] > Stages[s].tasks - main.n =>
                thread[t].pc = "exited" /\ ~thread[t].failed
  BY Parts DEF Finished
<1>4. \A t \in Workers(s) : t \in Threads /\ t[1] = s /\ t[2] \in 1 .. Stages[s].tasks
  BY ThreadsOfStages DEF Workers
<1>5. ~ScriptEnded /\ ShutdownStep(s) = main.step => Here = s /\ Op = "shutdown"
  BY <1>0, <1>2, MainTyped, InScript
<1>6. ~ScriptEnded => Here \in 1 .. NStages /\ main.step <= ShutdownStep(Here)
  BY <1>0, MainTyped, InScript DEF ShutDownInOrder
<1>7. CASE Lock \/ ReadFails \/ Return
  <2>1. queue' = queue /\ thread' = thread /\ main'.step = main.step /\ main'.at # "join"
    BY <1>0, <1>7, LockEffect, ReadFailsEffect, ReturnEffect
  <2> QED BY <1>3, <2>1
<1>8. CASE FeedItem
  <2>1. main.step = FeedStep /\ main'.at = "lock"
    BY <1>0, <1>8, FeedItemEffect
  <2> QED BY <1>0, <1>2, <2>1
<1>9. CASE SubmitRound
  <2>1. /\ main'.step = main.step /\ main'.at \in {"submit", "barrier"} /\ ~ScriptEnded
        /\ \A r \in 1 .. NStages \ {Here} : queue'[r] = queue[r]
        /\ thread' = thread
    BY <1>0, <1>9, SubmitRoundEffect
  <2>2. ShutdownStep(s) < main.step => s # Here
    BY <1>0, <1>2, <1>6, <2>1
  <2> QED BY <1>3, <2>1, <2>2
<1>10. CASE RoundEnds
  <2>1. /\ main'.step = main.step + 1 /\ main'.at = "lock" /\ ~ScriptEnded /\ Op \in Rounds
        /\ queue' = queue
        /\ \A t \in Threads :
             /\ thread'[t].pc = IF t[1] = Here THEN "idle" ELSE thread[t].pc
             /\ thread'[t].failed = thread[t].failed
    BY <1>0, <1>10, RoundEndsEffect
  <2>2. SUFFICES ASSUME ShutdownStep(s) < main'.step
                 PROVE  /\ queue'[s] = <<>>
                        /\ \A t \in Workers(s) :
                             thread'[t].pc = "exited" /\ ~thread'[t].failed
    BY <2>1
  <2>3. ShutdownStep(s) # main.step
    BY <1>5, <2>1 DEF Rounds
  <2>4. ShutdownStep(s) < main.step /\ s # Here
    BY <1>0, <1>2, <1>6, <2>1, <2>2, <2>3
  <2> QED BY <1>3, <1>4, <2>1, <2>4
<1>11. CASE Drained
  <2>1. /\ main'.step = main.step /\ main'.at = "join" /\ main'.n = 0 /\ ~ScriptEnded
        /\ queue[Here] = <<>> /\ queue' = queue /\ thread' = thread
    BY <1>0, <1>11, DrainedEffect
  <2>2. \A t \in Workers(s) : ~(t[2] > Stages[s].tasks - 0)
    BY <1>2, <1>4
  <2>3. ShutdownStep(s) = main.step => queue'[s] = <<>>
    BY <1>5, <2>1
  <2> QED BY <1>3, <2>1, <2>2, <2>3
<1>12. CASE Join
  <2> DEFINE u == <<Here, Stages[Here].tasks - main.n>>
  <2>1. /\ main.at = "join" /\ ~ScriptEnded /\ queue' = queue /\ thread' = thread
        /\ \/ main'.at = "failed" /\ main'.step = main.step
           \/ /\ thread[u].pc = "exited" /\ ~thread[u].failed
              /\ \/ /\ main.n + 1 = Stages[Here].tasks
                    /\ main'.step = main.step + 1 /\ main'.at = "lock"
                 \/ /\ main.n + 1 < Stages[Here].tasks
                    /\ main'.step = main.step /\ main'.n = main.n + 1
    BY <1>0, <1>12, JoinEffect
  <2>2. main.n \in Nat /\ main.n < Stages[Here].tasks
    BY <1>0, <2>1, MainTyped DEF MainOK
  <2>3. CASE main'.at = "failed" /\ main'.step = main.step
    BY <1>3, <2>1, <2>3
  <2>4. CASE thread[u].pc = "exited" /\ ~thread[u].failed
    <3>1. ASSUME ShutdownStep(s) = main.step, NEW t \in Workers(s),
                 t[2] > Stages[s].tasks - (main.n + 1)
          PROVE  thread[t].pc = "exited" /\ ~thread[t].failed
      <4>1. Here = s
        BY <1>5, <2>1, <3>1
      <4>2. t = <<s, t[2]>> /\ t[2] \in Nat
        BY <3>1, <1>4 DEF Workers
      <4>3. t[2] > Stages[s].tasks - main.n \/ t[2] = Stages[s].tasks - main.n
        BY <1>2, <2>2, <3>1, <4>2
      <4> QED BY <1>3, <2>1, <2>4, <3>1, <4>1, <4>2, <4>3
    <3>2. CASE main.n + 1 = Stages[Here].tasks /\ main'.step = main.step + 1
               /\ main'.at = "lock"
      <4>1. CASE ShutdownStep(s) < main.step
        BY <1>3, <2>1, <3>2, <4>1
      <4>2. CASE ShutdownStep(s) = main.step
        <5>1. \A t \in Workers(s) : t[2] > Stages[s].tasks - (main.n + 1)
          BY <1>2, <1>4, <1>5, <2>1, <2>2, <3>2, <4>2
        <5> QED BY <1>3, <2>1, <3>1, <3>2, <4>2, <5>1
      <4>3. CASE ShutdownStep(s) > main.step
        BY <1>0, <1>2, <3>2, <4>3
      <4> QED BY <1>0, <1>2, <4>1, <4>2, <4>3
    <3>3. CASE main'.step = main.step /\ main'.n = main.n + 1
      BY <1>3, <2>1, <3>1, <3>3
    <3> QED BY <2>1, <2>4, <3>2, <3>3, <2>3
  <2> QED BY <2>1, <2>3, <2>4
<1> QED BY <1>7, <1>8, <1>9, <1>10, <1>11, <1>12 DEF Main

-------------------------------------------------------------------------------
(* The invariant is inductive.                                             *)

\* A thread's step does not concern main.
LEMMA WorkMain ==
    ASSUME IInv, WellScripted, NEW t \in Threads, Work(t)
    PROVE  MainOK' /\ Expires'
<1>1. MainOK /\ Expires
  BY Parts
<1>2. program' = program /\ main' = main /\ expired' = expired
  BY WorkLeaves
<1>3. /\ FeedStep' = FeedStep /\ Stages' = Stages /\ Op' = Op /\ Here' = Here
      /\ ScriptEnded' = ScriptEnded /\ \A s : ShutdownStep(s)' = ShutdownStep(s)
  BY <1>2, SameProgram, SameStep
<1> QED BY <1>1, <1>2, <1>3 DEF MainOK, Expires

\* Nor does anything change in a step that changes nothing.
LEMMA StutterIInv == IInv /\ UNCHANGED vars => IInv'
<1> SUFFICES ASSUME IInv, UNCHANGED vars PROVE IInv'
  OBVIOUS
<1> USE DEF vars
<1>1. /\ Stages' = Stages /\ Script' = Script /\ NStages' = NStages
      /\ Threads' = Threads /\ Steps' = Steps /\ FeedStep' = FeedStep
      /\ \A s : Workers(s)' = Workers(s) /\ ShutdownStep(s)' = ShutdownStep(s)
  BY SameProgram
<1>2. ScriptEnded' = ScriptEnded /\ Op' = Op /\ Here' = Here
  BY SameStep
<1>3. TypeOK'
  BY <1>1, Parts DEF TypeOK, Commands, MainStates, ThreadStates
<1>4. MainOK' /\ Expires'
  BY <1>1, <1>2, Parts DEF MainOK, Expires
<1>5. Queued'
  BY <1>1, <1>2, Parts DEF Queued, Fits, InRound
<1>6. Hands'
  BY <1>1, <1>2, Parts DEF Hands, HandsOf, Fits, InRound
<1>7. RoundsCounted' /\ RoundsLast'
  BY <1>1, <1>2, Parts DEF RoundsCounted, RoundsLast, InRound, InHand, At, RoundCommands,
                           Commands
<1>8. Told' /\ Taken' /\ Finished'
  BY <1>1, Parts DEF Told, Taken, Finished
<1> QED BY <1>3, <1>4, <1>5, <1>6, <1>7, <1>8 DEF IInv

\* Every step keeps the invariant.
LEMMA NextIInv == IInv /\ [Next]_vars => IInv'
<1> SUFFICES ASSUME IInv, [Next]_vars PROVE IInv'
  OBVIOUS
<1>1. WellScripted
  BY Parts, EveryProgram DEF TypeOK
<1>2. ASSUME Main PROVE IInv'
  BY <1>1, <1>2, MainTypeOK, MainMainOK, MainExpires, MainQueued, MainHands,
     MainRoundsCounted, MainRoundsLast, MainTold, MainTaken, MainFinished DEF IInv
<1>3. ASSUME NEW t \in Threads, Work(t) PROVE IInv'
  BY <1>1, <1>3, WorkTypeOK, WorkMain, WorkQueued, WorkHands, WorkRoundsCounted,
     WorkRoundsLast, WorkTold, WorkTaken, WorkFinished DEF IInv
<1>4. CASE UNCHANGED vars
  BY <1>4, StutterIInv
<1> QED BY <1>2, <1>3, <1>4 DEF Next

\* The invariant holds in every state of every program.
LEMMA Invariant == Spec => []IInv
BY InitIInv, NextIInv, PTL DEF Spec

-------------------------------------------------------------------------------
(* What it shows.                                                          *)

\* Type correctness: whatever the queue size, the number of threads and the number
\* of items, the state keeps its shape, and no queue of a pool outgrows what its
\* builder was told (with_queue_size).
THEOREM TypeCorrect == Spec => []TypeOK
<1>1. IInv => TypeOK
  BY Parts
<1> QED BY <1>1, Invariant, PTL

\* No command of any of the examples finds its thread without the next pool, or that
\* pool expired: NEXT_THREAD_POOL is set in every thread before main feeds, and main
\* shuts a pool down only when the threads of the one before it have ended.
THEOREM NobodyPanicsAlways == Spec => []NobodyPanics
<1>1. IInv => NobodyPanics
  BY Parts DEF Hands, HandsOf, NobodyPanics
<1> QED BY <1>1, Invariant, PTL

\* The invariant says so of every stage that main has gone past.
LEMMA StagesFinished == IInv => StageFinished
<1> SUFFICES ASSUME IInv PROVE StageFinished
  OBVIOUS
<1>1. TypeOK /\ Taken /\ Hands /\ Finished /\ WellScripted /\ WellBuilt
  BY Parts, EveryProgram DEF TypeOK, WellScripted
<1> SUFFICES ASSUME NEW k \in 1 .. main.step - 1, Script[k].op = "shutdown"
             PROVE  LET s == Script[k].stage IN
                    /\ queue[s] = <<>>
                    /\ \A t \in Workers(s) :
                         /\ thread[t].pc = "exited" /\ ~thread[t].failed
                         /\ thread[t].collected = {}
  BY DEF StageFinished
<1> DEFINE s == Script[k].stage
<1>2. /\ k \in Steps /\ k < main.step /\ main.step \in Nat
      /\ s \in 1 .. NStages
  BY <1>1, MainTyped, Shape
<1>3. k = ShutdownStep(s)
  BY <1>1, <1>2 DEF WellScripted, ShutDownInOrder
<1>4. /\ queue[s] = <<>>
      /\ \A t \in Workers(s) : thread[t].pc = "exited" /\ ~thread[t].failed
  BY <1>1, <1>2, <1>3 DEF Finished
<1>5. ASSUME NEW t \in Workers(s) PROVE thread[t].collected = {}
  <2>1. t \in Threads /\ t[1] = s
    BY <1>1, <1>2, ThreadsOfStages
  <2>2. CASE Stages[s].does = "collect"
    <3>1. PICK j \in Steps : Script[j].op \in After /\ Script[j].stage = s
      BY <1>1, <1>2, <2>2 DEF WellScripted, Prepared
    <3>2. j <= k /\ j # k
      <4>1. j <= ShutdownStep(s)
        BY <1>1, <3>1 DEF WellScripted, ShutDownInOrder
      <4>2. Script[j].op # Script[k].op
        BY <3>1 DEF After
      <4> QED BY <1>3, <4>1, <4>2
    <3>3. j < main.step
      BY <1>1, <1>2, <3>1, <3>2, Shape
    <3> QED BY <1>1, <3>1, <3>3 DEF Taken
  <2>3. CASE Stages[s].does # "collect"
    BY <1>1, <2>1, <2>3 DEF Hands, HandsOf
  <2> QED BY <2>2, <2>3
<1> QED BY <1>4, <1>5

\* What main relies on when it goes on to the next stage: shutdown() in CompletePending
\* mode and join() leave the pool with an empty queue, threads that have ended without
\* an error, and thread-local storage from which everything collected has been taken.
THEOREM StageFinishedAlways == Spec => []StageFinished
BY StagesFinished, Invariant, PTL
===============================================================================
