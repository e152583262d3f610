------------------------- MODULE PipelineItemsProofs -------------------------
(***************************************************************************)
(* Proofs about Pipeline's items: each one that main has fed is in exactly *)
(* one place until it is in the output, and in the end all of them are     *)
(* there, once each.                                                       *)
(***************************************************************************)
EXTENDS PipelineProofs

-------------------------------------------------------------------------------
(* Counting the copies of an item.                                         *)

One(b) == IF b THEN 1 ELSE 0

InQueues(q, i) == {p \in (1 .. NStages) \X (1 .. QueueSize) :
                     p[2] <= Len(q[p[1]]) /\ i \in q[p[1]][p[2]].items}
InHands(th, i) == {t \in Threads : i \in th[t].cmd.items}
InLocals(th, i) == {t \in Threads : i \in th[t].collected}

NobodyFailed == \A t \in Threads : ~thread[t].failed

\* Unless a write has failed, what is fed exists once and what is not does not exist.
Counted == NobodyFailed =>
    \A i \in 1 .. Items : Copies(i) = One(i <= main.fed)

\* What a thread's first write takes out of the result file: nothing.
Unopened == NobodyFailed =>
    \A t \in Threads : Stages[t[1]].does = "write" /\ ~thread[t].opened =>
        \A i \in 1 .. Items : output[i] = 0

ItemsInv == IInv /\ Counted /\ Unopened

-------------------------------------------------------------------------------
(* How the counts change.                                                  *)

\* A fact counts as 1 or 0.
LEMMA OneNat == \A b : One(b) \in Nat /\ One(TRUE) = 1 /\ One(FALSE) = 0
BY DEF One

\* Two sets that differ in one element at most.
LEMMA ChangeOne ==
    ASSUME NEW S, NEW T, NEW e, IsFiniteSet(S), T \ {e} = S \ {e}
    PROVE  /\ IsFiniteSet(T)
           /\ Cardinality(T) + One(e \in S) = Cardinality(S) + One(e \in T)
<1> DEFINE R == S \ {e}
<1>1. IsFiniteSet(R) /\ Cardinality(R) \in Nat /\ e \notin R
  BY FS_RemoveElement, FS_CardinalityType
<1>2. IsFiniteSet(R \cup {e}) /\ Cardinality(R \cup {e}) = Cardinality(R) + 1
  BY <1>1, FS_AddElement
<1>3. (e \in S => S = R \cup {e}) /\ (e \notin S => S = R)
  OBVIOUS
<1>4. (e \in T => T = R \cup {e}) /\ (e \notin T => T = R)
  OBVIOUS
<1> HIDE DEF R
<1>5. Cardinality(S) = Cardinality(R) + One(e \in S)
  BY <1>1, <1>2, <1>3 DEF One
<1>6. Cardinality(T) = Cardinality(R) + One(e \in T)
  BY <1>1, <1>2, <1>4 DEF One
<1>7. IsFiniteSet(T)
  BY <1>1, <1>2, <1>4
<1>8. One(e \in S) \in Nat /\ One(e \in T) \in Nat
  BY DEF One
<1> QED BY <1>1, <1>5, <1>6, <1>7, <1>8

\* There are finitely many threads.
LEMMA ThreadsFinite ==
    ASSUME WellBuilt
    PROVE  IsFiniteSet(Threads)
<1>1. NStages \in Nat
  BY Shape
<1>2. IsFiniteSet((1 .. NStages) \X (1 .. Many))
  <2>1. IsFiniteSet(1 .. NStages) /\ IsFiniteSet(1 .. Many)
    BY <1>1, FS_Interval, PipelineAssumption
  <2> QED BY <2>1, FS_Product
<1>3. Threads \subseteq (1 .. NStages) \X (1 .. Many)
  BY ThreadsOfStages, Shape, PipelineAssumption
<1> QED BY <1>2, <1>3, FS_Subset

\* An item is in finitely many places of the queues.
LEMMA PlacesFinite ==
    ASSUME WellBuilt, NEW q, NEW i
    PROVE  IsFiniteSet(InQueues(q, i)) /\ Cardinality(InQueues(q, i)) \in Nat
<1>1. NStages \in Nat
  BY Shape
<1>2. IsFiniteSet((1 .. NStages) \X (1 .. QueueSize))
  <2>1. IsFiniteSet(1 .. NStages) /\ IsFiniteSet(1 .. QueueSize)
    BY <1>1, FS_Interval, PipelineAssumption
  <2> QED BY <2>1, FS_Product
<1>3. InQueues(q, i) \subseteq (1 .. NStages) \X (1 .. QueueSize)
  BY DEF InQueues
<1> QED BY <1>2, <1>3, FS_Subset, FS_CardinalityType

\* It is with finitely many threads.
LEMMA HoldersFinite ==
    ASSUME WellBuilt, NEW th, NEW i
    PROVE  /\ IsFiniteSet(InHands(th, i)) /\ Cardinality(InHands(th, i)) \in Nat
           /\ IsFiniteSet(InLocals(th, i)) /\ Cardinality(InLocals(th, i)) \in Nat
<1>1. InHands(th, i) \subseteq Threads /\ InLocals(th, i) \subseteq Threads
  BY DEF InHands, InLocals
<1> QED BY <1>1, ThreadsFinite, FS_Subset, FS_CardinalityType

\* A thread's step changes what that thread holds.
LEMMA HoldersChange ==
    ASSUME WellBuilt, NEW t \in Threads, NEW old, NEW new, NEW i,
           \A u \in Threads \ {t} : new[u] = old[u]
    PROVE  /\ Cardinality(InHands(new, i)) + One(i \in old[t].cmd.items)
                = Cardinality(InHands(old, i)) + One(i \in new[t].cmd.items)
           /\ Cardinality(InLocals(new, i)) + One(i \in old[t].collected)
                = Cardinality(InLocals(old, i)) + One(i \in new[t].collected)
<1>1. /\ InHands(new, i) \ {t} = InHands(old, i) \ {t}
      /\ InLocals(new, i) \ {t} = InLocals(old, i) \ {t}
  BY DEF InHands, InLocals
<1>2. /\ One(t \in InHands(old, i)) = One(i \in old[t].cmd.items)
      /\ One(t \in InHands(new, i)) = One(i \in new[t].cmd.items)
      /\ One(t \in InLocals(old, i)) = One(i \in old[t].collected)
      /\ One(t \in InLocals(new, i)) = One(i \in new[t].collected)
  BY DEF InHands, InLocals, One
<1>3. IsFiniteSet(InHands(old, i)) /\ IsFiniteSet(InLocals(old, i))
  BY HoldersFinite
<1>4. Cardinality(InHands(new, i)) + One(t \in InHands(old, i))
        = Cardinality(InHands(old, i)) + One(t \in InHands(new, i))
  BY <1>1, <1>3, ChangeOne
<1>5. Cardinality(InLocals(new, i)) + One(t \in InLocals(old, i))
        = Cardinality(InLocals(old, i)) + One(t \in InLocals(new, i))
  BY <1>1, <1>3, ChangeOne
<1> QED BY <1>2, <1>4, <1>5

\* The queues' type, with their bound.
Queues == {q \in [1 .. NStages -> Seq(Commands)] :
             \A s \in 1 .. NStages : Len(q[s]) <= QueueSize}

\* One more command at the end of a queue.
LEMMA QueuesAppend ==
    ASSUME WellBuilt, NEW old \in Queues, NEW new \in Queues, NEW s \in 1 .. NStages,
           NEW c \in Commands, Len(old[s]) < QueueSize, new[s] = Append(old[s], c),
           \A r \in 1 .. NStages \ {s} : new[r] = old[r], NEW i
    PROVE  Cardinality(InQueues(new, i)) = Cardinality(InQueues(old, i)) + One(i \in c.items)
<1> DEFINE q == old[s]
           e == <<s, Len(q) + 1>>
<1>1. q \in Seq(Commands)
  BY DEF Queues
<1>2. /\ Len(q) \in Nat /\ Len(new[s]) = Len(q) + 1 /\ new[s][Len(q) + 1] = c
      /\ \A k \in 1 .. Len(q) : new[s][k] = q[k]
  BY <1>1, AppendLonger
<1>3. Len(q) + 1 \in 1 .. QueueSize
  BY <1>2, PipelineAssumption
<1>4. e \notin InQueues(old, i) /\ (e \in InQueues(new, i) <=> i \in c.items)
  BY <1>2, <1>3 DEF InQueues
<1>5. InQueues(new, i) \ {e} = InQueues(old, i) \ {e}
  <2>1. ASSUME NEW r \in 1 .. NStages, NEW k \in 1 .. QueueSize, <<r, k>> # e
        PROVE  k <= Len(new[r]) /\ i \in new[r][k].items <=>
               k <= Len(old[r]) /\ i \in old[r][k].items
    <3>1. CASE r # s
      BY <2>1, <3>1
    <3>2. CASE r = s
      <4>1. k # Len(q) + 1
        BY <2>1, <3>2
      <4>2. k <= Len(new[r]) <=> k <= Len(q)
        BY <1>2, <3>2, <4>1
      <4>3. k <= Len(q) => new[r][k] = q[k]
        BY <1>2, <3>2
      <4> QED BY <3>2, <4>2, <4>3
    <3> QED BY <3>1, <3>2
  <2> QED BY <2>1 DEF InQueues
<1>6. IsFiniteSet(InQueues(old, i)) /\ Cardinality(InQueues(old, i)) \in Nat
      /\ Cardinality(InQueues(new, i)) \in Nat
  BY PlacesFinite
<1> HIDE DEF e
<1>7. Cardinality(InQueues(new, i)) + One(e \in InQueues(old, i))
        = Cardinality(InQueues(old, i)) + One(e \in InQueues(new, i))
  BY <1>5, <1>6, ChangeOne
<1> QED BY <1>4, <1>6, <1>7 DEF One

\* One command fewer at its head.
LEMMA QueuesTail ==
    ASSUME WellBuilt, NEW old \in Queues, NEW new \in Queues, NEW s \in 1 .. NStages,
           old[s] # <<>>, new[s] = Tail(old[s]),
           \A r \in 1 .. NStages \ {s} : new[r] = old[r], NEW i
    PROVE  Cardinality(InQueues(old, i))
             = Cardinality(InQueues(new, i)) + One(i \in Head(old[s]).items)
<1> DEFINE q == old[s]
           S == InQueues(new, i)
           e == <<s, 1>>
           T == InQueues(old, i) \ {e}
           f == [p \in S |-> IF p[1] = s THEN <<s, p[2] + 1>> ELSE p]
<1>1. /\ Len(q) \in Nat \ {0} /\ Len(new[s]) = Len(q) - 1 /\ Head(q) = q[1]
      /\ \A k \in 1 .. Len(new[s]) : new[s][k] = q[k + 1] /\ k + 1 \in 1 .. Len(q)
      /\ Len(q) <= QueueSize
  <2>1. q \in Seq(Commands) /\ Len(q) <= QueueSize
    BY DEF Queues
  <2> QED BY <2>1, TailShorter
<1>2. IsFiniteSet(S) /\ Cardinality(S) \in Nat /\ IsFiniteSet(InQueues(old, i))
  BY PlacesFinite
<1>3. \A p \in S : /\ p \in (1 .. NStages) \X (1 .. QueueSize) /\ p = <<p[1], p[2]>>
                   /\ p[1] \in 1 .. NStages /\ p[2] \in 1 .. QueueSize /\ p[2] \in Nat \ {0}
                   /\ p[2] <= Len(new[p[1]]) /\ i \in new[p[1]][p[2]].items
  BY PipelineAssumption DEF InQueues
<1>4. ASSUME NEW p \in S PROVE f[p] \in T
  <2>1. CASE p[1] = s
    <3>1. Len(new[s]) \in Nat
      BY <1>1
    <3>2. /\ p[2] \in Nat \ {0} /\ p[2] <= Len(new[s]) /\ i \in new[s][p[2]].items
          /\ Len(new[s]) \in Nat
      BY <1>3, <2>1, <3>1
    <3>3. p[2] \in 1 .. Len(new[s])
      BY <3>2
    <3>4. p[2] + 1 \in 1 .. Len(q) /\ i \in q[p[2] + 1].items /\ p[2] + 1 # 1
      BY <1>1, <3>2, <3>3
    <3>5. p[2] + 1 \in 1 .. QueueSize
      BY <1>1, <3>4, PipelineAssumption
    <3>6. <<s, p[2] + 1>> \in T
      BY <3>4, <3>5 DEF InQueues
    <3> QED BY <2>1, <3>6
  <2>2. CASE p[1] # s
    <3>1. new[p[1]] = old[p[1]]
      BY <1>3, <2>2
    <3>2. p \in T
      BY <1>3, <2>2, <3>1 DEF InQueues
    <3> QED BY <2>2, <3>2
  <2> QED BY <2>1, <2>2
<1>5. f \in [S -> T]
  BY <1>4
<1>6. \A a, b \in S : f[a] = f[b] => a = b
  <2>1. ASSUME NEW a \in S, NEW b \in S, f[a] = f[b] PROVE a[1] = b[1] /\ a[2] = b[2]
    <3>1. /\ f[a] = IF a[1] = s THEN <<s, a[2] + 1>> ELSE <<a[1], a[2]>>
          /\ f[b] = IF b[1] = s THEN <<s, b[2] + 1>> ELSE <<b[1], b[2]>>
          /\ a[2] \in Nat /\ b[2] \in Nat
      BY <1>3
    <3> QED BY <2>1, <3>1
  <2> QED BY <1>3, <2>1
<1>7. ASSUME NEW y \in T PROVE \E x \in S : f[x] = y
  <2>1. /\ y[1] \in 1 .. NStages /\ y[2] \in 1 .. QueueSize /\ y = <<y[1], y[2]>>
        /\ y[2] <= Len(old[y[1]]) /\ i \in old[y[1]][y[2]].items /\ y # e
    BY DEF InQueues
  <2>2. CASE y[1] # s
    <3>1. y \in S
      BY <2>1, <2>2 DEF InQueues
    <3> QED BY <2>2, <3>1
  <2>3. CASE y[1] = s
    <3>1. y[2] \in 2 .. Len(q)
      BY <1>1, <2>1, <2>3
    <3>2. /\ y[2] - 1 \in 1 .. Len(new[s]) /\ y[2] - 1 + 1 = y[2]
          /\ y[2] - 1 \in 1 .. QueueSize
      BY <1>1, <2>1, <3>1, PipelineAssumption
    <3>3. new[s][y[2] - 1] = q[y[2] - 1 + 1]
      BY <1>1, <3>2
    <3>4. i \in new[s][y[2] - 1].items /\ y[2] - 1 <= Len(new[s])
      BY <1>1, <2>1, <2>3, <3>2, <3>3
    <3>5. <<s, y[2] - 1>> \in S
      BY <3>2, <3>4 DEF InQueues
    <3>6. f[<<s, y[2] - 1>>] = y
      BY <2>1, <2>3, <3>5
    <3> QED BY <3>5, <3>6
  <2> QED BY <2>2, <2>3
<1> HIDE DEF f
<1>8. Cardinality(T) = Cardinality(S) /\ IsFiniteSet(T)
  BY <1>2, <1>5, <1>6, <1>7, SameSize
<1>9. e \in InQueues(old, i) <=> i \in Head(q).items
  <2>1. 1 \in 1 .. QueueSize /\ 1 <= Len(q)
    BY <1>1, PipelineAssumption
  <2> QED BY <1>1, <2>1 DEF InQueues
<1>10. Cardinality(T) + One(e \in InQueues(old, i))
         = Cardinality(InQueues(old, i)) + One(e \in T)
  BY <1>2, ChangeOne
<1>11. One(e \in T) = 0 /\ One(e \in InQueues(old, i)) = One(i \in Head(q).items)
  BY <1>9 DEF One
<1>12. Cardinality(InQueues(old, i)) \in Nat
  BY PlacesFinite
<1> QED BY <1>2, <1>8, <1>10, <1>11, <1>12

-------------------------------------------------------------------------------
(* What a step does to an item.                                            *)

\* What a thread's step does to its flags.
LEMMA FlagsStay ==
    ASSUME IInv, WellScripted, NEW t \in Threads, Work(t)
    PROVE  /\ thread[t].failed => thread'[t].failed
           /\ thread[t].opened => thread'[t].opened
<1> USE DEF WellScripted
<1>0. TypeOK
  BY Parts
<1>1. CASE Take(t)
  BY <1>0, <1>1, TakeEffect
<1>2. CASE Exit(t)
  BY <1>0, <1>2, ExitEffect
<1>3. CASE Forward(t)
  BY <1>0, <1>3, Welcome, ForwardEffect DEF Forward
<1>4. CASE Forwarded(t)
  BY <1>0, <1>4, Welcome, ForwardedEffect DEF Forwarded
<1>5. CASE AtOnce(t)
  <2>1. thread[t].failed => thread'[t].failed
    BY <1>0, <1>5, Executing, Welcome, AtOnceEffect
  <2>2. thread[t].opened => thread'[t].opened
    BY <1>0, <1>5 DEF AtOnce, SetThreadLocal, Collect, Fetch, Prints, Write, WriteFails, Goto,
                     TypeOK, ThreadStates
  <2> QED BY <2>1, <2>2
<1> QED BY <1>1, <1>2, <1>3, <1>4, <1>5, WorkCases

\* What the commands that are done in one step put out, unless they fail.
Puts(t, i) == IF thread[t].cmd.op = "fetch" THEN i \in thread[t].collected
              ELSE thread[t].cmd.op \in {"print", "print_config", "write"}
                   /\ i \in thread[t].cmd.items

\* They put it out, and the first write of a thread empties the file before.
LEMMA PutsEffect ==
    ASSUME IInv, WellScripted, NEW t \in Threads, AtOnce(t), ~thread'[t].failed
    PROVE  /\ \A i \in 1 .. Items :
                output'[i] = (IF thread[t].cmd.op = "write" /\ ~thread[t].opened THEN 0
                              ELSE output[i])
                             + One(Puts(t, i))
           /\ thread[t].cmd.op = "write" => thread'[t].opened
<1> USE DEF WellScripted
<1>0. TypeOK /\ output \in [1 .. Items -> Nat]
  BY Parts DEF TypeOK
<1>1. CASE SetThreadLocal(t) \/ Collect(t)
  <2>1. output' = output /\ thread[t].cmd.op \in {"set_thread_local", "collect"}
    BY <1>1 DEF SetThreadLocal, Collect, Executes
  <2>2. \A i : One(Puts(t, i)) = 0
    BY <2>1 DEF Puts, One
  <2> QED BY <1>0, <2>1, <2>2
<1>2. CASE Fetch(t)
  <2>1. /\ thread[t].cmd.op = "fetch"
        /\ output' = [i \in 1 .. Items |->
                        output[i] + IF i \in thread[t].collected THEN 1 ELSE 0]
    BY <1>2 DEF Fetch, Executes, Outputs
  <2> QED BY <1>0, <2>1 DEF Puts, One
<1>3. CASE Prints(t)
  <2>1. thread[t].cmd.op = "print_config" => thread[t].local
    BY <1>3, Welcome DEF Prints, Executes
  <2>2. /\ thread[t].cmd.op \in {"print", "print_config"}
        /\ output' = [i \in 1 .. Items |->
                        output[i] + IF i \in thread[t].cmd.items THEN 1 ELSE 0]
    BY <1>3, <2>1 DEF Prints, Executes, Outputs
  <2> QED BY <1>0, <2>2 DEF Puts, One
<1>4. CASE Write(t)
  <2>1. /\ thread[t].cmd.op = "write"
        /\ output' = [i \in 1 .. Items |->
                        (IF thread[t].opened THEN output[i] ELSE 0)
                        + IF i \in thread[t].cmd.items THEN 1 ELSE 0]
    BY <1>4 DEF Write, Executes, FileHas
  <2>2. thread'[t].opened
    BY <1>0, <1>4 DEF Write, TypeOK, ThreadStates
  <2> QED BY <1>0, <2>1, <2>2 DEF Puts, One
<1>5. CASE WriteFails(t)
  BY <1>0, <1>5 DEF WriteFails, TypeOK, ThreadStates
<1> QED BY <1>1, <1>2, <1>3, <1>4, <1>5 DEF AtOnce

\* The commands of a round carry nothing.
LEMMA RoundsCarryNothing ==
    ASSUME IInv, WellScripted, NEW t \in Threads, thread[t].pc = "execute",
           thread[t].cmd.op \in Rounds
    PROVE  InRound(t[1], thread[t].cmd.op) /\ thread[t].cmd.items = {}
<1>1. t[1] \in 1 .. NStages /\ Stages[t[1]].does \in Does
  BY ThreadsOfStages, Shape DEF WellScripted
<1>2. HandsOf(t)
  BY Parts DEF Hands
<1> QED BY <1>1, <1>2 DEF HandsOf, Fits, Does, Rounds

\* How many of an item a thread has, and the output.
Held(th, t, i) == One(i \in th[t].cmd.items) + One(i \in th[t].collected)

CopiesIn(q, th, out, i) == Cardinality(InQueues(q, i)) + Cardinality(InHands(th, i))
                           + Cardinality(InLocals(th, i)) + out[i]

\* Copies, by what they depend on.
LEMMA CopiesAre ==
    /\ \A i : Copies(i) = CopiesIn(queue, thread, output, i)
    /\ NStages' = NStages /\ Threads' = Threads =>
         \A i : Copies(i)' = CopiesIn(queue', thread', output', i)
BY DEF Copies, CopiesIn, InQueues, InHands, InLocals

\* The sum that a thread's step keeps, when it keeps its own part of it.
LEMMA Balance ==
    ASSUME WellBuilt, NEW t \in Threads, NEW i \in 1 .. Items,
           NEW old, NEW new, NEW q, NEW r, NEW out, NEW put,
           \A u \in Threads \ {t} : new[u] = old[u],
           out[i] \in Nat, put[i] \in Nat,
           Cardinality(InQueues(r, i)) + Held(new, t, i) + put[i]
             = Cardinality(InQueues(q, i)) + Held(old, t, i) + out[i]
    PROVE  CopiesIn(r, new, put, i) = CopiesIn(q, old, out, i)
<1>1. /\ Cardinality(InHands(new, i)) + One(i \in old[t].cmd.items)
           = Cardinality(InHands(old, i)) + One(i \in new[t].cmd.items)
      /\ Cardinality(InLocals(new, i)) + One(i \in old[t].collected)
           = Cardinality(InLocals(old, i)) + One(i \in new[t].collected)
  BY HoldersChange
<1>2. /\ Cardinality(InHands(new, i)) \in Nat /\ Cardinality(InHands(old, i)) \in Nat
      /\ Cardinality(InLocals(new, i)) \in Nat /\ Cardinality(InLocals(old, i)) \in Nat
      /\ Cardinality(InQueues(q, i)) \in Nat /\ Cardinality(InQueues(r, i)) \in Nat
  BY HoldersFinite, PlacesFinite
<1> DEFINE a == One(i \in old[t].cmd.items)
           b == One(i \in new[t].cmd.items)
           c == One(i \in old[t].collected)
           d == One(i \in new[t].collected)
<1>3. a \in Nat /\ b \in Nat /\ c \in Nat /\ d \in Nat
  BY DEF One
<1>4. Cardinality(InQueues(r, i)) + (b + d) + put[i]
        = Cardinality(InQueues(q, i)) + (a + c) + out[i]
  BY DEF Held
<1> HIDE DEF a, b, c, d
<1>5. /\ Cardinality(InHands(new, i)) + a = Cardinality(InHands(old, i)) + b
      /\ Cardinality(InLocals(new, i)) + c = Cardinality(InLocals(old, i)) + d
  BY <1>1 DEF a, b, c, d
<1> QED BY <1>2, <1>3, <1>4, <1>5 DEF CopiesIn

\* The queues have this type before and after a step.
LEMMA QueuesTyped ==
    ASSUME IInv, WellScripted, NStages' = NStages, TypeOK'
    PROVE  queue \in Queues /\ queue' \in Queues
BY Parts DEF TypeOK, Queues, Commands

\* An item that exists once at most is not both carried and collected.
LEMMA NotTwice ==
    ASSUME IInv, WellScripted, NEW t \in Threads, NEW i \in 1 .. Items,
           Copies(i) \in {0, 1}
    PROVE  ~(i \in thread[t].cmd.items /\ i \in thread[t].collected)
<1> USE DEF WellScripted
<1> SUFFICES ASSUME i \in thread[t].cmd.items, i \in thread[t].collected PROVE FALSE
  OBVIOUS
<1>1. t \in InHands(thread, i) /\ t \in InLocals(thread, i)
  BY DEF InHands, InLocals
<1>2. /\ Cardinality(InHands(thread, i)) \in Nat /\ Cardinality(InLocals(thread, i)) \in Nat
      /\ IsFiniteSet(InHands(thread, i)) /\ IsFiniteSet(InLocals(thread, i))
      /\ Cardinality(InQueues(queue, i)) \in Nat /\ output[i] \in Nat
  BY HoldersFinite, PlacesFinite, Parts DEF TypeOK
<1>3. Cardinality(InHands(thread, i)) # 0 /\ Cardinality(InLocals(thread, i)) # 0
  BY <1>1, <1>2, FS_EmptySet
<1> QED BY <1>2, <1>3, CopiesAre DEF CopiesIn

\* A step of a thread that does not fail moves items, and neither adds nor drops any.
LEMMA WorkCopies ==
    ASSUME IInv, Unopened, WellScripted, NEW t \in Threads, Work(t), ~thread'[t].failed,
           NobodyFailed, NEW i \in 1 .. Items, Copies(i) \in {0, 1}
    PROVE  Copies(i)' = Copies(i)
<1> USE DEF WellScripted
<1>0. /\ TypeOK /\ Alone(t) /\ HandsOf(t) /\ t[1] \in 1 .. NStages
      /\ NStages' = NStages /\ Threads' = Threads
      /\ Stages[t[1]].does \in Does
  BY WorkKeeps, Parts, ThreadsOfStages, Shape DEF Hands
<1>1. queue \in Queues /\ queue' \in Queues
  BY <1>0, WorkTypeOK, QueuesTyped
<1>2. output[i] \in Nat /\ output'[i] \in Nat
  BY <1>0, WorkTypeOK DEF TypeOK
<1> DEFINE Q == Cardinality(InQueues(queue, i))
           R == Cardinality(InQueues(queue', i))
<1>3. Q \in Nat /\ R \in Nat
  BY PlacesFinite
<1>4. SUFFICES R + Held(thread', t, i) + output'[i] = Q + Held(thread, t, i) + output[i]
  <2>1. CopiesIn(queue', thread', output', i) = CopiesIn(queue, thread, output, i)
    BY <1>0, <1>2, <1>4, Balance DEF Alone
  <2> QED BY <1>0, <2>1, CopiesAre
<1>5. /\ NoCommand.items = {} /\ One(i \in NoCommand.items) = 0
      /\ \A b : One(b) \in Nat
  BY NoCommandOK DEF One
<1>6. CASE Take(t)
  <2>1. /\ thread[t].cmd = NoCommand /\ thread'[t].cmd = Head(queue[t[1]])
        /\ thread'[t].collected = thread[t].collected
        /\ queue[t[1]] # <<>> /\ queue'[t[1]] = Tail(queue[t[1]])
        /\ \A s \in 1 .. NStages \ {t[1]} : queue'[s] = queue[s]
        /\ output' = output
    BY <1>0, <1>6, TakeEffect DEF HandsOf
  <2>2. Q = R + One(i \in Head(queue[t[1]]).items)
    BY <1>0, <1>1, <2>1, QueuesTail
  <2>3. One(i \in thread'[t].cmd.items) = One(i \in Head(queue[t[1]]).items)
        /\ One(i \in thread[t].cmd.items) = 0
        /\ One(i \in thread'[t].collected) = One(i \in thread[t].collected)
    BY <1>5, <2>1
  <2> HIDE DEF Q, R
  <2> QED BY <1>2, <1>3, <1>5, <2>1, <2>2, <2>3 DEF Held
<1>7. CASE Exit(t)
  <2>1. /\ thread[t].cmd = NoCommand /\ thread'[t].cmd = NoCommand
        /\ thread'[t].collected = thread[t].collected
        /\ queue' = queue /\ output' = output
    BY <1>0, <1>7, ExitEffect DEF HandsOf
  <2> QED BY <2>1 DEF Held
<1>8. CASE Forward(t)
  <2>1. thread[t].local /\ t[1] + 1 \notin expired
    BY <1>8, Welcome DEF Forward
  <2>2. /\ thread[t].pc = "execute" /\ queue' = queue /\ output' = output
        /\ \/ /\ thread'[t].cmd = thread[t].cmd
              /\ thread'[t].collected = thread[t].collected
           \/ /\ thread[t].cmd.op = "flush"
              /\ thread'[t].cmd = Command("flush", thread[t].collected)
              /\ thread'[t].collected = {}
    BY <1>0, <1>8, <2>1, ForwardEffect
  <2>3. CASE /\ thread'[t].cmd = thread[t].cmd
             /\ thread'[t].collected = thread[t].collected
    BY <2>2, <2>3 DEF Held
  <2>4. CASE /\ thread[t].cmd.op = "flush"
             /\ thread'[t].cmd = Command("flush", thread[t].collected)
             /\ thread'[t].collected = {}
    <3>1. thread[t].cmd.items = {}
      BY <2>2, <2>4, RoundsCarryNothing DEF Rounds
    <3>2. thread'[t].cmd.items = thread[t].collected
      BY <2>4 DEF Command
    <3>3. Held(thread', t, i) = Held(thread, t, i)
      BY <2>4, <3>1, <3>2 DEF Held, One
    <3> QED BY <2>2, <3>3
  <2> QED BY <2>2, <2>3, <2>4
<1>9. CASE Forwarded(t)
  <2> DEFINE next == t[1] + 1
             c == Command(Stages[next].does, thread[t].cmd.items)
  <2>0. t[1] < NStages
    BY <1>9, NotForwardedTo
  <2>1. /\ thread'[t].cmd = NoCommand /\ thread'[t].collected = thread[t].collected
        /\ next \in 1 .. NStages /\ Len(queue[next]) < QueueSize /\ c \in Commands
        /\ queue'[next] = Append(queue[next], c)
        /\ \A s \in 1 .. NStages \ {next} : queue'[s] = queue[s]
        /\ output' = output
    BY <1>0, <1>9, <2>0, ForwardedEffect
  <2>2. c.items = thread[t].cmd.items
    BY DEF Command
  <2> HIDE DEF c, next
  <2>3. R = Q + One(i \in c.items)
    BY <1>1, <2>1, QueuesAppend
  <2>4. /\ One(i \in thread'[t].cmd.items) = 0
        /\ One(i \in thread[t].cmd.items) = One(i \in c.items)
        /\ One(i \in thread'[t].collected) = One(i \in thread[t].collected)
    BY <1>5, <2>1, <2>2
  <2>5. One(i \in c.items) \in Nat /\ One(i \in thread[t].collected) \in Nat
    BY DEF One
  <2> HIDE DEF Q, R
  <2> QED BY <1>2, <1>3, <2>1, <2>3, <2>4, <2>5 DEF Held
<1>10. CASE AtOnce(t)
  <2> DEFINE op == thread[t].cmd.op
  <2>1. /\ thread[t].pc = "execute" /\ thread'[t].cmd = NoCommand /\ queue' = queue
        /\ op \in (Does \ {"forward"}) \cup {"set_thread_local", "fetch"}
        /\ thread'[t].collected = IF op = "collect"
                                  THEN thread[t].collected \cup thread[t].cmd.items
                                  ELSE IF op = "fetch" THEN {}
                                  ELSE thread[t].collected
    BY <1>0, <1>10, Executing, Welcome, AtOnceEffect
  <2>2. output'[i] = (IF op = "write" /\ ~thread[t].opened THEN 0 ELSE output[i])
                     + One(Puts(t, i))
    BY <1>10, PutsEffect
  <2>3. output'[i] = output[i] + One(Puts(t, i))
    <3>1. CASE op = "write" /\ ~thread[t].opened
      <4>1. Stages[t[1]].does = "write"
        BY <1>0, <2>1, <3>1 DEF HandsOf, Fits, InRound, Rounds
      <4>2. output[i] = 0
        BY <3>1, <4>1 DEF Unopened
      <4> QED BY <2>2, <3>1, <4>2
    <3>2. CASE ~(op = "write" /\ ~thread[t].opened)
      BY <2>2, <3>2
    <3> QED BY <3>1, <3>2
  <2>4. op \in {"set_thread_local", "fetch"} => thread[t].cmd.items = {}
    BY <2>1, RoundsCarryNothing DEF Rounds
  <2>5. ~(i \in thread[t].cmd.items /\ i \in thread[t].collected)
    BY NotTwice
  <2>6. Held(thread', t, i) + One(Puts(t, i)) = Held(thread, t, i)
    <3>1. CASE op = "collect"
      BY <1>5, <2>1, <2>5, <3>1 DEF Held, Puts, One
    <3>2. CASE op \in {"set_thread_local", "fetch"}
      BY <1>5, <2>1, <2>4, <3>2 DEF Held, Puts, One
    <3>3. CASE op \in {"print", "print_config", "write"}
      BY <1>5, <2>1, <3>3 DEF Held, Puts, One
    <3> QED BY <2>1, <3>1, <3>2, <3>3 DEF Does
  <2>7. One(Puts(t, i)) \in Nat /\ Held(thread', t, i) \in Nat
    BY DEF One, Held
  <2>8. R = Q
    BY <2>1
  <2> HIDE DEF Q, R, op
  <2> QED BY <1>2, <1>3, <2>3, <2>6, <2>7, <2>8
<1> QED BY <1>6, <1>7, <1>8, <1>9, <1>10, WorkCases

\* A thread's step keeps the counts.
LEMMA WorkCounted ==
    ASSUME ItemsInv, WellScripted, NEW t \in Threads, Work(t)
    PROVE  Counted'
<1>1. IInv /\ Counted /\ Unopened /\ WellBuilt
  BY DEF ItemsInv, WellScripted
<1>2. main' = main /\ Threads' = Threads
  BY <1>1, WorkKeeps
<1>3. SUFFICES ASSUME NobodyFailed', NEW i \in 1 .. Items
               PROVE  Copies(i)' = One(i <= main.fed)
  BY <1>2 DEF Counted
<1>4. NobodyFailed /\ ~thread'[t].failed
  BY <1>1, <1>2, <1>3, FlagsStay, WorkKeeps DEF NobodyFailed, Alone
<1>5. Copies(i) = One(i <= main.fed)
  BY <1>1, <1>4 DEF Counted
<1>6. Copies(i) \in {0, 1}
  BY <1>5 DEF One
<1> QED BY <1>1, <1>4, <1>5, <1>6, WorkCopies

\* Where a stage writes to the file, nothing puts anything out but its one thread.
LEMMA WorkUnopened ==
    ASSUME ItemsInv, WellScripted, NEW t \in Threads, Work(t)
    PROVE  Unopened'
<1> USE DEF WellScripted
<1>1. IInv /\ Unopened /\ TypeOK /\ Alone(t) /\ Stages' = Stages /\ Threads' = Threads
      /\ HandsOf(t) /\ t[1] \in 1 .. NStages /\ Stages[t[1]].does \in Does
  BY WorkKeeps, Parts, ThreadsOfStages, Shape DEF ItemsInv, Hands
<1>2. SUFFICES ASSUME NobodyFailed', NEW u \in Threads, Stages[u[1]].does = "write",
                      ~thread'[u].opened, NEW i \in 1 .. Items
               PROVE  output'[i] = 0
  BY <1>1 DEF Unopened
<1>3. NobodyFailed /\ ~thread'[t].failed
  BY <1>1, <1>2, FlagsStay DEF NobodyFailed, Alone
<1>4. ~thread[u].opened
  <2>1. CASE u = t
    BY <1>1, <1>2, <2>1, FlagsStay
  <2>2. CASE u # t
    BY <1>1, <1>2, <2>2 DEF Alone
  <2> QED BY <2>1, <2>2
<1>5. output[i] = 0
  BY <1>1, <1>2, <1>3, <1>4 DEF Unopened
<1>6. CASE AtOnce(t)
  <2> DEFINE op == thread[t].cmd.op
  <2>1. /\ output'[i] = (IF op = "write" /\ ~thread[t].opened THEN 0 ELSE output[i])
                        + One(Puts(t, i))
        /\ op = "write" => thread'[t].opened
    BY <1>1, <1>3, <1>6, PutsEffect
  <2>2. thread[t].pc = "execute" /\ (op \in Does => op = Stages[t[1]].does)
    BY <1>1, <1>6, Executing, Welcome, AtOnceEffect
       DEF HandsOf, Fits, InRound, Rounds, Does
  <2>3. u[1] \in 1 .. NStages /\ u = <<u[1], u[2]>> /\ t = <<t[1], t[2]>>
        /\ u[2] \in 1 .. Stages[u[1]].tasks /\ t[2] \in 1 .. Stages[t[1]].tasks
    BY ThreadsOfStages
  <2>4. op \notin {"print", "print_config"}
    BY <1>1, <1>2, <2>2, <2>3 DEF OneWriter, Does
  <2>5. op # "fetch"
    <3>1. SUFFICES ASSUME op = "fetch" PROVE FALSE
      OBVIOUS
    <3>2. InRound(t[1], "fetch")
      BY <1>1, <2>2, <3>1, RoundsCarryNothing DEF Rounds
    <3>3. main.step \in Steps /\ Script[main.step].op = "fetch"
      BY <1>1, <3>2, RoundStep
    <3> QED BY <1>2, <2>3, <3>3 DEF OneWriter
  <2>6. op # "write"
    <3>1. SUFFICES ASSUME op = "write" PROVE FALSE
      OBVIOUS
    <3>2. Stages[t[1]].does = "write"
      BY <2>2, <3>1 DEF Does
    <3>3. t[1] = u[1] /\ Stages[u[1]].tasks = 1
      BY <1>1, <1>2, <2>3, <3>2 DEF OneWriter
    <3>4. t[2] = 1 /\ u[2] = 1
      BY <2>3, <3>3
    <3>5. t = u
      BY <2>3, <3>3, <3>4
    <3> QED BY <1>2, <2>1, <3>1, <3>5
  <2>7. One(Puts(t, i)) = 0
    BY <2>4, <2>5, <2>6 DEF Puts, One
  <2> QED BY <1>5, <2>1, <2>6, <2>7
<1>7. CASE Take(t) \/ Exit(t) \/ Forward(t) \/ Forwarded(t)
  <2>1. output' = output
    BY <1>7 DEF Take, Exit, Forward, Forwarded
  <2> QED BY <1>5, <2>1
<1> QED BY <1>6, <1>7, WorkCases

\* Main's steps do, and feeding adds the item that is fed.
LEMMA MainCounted ==
    ASSUME ItemsInv, WellScripted, Main
    PROVE  Counted' /\ Unopened'
<1> USE DEF WellScripted
<1>1. /\ IInv /\ Counted /\ Unopened /\ TypeOK /\ MainOK
      /\ Stages' = Stages /\ Threads' = Threads /\ NStages' = NStages
  BY MainKeeps, Parts DEF ItemsInv
<1>2. /\ \A t \in Threads : /\ thread'[t].cmd = thread[t].cmd
                            /\ thread'[t].collected = thread[t].collected
                            /\ thread'[t].opened = thread[t].opened
                            /\ thread'[t].failed = thread[t].failed
      /\ output' = output
  <2>1. CASE RoundEnds
    BY <1>1, <2>1, RoundEndsEffect
  <2>2. CASE ~RoundEnds
    <3>1. output' = output
      BY <2>2 DEF Main, Lock, FeedItem, ReadFails, SubmitRound, Drained, Join, Return,
                  OnlyMain
    <3> QED BY <1>1, <2>2, <3>1, MainKeeps
  <2> QED BY <2>1, <2>2
<1>3. NobodyFailed' <=> NobodyFailed
  BY <1>1, <1>2 DEF NobodyFailed
<1>4. Unopened'
  BY <1>1, <1>2, <1>3 DEF Unopened
<1>5. queue \in Queues /\ queue' \in Queues
  BY <1>1, MainTypeOK, QueuesTyped
<1>6. SUFFICES ASSUME NobodyFailed, NEW i \in 1 .. Items
               PROVE  Copies(i)' = One(i <= main'.fed)
  BY <1>3, <1>4 DEF Counted
<1>7. Copies(i) = One(i <= main.fed)
  BY <1>1, <1>6 DEF Counted
<1>8. InHands(thread', i) = InHands(thread, i) /\ InLocals(thread', i) = InLocals(thread, i)
  BY <1>2 DEF InHands, InLocals
<1> DEFINE Q == Cardinality(InQueues(queue, i))
           R == Cardinality(InQueues(queue', i))
           H == Cardinality(InHands(thread, i)) + Cardinality(InLocals(thread, i))
<1>9. /\ Q \in Nat /\ R \in Nat /\ output[i] \in Nat
      /\ Cardinality(InHands(thread, i)) \in Nat /\ Cardinality(InLocals(thread, i)) \in Nat
  BY <1>1, HoldersFinite, PlacesFinite DEF TypeOK
<1>10. /\ Copies(i) = Q + Cardinality(InHands(thread, i))
                        + Cardinality(InLocals(thread, i)) + output[i]
       /\ Copies(i)' = R + Cardinality(InHands(thread, i))
                         + Cardinality(InLocals(thread, i)) + output[i]
  BY <1>1, <1>2, <1>8, CopiesAre DEF CopiesIn
<1> HIDE DEF Q, R
<1>11. SUFFICES R + One(i <= main.fed) = Q + One(i <= main'.fed)
  <2>1. One(i <= main.fed) \in Nat /\ One(i <= main'.fed) \in Nat
    BY DEF One
  <2> QED BY <1>7, <1>9, <1>10, <1>11, <2>1
<1>12. CASE FeedItem
  <2> DEFINE c == Command(Stages[1].does, {main.fed + 1})
  <2>1. /\ 1 \in 1 .. NStages /\ c \in Commands /\ c.items = {main.fed + 1}
        /\ Len(queue[1]) < QueueSize /\ queue'[1] = Append(queue[1], c)
        /\ \A s \in 1 .. NStages \ {1} : queue'[s] = queue[s]
        /\ main'.fed = main.fed + 1 /\ main.fed \in Nat
    BY <1>1, <1>12, FeedItemEffect, MainTyped DEF Command
  <2> HIDE DEF c
  <2>2. R = Q + One(i \in c.items)
    BY <1>5, <2>1, QueuesAppend DEF Q, R
  <2>3. One(i \in c.items) + One(i <= main.fed) = One(i <= main'.fed)
    BY <2>1 DEF One
  <2>4. One(i \in c.items) \in Nat /\ One(i <= main.fed) \in Nat
    BY DEF One
  <2> QED BY <1>9, <2>2, <2>3, <2>4
<1>13. CASE SubmitRound
  <2> DEFINE c == Command(Op, {})
  <2>1. /\ Here \in 1 .. NStages /\ c \in Commands /\ c.items = {}
        /\ Len(queue[Here]) < QueueSize /\ queue'[Here] = Append(queue[Here], c)
        /\ \A s \in 1 .. NStages \ {Here} : queue'[s] = queue[s]
        /\ main'.fed = main.fed
    BY <1>1, <1>13, SubmitRoundEffect
  <2> HIDE DEF c
  <2>2. R = Q + One(i \in c.items)
    BY <1>5, <2>1, QueuesAppend DEF Q, R
  <2>3. One(i \in c.items) = 0
    BY <2>1 DEF One
  <2> QED BY <1>9, <2>1, <2>2, <2>3
<1>14. CASE ~FeedItem /\ ~SubmitRound
  <2>1. queue' = queue
    BY <1>1, <1>14, MainQueue
  <2>2. main'.fed = main.fed
    BY <1>1, <1>14, LockEffect, ReadFailsEffect, RoundEndsEffect, DrainedEffect, JoinEffect,
       ReturnEffect DEF Main
  <2> QED BY <2>1, <2>2 DEF Q, R
<1> QED BY <1>12, <1>13, <1>14

-------------------------------------------------------------------------------
(* The invariant, and what it shows.                                       *)

\* Nothing is fed and nothing exists at the start.
LEMMA InitItemsInv == Init => ItemsInv
<1> SUFFICES ASSUME Init PROVE ItemsInv
  OBVIOUS
<1>1. IInv /\ WellBuilt
  BY InitIInv, EveryProgram DEF Init, WellScripted
<1>2. /\ main.fed = 0 /\ \A s \in 1 .. NStages : Len(queue[s]) = 0
      /\ \A i \in 1 .. Items : output[i] = 0
      /\ \A t \in Threads : thread[t].cmd.items = {} /\ thread[t].collected = {}
  BY NoCommandOK DEF Init, Fresh
<1>3. ASSUME NEW i \in 1 .. Items PROVE Copies(i) = One(i <= main.fed)
  <2>1. InQueues(queue, i) = {} /\ InHands(thread, i) = {} /\ InLocals(thread, i) = {}
    <3>1. \A p \in (1 .. NStages) \X (1 .. QueueSize) : ~(p[2] <= Len(queue[p[1]]))
      BY <1>2, PipelineAssumption
    <3> QED BY <1>2, <3>1 DEF InQueues, InHands, InLocals
  <2>2. Copies(i) = 0
    <3>1. Cardinality({}) = 0 /\ output[i] = 0
      BY <1>2, FS_EmptySet
    <3>2. CopiesIn(queue, thread, output, i) = 0 + 0 + 0 + 0
      BY <2>1, <3>1 DEF CopiesIn
    <3> QED BY <3>2, CopiesAre
  <2>3. ~(i <= main.fed)
    BY <1>2
  <2> QED BY <2>2, <2>3 DEF One
<1> QED BY <1>1, <1>2, <1>3 DEF ItemsInv, Counted, Unopened

\* Every step keeps the counts.
LEMMA NextItemsInv == ItemsInv /\ [Next]_vars => ItemsInv'
<1> SUFFICES ASSUME ItemsInv, [Next]_vars PROVE ItemsInv'
  OBVIOUS
<1>1. IInv' /\ WellScripted
  BY NextIInv, Parts, EveryProgram DEF ItemsInv, TypeOK
<1>2. ASSUME Main PROVE Counted' /\ Unopened'
  BY <1>1, <1>2, MainCounted
<1>3. ASSUME NEW t \in Threads, Work(t) PROVE Counted' /\ Unopened'
  BY <1>1, <1>3, WorkCounted, WorkUnopened
<1>4. ASSUME UNCHANGED vars PROVE Counted' /\ Unopened'
  <2>1. /\ Stages' = Stages /\ Threads' = Threads /\ NStages' = NStages
        /\ queue' = queue /\ thread' = thread /\ output' = output /\ main' = main
    BY <1>4, SameProgram DEF vars
  <2>2. \A i : Copies(i)' = Copies(i)
    BY <2>1, CopiesAre
  <2>3. (NobodyFailed' <=> NobodyFailed) /\ Counted /\ Unopened
    BY <2>1 DEF NobodyFailed, ItemsInv
  <2>4. Counted'
    BY <2>1, <2>2, <2>3 DEF Counted
  <2>5. Unopened'
    BY <2>1, <2>3 DEF Unopened
  <2> QED BY <2>4, <2>5
<1> QED BY <1>1, <1>2, <1>3, <1>4 DEF Next, ItemsInv

\* What main has fed is conserved: handing over from one pool to the next, collecting,
\* flushing, fetching and writing neither lose an item nor make two of it, as long as no
\* write fails; for any number of items and threads and any size of the queues.
THEOREM ConservedAlways == Spec => []Conserved
<1>1. ItemsInv => Conserved
  <2> SUFFICES ASSUME ItemsInv, \A t \in Threads : ~thread[t].failed,
                      NEW i \in 1 .. main.fed
               PROVE  Copies(i) = 1
    BY DEF Conserved
  <2>1. main.fed \in 0 .. Items
    BY Parts DEF ItemsInv, TypeOK, MainStates
  <2>2. i \in 1 .. Items /\ i <= main.fed
    BY <2>1, PipelineAssumption
  <2> QED BY <2>2 DEF ItemsInv, Counted, NobodyFailed, One
<1> QED BY <1>1, InitItemsInv, NextItemsInv, PTL DEF Spec

\* When main has gone through its script every item is in the output exactly once: by
\* then every stage is finished, so that no queue, no thread and no thread-local storage
\* has an item, and a write that failed would have stopped main in join.
THEOREM CompleteAlways == Spec => []Complete
<1>1. ItemsInv => Complete
  <2> SUFFICES ASSUME ItemsInv, ScriptEnded, NEW i \in 1 .. Items
               PROVE  output[i] = 1
    BY DEF Complete
  <2>1. IInv /\ TypeOK /\ MainOK /\ Hands /\ WellScripted /\ WellBuilt /\ StageFinished
    BY Parts, EveryProgram, StagesFinished DEF ItemsInv, TypeOK, WellScripted
  <2>2. /\ main.step = Len(Script) + 1 /\ main.step \in Nat /\ Steps = 1 .. Len(Script)
        /\ Len(Script) \in Nat
    BY <2>1, MainTyped, Shape DEF ScriptEnded
  <2>3. \A k \in Steps : k \in 1 .. main.step - 1 /\ k < main.step
    BY <2>2
  <2>4. main.fed = Items
    BY <2>1, <2>3 DEF WellScripted, FedOnce, MainOK
  <2>5. \A s \in 1 .. NStages :
          /\ queue[s] = <<>>
          /\ \A t \in Workers(s) : /\ thread[t].pc = "exited" /\ ~thread[t].failed
                                   /\ thread[t].collected = {}
    <3>1. ASSUME NEW s \in 1 .. NStages
          PROVE  /\ ShutdownStep(s) \in 1 .. main.step - 1
                 /\ Script[ShutdownStep(s)].op = "shutdown"
                 /\ Script[ShutdownStep(s)].stage = s
      <4>1. ShutdownStep(s) \in Steps /\ Script[ShutdownStep(s)] = Do("shutdown", s)
        BY <2>1 DEF WellScripted, ShutDownInOrder
      <4> QED BY <2>3, <4>1 DEF Do
    <3> QED BY <2>1, <3>1 DEF StageFinished
  <2>6. \A t \in Threads : /\ thread[t].cmd = NoCommand /\ thread[t].collected = {}
                           /\ ~thread[t].failed
    BY <2>1, <2>5, ThreadsOfStages DEF Hands, HandsOf
  <2>7. InQueues(queue, i) = {} /\ InHands(thread, i) = {} /\ InLocals(thread, i) = {}
    <3>1. \A p \in (1 .. NStages) \X (1 .. QueueSize) : ~(p[2] <= Len(queue[p[1]]))
      BY <2>5, PipelineAssumption
    <3> QED BY <2>6, <3>1, NoCommandOK DEF InQueues, InHands, InLocals
  <2>8. Copies(i) = 0 + 0 + 0 + output[i]
    BY <2>7, FS_EmptySet, CopiesAre DEF CopiesIn
  <2>9. Copies(i) = 1
    BY <2>4, <2>6, PipelineAssumption DEF ItemsInv, Counted, NobodyFailed, One
  <2>10. output[i] \in Nat
    BY <2>1 DEF TypeOK
  <2> QED BY <2>8, <2>9, <2>10
<1> QED BY <1>1, InitItemsInv, NextItemsInv, PTL DEF Spec
===============================================================================
