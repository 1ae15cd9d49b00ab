------------------------ MODULE SerialExecutorProofs ------------------------
(***************************************************************************)
(* Proofs about SerialExecutor, for any tasks and priorities.              *)
(*                                                                         *)
(* The argument: a task that is in the queue is in it once, and then it is *)
(* neither in the hands of the loop nor of its goroutine; every action     *)
(* hands one task from one of the three places to the next.  In the first  *)
(* round, the tasks that have not begun yet are at the head of the queue   *)
(* and sorted, since what is put back is put behind them.                  *)
(***************************************************************************)
EXTENDS SerialExecutor, TLAPS, SequenceTheorems, FiniteSetTheorems

InQueue == {queue[i] : i \in 1..Len(queue)}

(* No task is in the queue twice, and none that was not added. *)
QueueInv ==
    /\ \A i, j \in 1..Len(queue) : queue[i] = queue[j] => i = j
    /\ \A i \in 1..Len(queue) : queue[i] \in tasks

(* A task whose action runs, or that waits, has begun and is nowhere else. *)
HandsInv ==
    /\ loop = "Busy" <=> current # NoTask
    /\ current # NoTask => current \in begun /\ current \notin InQueue
    /\ \A t \in Tasks : waiting[t] # "None" => t \in begun /\ t \notin InQueue /\ current # t
    /\ begun \subseteq tasks

(* Before Start nothing has happened. *)
AddingInv ==
    phase = "Adding" => queue = <<>> /\ begun = {}

(* While the executor runs, every task is somewhere. *)
NoneLost ==
    phase = "Running" => \A t \in tasks : t \in InQueue \/ current = t \/ waiting[t] # "None"

(* Tasks that have not begun are at the head of the queue, in order. *)
FirstRound ==
    /\ phase # "Adding" => \A t \in tasks \ begun : t \in InQueue
    /\ \A i, j \in 1..Len(queue) :
            i < j /\ queue[j] \notin begun =>
                queue[i] \notin begun /\ InOrder(queue[i], queue[j])

ExecutorInv ==
    /\ TypeOK
    /\ QueueInv
    /\ HandsInv
    /\ AddingInv
    /\ NoneLost
    /\ FirstRound
    /\ PriorityFirst

-----------------------------------------------------------------------------
(* The parts of the executor.                                               *)

LEMMA TasksAreFinite ==
  ASSUME TypeOK
  PROVE  IsFiniteSet(tasks) /\ Cardinality(tasks) \in Nat
BY TasksAssumption, FS_Subset, FS_CardinalityType DEF TypeOK

(* What Start puts into the channel holds every task once. *)
LEMMA SequencesOfASet ==
  ASSUME NEW S, IsFiniteSet(S), NEW q \in SetToSeqs(S)
  PROVE  /\ q \in Seq(S)
         /\ Len(q) = Cardinality(S)
         /\ \A i, j \in 1..Len(q) : q[i] = q[j] => i = j
         /\ \A t \in S : \E i \in 1..Len(q) : q[i] = t
<1> DEFINE n == Cardinality(S)
<1>1. n \in Nat
  BY FS_CardinalityType
<1>2. q \in [1..n -> S] /\ \A i, j \in 1..n : i # j => q[i] # q[j]
  BY DEF SetToSeqs
<1>3. q \in Seq(S) /\ Len(q) = n
  BY <1>1, <1>2
<1>4. q \in Injection(1..n, S)
  BY <1>2 DEF Injection, IsInjective
<1>5. Cardinality(1..n) = n
  BY <1>1, FS_Interval
<1>6. q \in Surjection(1..n, S)
  BY <1>4, <1>5, FS_Injection
<1> QED
  BY <1>2, <1>3, <1>6 DEF Surjection

(* A task counts once or not at all in the queue. *)
LEMMA CountOfQueue ==
  ASSUME TypeOK, QueueInv, NEW t
  PROVE  Queued(t) = IF t \in InQueue THEN 1 ELSE 0
<1> DEFINE places == {i \in 1..Len(queue) : queue[i] = t}
<1>1. CASE t \notin InQueue
  <2>1. places = {}
    BY <1>1 DEF InQueue
  <2> QED
    BY <1>1, <2>1, FS_EmptySet DEF Queued
<1>2. CASE t \in InQueue
  <2>1. PICK i \in 1..Len(queue) : queue[i] = t
    BY <1>2 DEF InQueue
  <2>2. places = {i}
    BY <2>1 DEF QueueInv
  <2> QED
    BY <1>2, <2>2, FS_Singleton DEF Queued
<1> QED
  BY <1>1, <1>2

-----------------------------------------------------------------------------
(* Initial states and steps.                                                *)

LEMMA ExecutorInit == Init => ExecutorInv
<1> SUFFICES ASSUME Init PROVE ExecutorInv
  OBVIOUS
<1>1. TypeOK
  BY FS_EmptySet DEF Init, TypeOK
<1>2. QueueInv /\ HandsInv /\ AddingInv /\ NoneLost /\ FirstRound /\ PriorityFirst
  BY DEF Init, QueueInv, HandsInv, AddingInv, NoneLost, FirstRound, PriorityFirst
<1> QED
  BY <1>1, <1>2 DEF ExecutorInv

LEMMA AddStep ==
  ASSUME ExecutorInv, NEW t \in Tasks, Add(t)
  PROVE  ExecutorInv'
<1> USE DEF ExecutorInv, Add
<1>1. queue = <<>> /\ begun = {} /\ queue' = <<>> /\ Len(queue') = 0
  BY DEF AddingInv
<1>2. TypeOK'
  <2>1. tasks' \subseteq Tasks
    BY DEF TypeOK
  <2>2. Cardinality(tasks') \in Nat
    BY <2>1, TasksAssumption, FS_Subset, FS_CardinalityType
  <2> QED
    BY <1>1, <2>1, <2>2 DEF TypeOK
<1>3. QueueInv'
  BY <1>1 DEF QueueInv
<1>4. HandsInv'
  BY DEF HandsInv, InQueue
<1>5. AddingInv' /\ NoneLost' /\ PriorityFirst'
  BY <1>1 DEF AddingInv, NoneLost, PriorityFirst
<1>6. FirstRound'
  BY <1>1 DEF FirstRound
<1> QED
  BY <1>2, <1>3, <1>4, <1>5, <1>6

LEMMA StartStep ==
  ASSUME ExecutorInv, Start
  PROVE  ExecutorInv'
<1> USE DEF ExecutorInv
<1>1. IsFiniteSet(tasks) /\ Cardinality(tasks) \in Nat /\ tasks \subseteq Tasks
  BY TasksAreFinite DEF TypeOK
<1>2. queue' \in SetToSeqs(tasks) /\ Sorted(queue')
  BY DEF Start
<1>3. /\ queue' \in Seq(tasks) /\ Len(queue') = Cardinality(tasks)
      /\ \A i, j \in 1..Len(queue') : queue'[i] = queue'[j] => i = j
      /\ \A t \in tasks : \E i \in 1..Len(queue') : queue'[i] = t
  BY <1>1, <1>2, SequencesOfASet
<1>4. begun = {} /\ begun' = {} /\ tasks' = tasks /\ phase' = "Running"
  BY DEF Start, AddingInv
<1>5. current = NoTask /\ \A t \in Tasks : waiting[t] = "None"
  BY <1>4 DEF HandsInv
<1>6. TypeOK'
  <2>1. queue' \in Seq(Tasks)
    BY <1>1, <1>3, SeqMonotonic
  <2> QED
    BY <1>1, <1>3, <2>1 DEF Start, TypeOK
<1>7. QueueInv'
  BY <1>3, <1>4 DEF QueueInv
<1>8. HandsInv'
  BY <1>4, <1>5 DEF Start, HandsInv
<1>9. AddingInv' /\ NoneLost' /\ PriorityFirst'
  BY <1>3, <1>4 DEF AddingInv, NoneLost, PriorityFirst, InQueue
<1>10. FirstRound'
  BY <1>2, <1>3, <1>4 DEF FirstRound, InQueue, Sorted, InOrder
<1> QED
  BY <1>6, <1>7, <1>8, <1>9, <1>10

LEMMA TakeStep ==
  ASSUME ExecutorInv, Take
  PROVE  ExecutorInv'
<1> USE DEF ExecutorInv
<1> DEFINE h == Head(queue)
<1>1. queue \in Seq(Tasks) /\ queue # <<>> /\ Len(queue) \in Nat \ {0}
  BY EmptySeq DEF Take, TypeOK
<1>2. /\ h = queue[1] /\ h \in tasks /\ h \in Tasks
      /\ Tail(queue) \in Seq(Tasks) /\ Len(Tail(queue)) = Len(queue) - 1
      /\ \A i \in 1..Len(Tail(queue)) : Tail(queue)[i] = queue[i + 1]
  BY <1>1, HeadTailProperties DEF QueueInv
<1>3. /\ queue' = Tail(queue) /\ current' = h /\ begun' = begun \union {h}
      /\ loop' = "Busy" /\ UNCHANGED <<phase, tasks, waiting>> /\ phase # "Adding"
  BY DEF Take, Live, Stopping
<1>4. \A i \in 1..Len(queue') : i + 1 \in 1..Len(queue) /\ queue'[i] = queue[i + 1]
  BY <1>1, <1>2, <1>3
<1>5. current = NoTask /\ h # NoTask
  BY <1>2, TasksAssumption DEF Take, HandsInv
<1>6. \A t : t \in InQueue' => t \in InQueue /\ t # h
  BY <1>1, <1>2, <1>4 DEF InQueue, QueueInv
<1>7. \A t : t \in InQueue /\ t # h => t \in InQueue'
  <2> SUFFICES ASSUME NEW t, NEW i \in 1..Len(queue), queue[i] = t, t # h
               PROVE  t \in InQueue'
    BY DEF InQueue
  <2>1. i - 1 \in 1..Len(queue') /\ queue'[i - 1] = t
    BY <1>1, <1>2, <1>3
  <2> QED
    BY <2>1 DEF InQueue
<1>8. TypeOK'
  <2>1. Cardinality(tasks) \in Nat
    BY TasksAreFinite
  <2>2. queue' \in Seq(Tasks) /\ Len(queue') <= Cardinality(tasks')
    BY <1>1, <1>2, <1>3, <2>1 DEF TypeOK
  <2> QED
    BY <1>2, <1>3, <2>2 DEF TypeOK
<1>9. QueueInv'
  <2>1. \A i, j \in 1..Len(queue') : queue'[i] = queue'[j] => i = j
    <3> SUFFICES ASSUME NEW i \in 1..Len(queue'), NEW j \in 1..Len(queue'), queue'[i] = queue'[j]
                 PROVE  i = j
      OBVIOUS
    <3>1. i + 1 = j + 1
      BY <1>4 DEF QueueInv
    <3> QED
      BY <3>1
  <2>2. \A i \in 1..Len(queue') : queue'[i] \in tasks'
    BY <1>3, <1>4 DEF QueueInv
  <2> QED
    BY <2>1, <2>2 DEF QueueInv
<1>10. HandsInv'
  <2>1. h \in InQueue
    BY <1>1, <1>2 DEF InQueue
  <2>2. \A t \in Tasks : waiting'[t] # "None" => t \in begun' /\ t \notin InQueue' /\ current' # t
    BY <1>3, <1>6, <2>1 DEF HandsInv
  <2>3. current' \in begun' /\ current' \notin InQueue' /\ begun' \subseteq tasks'
    <3>1. h \notin InQueue'
      BY <1>6
    <3>2. current' \notin InQueue'
      BY <1>3, <3>1 DEF InQueue
    <3> QED
      BY <1>2, <1>3, <3>2 DEF HandsInv, InQueue
  <2> QED
    BY <1>3, <1>5, <2>2, <2>3 DEF HandsInv
<1>11. AddingInv' /\ NoneLost'
  <2>1. \A t \in tasks : t # NoTask
    BY TasksAssumption DEF TypeOK
  <2>2. NoneLost'
    BY <1>3, <1>5, <1>7, <2>1 DEF NoneLost
  <2> QED
    BY <1>3, <2>2 DEF AddingInv
<1>12. FirstRound'
  <2>1. \A t \in tasks' \ begun' : t \in InQueue'
    BY <1>3, <1>7 DEF FirstRound
  <2>2. ASSUME NEW i \in 1..Len(queue'), NEW j \in 1..Len(queue'),
               i < j, queue'[j] \notin begun'
        PROVE  queue'[i] \notin begun' /\ InOrder(queue'[i], queue'[j])
    <3>1. queue[j + 1] \notin begun /\ i + 1 < j + 1 /\ i + 1 # 1
      BY <1>3, <1>4, <2>2
    <3>2. queue[i + 1] \notin begun /\ InOrder(queue[i + 1], queue[j + 1])
      BY <1>4, <3>1 DEF FirstRound
    <3>3. queue[i + 1] # h
      BY <1>1, <1>2, <1>4, <3>1 DEF QueueInv
    <3> QED
      BY <1>3, <1>4, <3>2, <3>3
  <2> QED
    BY <2>1, <2>2 DEF FirstRound, InOrder
<1>13. PriorityFirst'
  <2> SUFFICES ASSUME NEW t \in tasks, NEW u \in begun', Priority[t] > Priority[u],
                      u \in tasks, t \notin begun'
               PROVE  FALSE
    BY <1>3 DEF PriorityFirst
  <2>1. t \notin begun /\ t # h
    BY <1>3
  <2>2. u = h /\ h \notin begun
    BY <1>3, <2>1 DEF PriorityFirst
  <2>3. PICK i \in 1..Len(queue) : queue[i] = t
    BY <1>3, <2>1 DEF FirstRound, InQueue
  <2>4. 1 < i /\ 1 \in 1..Len(queue)
    BY <1>1, <1>2, <2>1, <2>3
  <2>5. InOrder(h, t)
    BY <1>2, <2>1, <2>3, <2>4 DEF FirstRound
  <2>6. Priority[t] \in Int /\ Priority[h] \in Int
    BY <1>2, PriorityAssumption DEF TypeOK
  <2> QED
    BY <2>2, <2>5, <2>6 DEF InOrder
<1> QED
  BY <1>8, <1>9, <1>10, <1>11, <1>12, <1>13

LEMMA RequeueStep ==
  ASSUME ExecutorInv, NEW t \in Tasks, Requeue(t)
  PROVE  ExecutorInv'
<1> USE DEF ExecutorInv
<1> DEFINE n == Len(queue)
<1>1. queue \in Seq(Tasks) /\ n \in Nat
  BY DEF TypeOK
<1>2. /\ queue' \in Seq(Tasks) /\ Len(queue') = n + 1 /\ queue'[n + 1] = t
      /\ \A i \in 1..n : queue'[i] = queue[i]
  BY <1>1, AppendProperties DEF Requeue
<1>3. /\ UNCHANGED <<phase, tasks, loop, current, begun>> /\ phase # "Adding"
      /\ waiting' = [waiting EXCEPT ![t] = "None"] /\ waiting[t] # "None"
  BY DEF Requeue
<1>4. t \in begun /\ t \in tasks /\ t \notin InQueue /\ current # t
  BY <1>3 DEF HandsInv
<1>5. \A u : u \in InQueue' <=> u \in InQueue \/ u = t
  BY <1>1, <1>2 DEF InQueue
<1>6. TypeOK'
  <2>1. Cardinality(tasks) \in Nat
    BY TasksAreFinite
  <2>2. Len(queue') <= Cardinality(tasks')
    BY <1>1, <1>2, <1>3, <2>1 DEF Requeue
  <2> QED
    BY <1>2, <1>3, <2>2 DEF TypeOK
<1>7. QueueInv'
  <2>1. \A i \in 1..n : queue[i] # t
    BY <1>4 DEF InQueue
  <2>2. \A i \in 1..Len(queue') : i \in 1..n \/ i = n + 1
    BY <1>1, <1>2
  <2>3. \A i \in 1..Len(queue') : queue'[i] \in tasks'
    BY <1>2, <1>3, <1>4, <2>2 DEF QueueInv
  <2>4. \A i, j \in 1..Len(queue') : queue'[i] = queue'[j] => i = j
    BY <1>2, <2>1, <2>2 DEF QueueInv
  <2> QED
    BY <2>3, <2>4 DEF QueueInv
<1>8. HandsInv'
  <2>1. \A u \in Tasks : waiting'[u] # "None" => u # t /\ waiting[u] # "None"
    BY <1>3 DEF TypeOK
  <2>2. \A u \in Tasks : waiting'[u] # "None" => u \in begun' /\ u \notin InQueue' /\ current' # u
    BY <1>3, <1>5, <2>1 DEF HandsInv
  <2>3. current # NoTask => current \notin InQueue'
    BY <1>4, <1>5 DEF HandsInv
  <2>4. current' # NoTask => current' \in begun' /\ current' \notin InQueue'
    BY <1>3, <2>3 DEF HandsInv, InQueue
  <2> QED
    BY <1>3, <2>2, <2>4 DEF HandsInv
<1>9. AddingInv' /\ NoneLost' /\ PriorityFirst'
  <2>1. \A u \in Tasks : u # t => waiting'[u] = waiting[u]
    BY <1>3 DEF TypeOK
  <2> QED
    BY <1>3, <1>5, <2>1 DEF AddingInv, NoneLost, PriorityFirst, TypeOK
<1>10. FirstRound'
  <2>1. \A u \in tasks' \ begun' : u \in InQueue'
    BY <1>3, <1>5 DEF FirstRound
  <2>2. ASSUME NEW i \in 1..Len(queue'), NEW j \in 1..Len(queue'),
               i < j, queue'[j] \notin begun'
        PROVE  queue'[i] \notin begun' /\ InOrder(queue'[i], queue'[j])
    <3>1. j # n + 1
      BY <1>2, <1>3, <1>4, <2>2
    <3>2. i \in 1..n /\ j \in 1..n
      BY <1>1, <1>2, <2>2, <3>1
    <3> QED
      BY <1>2, <1>3, <2>2, <3>2 DEF FirstRound
  <2> QED
    BY <2>1, <2>2 DEF FirstRound, InOrder
<1> QED
  BY <1>6, <1>7, <1>8, <1>9, <1>10

(* The steps that leave the queue alone. *)
LEMMA OtherSteps ==
  ASSUME ExecutorInv,
         \/ LoopEnds \/ ActionEnds \/ StopCancel \/ StopClose
         \/ \E t \in Tasks : Fire(t) \/ GiveUp(t) \/ Panic(t)
         \/ UNCHANGED vars
  PROVE  ExecutorInv'
<1> USE DEF ExecutorInv
<1>1. UNCHANGED <<tasks, queue, begun>> /\ (phase' = "Adding" <=> phase = "Adding")
  BY DEF LoopEnds, ActionEnds, StopCancel, StopClose, Fire, GiveUp, Panic, Stopping, Live, vars
<1>2. QueueInv' /\ AddingInv' /\ FirstRound' /\ PriorityFirst'
  BY <1>1 DEF QueueInv, AddingInv, FirstRound, PriorityFirst, InQueue
<1>3. TypeOK' /\ HandsInv' /\ NoneLost'
  <2>1. CASE ActionEnds
    <3>1. current # NoTask /\ current \in begun /\ current \in Tasks
      BY <2>1, TasksAssumption DEF ActionEnds, HandsInv, TypeOK
    <3>2. /\ current' = NoTask /\ loop' = "Select" /\ phase' = phase
          /\ \A t \in Tasks : waiting'[t] = IF t = current THEN "Timer" ELSE waiting[t]
      BY <2>1, <3>1 DEF ActionEnds, TypeOK
    <3>3. TypeOK'
      BY <1>1, <2>1, <3>1 DEF ActionEnds, TypeOK
    <3>4. HandsInv'
      BY <1>1, <3>1, <3>2, TasksAssumption DEF HandsInv, InQueue
    <3>5. NoneLost'
      BY <1>1, <3>1, <3>2 DEF NoneLost, InQueue, TypeOK
    <3> QED
      BY <3>3, <3>4, <3>5
  <2>2. CASE LoopEnds \/ StopCancel \/ StopClose \/ UNCHANGED vars
    BY <2>2
       DEF LoopEnds, StopCancel, StopClose, vars, Stopping, TypeOK, HandsInv, NoneLost, InQueue
  <2>3. ASSUME NEW t \in Tasks, Fire(t) \/ GiveUp(t) \/ Panic(t)
        PROVE  TypeOK' /\ HandsInv' /\ NoneLost'
    BY <2>3
       DEF Fire, GiveUp, Panic, Stopping, Live, TypeOK, HandsInv, NoneLost, InQueue
  <2> QED
    BY <2>1, <2>2, <2>3
<1> QED
  BY <1>2, <1>3

LEMMA ExecutorStep == ExecutorInv /\ [Next]_vars => ExecutorInv'
<1> SUFFICES ASSUME ExecutorInv, [Next]_vars PROVE ExecutorInv'
  OBVIOUS
<1>1. CASE \E t \in Tasks : Add(t)
  BY <1>1, AddStep
<1>2. CASE Start
  BY <1>2, StartStep
<1>3. CASE Take
  BY <1>3, TakeStep
<1>4. CASE \E t \in Tasks : Requeue(t)
  BY <1>4, RequeueStep
<1>5. CASE \/ LoopEnds \/ ActionEnds \/ StopCancel \/ StopClose
           \/ \E t \in Tasks : Fire(t) \/ GiveUp(t) \/ Panic(t)
           \/ UNCHANGED vars
  BY <1>5, OtherSteps
<1> QED
  BY <1>1, <1>2, <1>3, <1>4, <1>5 DEF Next, LoopStep, Goroutine

LEMMA ExecutorInvariant == Spec => []ExecutorInv
BY ExecutorInit, ExecutorStep, PTL DEF Spec

-----------------------------------------------------------------------------
(* The theorems.                                                            *)

(* Type correctness; the queue never outgrows its channel, so that a send   *)
(* that finds room never blocks the goroutines of the other tasks for good. *)
THEOREM TypeCorrect == Spec => []TypeOK
<1>1. ExecutorInv => TypeOK
  BY DEF ExecutorInv
<1> QED
  BY <1>1, ExecutorInvariant, PTL

(* No task of the loop in sequential_executor.go is lost, and none runs     *)
(* twice for one interval, whatever Stop, timers and the loop do.           *)
THEOREM InOnePlace == Spec => []OnePlace
<1>1. ExecutorInv => OnePlace
  <2> SUFFICES ASSUME ExecutorInv, NEW t \in tasks
               PROVE  LET places == Queued(t) + (IF current = t THEN 1 ELSE 0)
                                              + (IF waiting[t] # "None" THEN 1 ELSE 0)
                      IN  /\ places <= 1
                          /\ phase = "Running" => places = 1
    BY DEF OnePlace
  <2>1. t \in Tasks /\ t # NoTask
    BY TasksAssumption DEF ExecutorInv, TypeOK
  <2>2. Queued(t) = IF t \in InQueue THEN 1 ELSE 0
    BY CountOfQueue DEF ExecutorInv
  <2>3. /\ current = t => t \notin InQueue /\ waiting[t] = "None"
        /\ waiting[t] # "None" => t \notin InQueue
    BY <2>1 DEF ExecutorInv, HandsInv
  <2>4. phase = "Running" => t \in InQueue \/ current = t \/ waiting[t] # "None"
    BY DEF ExecutorInv, NoneLost
  <2> QED
    BY <2>2, <2>3, <2>4
<1> QED
  BY <1>1, ExecutorInvariant, PTL

(* The first time round, no task runs before one of a higher priority       *)
(* (SortFunc in Start), although tasks already come back into the queue.    *)
THEOREM HighestPriorityFirst == Spec => []PriorityFirst
<1>1. ExecutorInv => PriorityFirst
  BY DEF ExecutorInv
<1> QED
  BY <1>1, ExecutorInvariant, PTL
=============================================================================
