--------------------------- MODULE SerialExecutor ---------------------------
(***************************************************************************)
(* SequentialExecutor: the loop under which everything periodic of         *)
(* PBLauncher runs, one task at a time.  Start queues the tasks, highest   *)
(* priority first; a loop takes one, runs its action to the end, and       *)
(* leaves a goroutine behind that puts the task back into the queue once   *)
(* its interval has passed, or gives up when the executor is stopped.      *)
(*                                                                         *)
(* Stop cancels the context and closes the queue, in this order; neither   *)
(* the loop nor the goroutines are waited for.  A Go select with several   *)
(* ready cases takes any of them, and a send on a closed channel, which    *)
(* counts as ready, panics and takes all of PBLauncher with it.            *)
(*                                                                         *)
(* RunSequentialExecutor starts the executor once, so that Start after     *)
(* Stop is left out.                                                       *)
(***************************************************************************)
EXTENDS Integers, Sequences, FiniteSets, SequencesExt

CONSTANTS
    Tasks,     \* the tasks of the program
    Priority,  \* their priorities
    NoTask     \* what the loop has in hand between two actions

ASSUME TasksAssumption == IsFiniteSet(Tasks) /\ NoTask \notin Tasks
ASSUME PriorityAssumption == Priority \in [Tasks -> Int]

VARIABLES
    phase,    \* "Adding", "Running", then "Cancelled" and "Closed" by Stop; or "Panicked"
    tasks,    \* the tasks added
    queue,    \* the contents of the channel
    loop,     \* the loop goroutine
    current,  \* the task whose action runs, or NoTask
    waiting,  \* per task: the goroutine that puts it back
    begun     \* history: the tasks that have run at least once

vars == <<phase, tasks, queue, loop, current, waiting, begun>>

TypeOK ==
    /\ phase \in {"Adding", "Running", "Cancelled", "Closed", "Panicked"}
    /\ tasks \subseteq Tasks
    /\ queue \in Seq(Tasks) /\ Len(queue) <= Cardinality(tasks)
    /\ loop \in {"None", "Select", "Busy", "Gone"}
    /\ current \in Tasks \union {NoTask}
    /\ waiting \in [Tasks -> {"None", "Timer", "Fired"}]
    /\ begun \subseteq Tasks

Init ==
    /\ phase = "Adding"
    /\ tasks = {}
    /\ queue = <<>>
    /\ loop = "None"
    /\ current = NoTask
    /\ waiting = [t \in Tasks |-> "None"]
    /\ begun = {}

Stopping == phase \in {"Cancelled", "Closed"}
Live == phase = "Running" \/ Stopping

-----------------------------------------------------------------------------
(* Add refuses a task while the executor runs; each task is added once. *)
Add(t) ==
    /\ phase = "Adding"
    /\ tasks' = tasks \union {t}
    /\ UNCHANGED <<phase, queue, loop, current, waiting, begun>>

(* Mutant of InOrder: the comparison of SortFunc the other way round. *)
InAscendingOrder(t, u) == Priority[t] <= Priority[u]

(* The comparison SortFunc is given: b.priority - a.priority. *)
InOrder(t, u) == Priority[t] >= Priority[u]

(* SortFunc is not stable: tasks of one priority come in any order. *)
Sorted(q) == \A i, j \in 1..Len(q) : i < j => InOrder(q[i], q[j])

Start ==
    /\ phase = "Adding"
    /\ phase' = "Running"
    /\ queue' \in {q \in SetToSeqs(tasks) : Sorted(q)}
    /\ loop' = "Select"
    /\ UNCHANGED <<tasks, current, waiting, begun>>

(* The select of the loop takes a task; after Stop it still may. *)
Take ==
    /\ Live
    /\ loop = "Select"
    /\ queue # <<>>
    /\ current' = Head(queue)
    /\ queue' = Tail(queue)
    /\ loop' = "Busy"
    /\ begun' = begun \union {current'}
    /\ UNCHANGED <<phase, tasks, waiting>>

(* Mutant of LoopEnds: the loop looks at the queue only. *)
LoopIgnoresStop == FALSE /\ UNCHANGED vars

(* The select finds the context done, or the queue closed and empty. *)
LoopEnds ==
    /\ Stopping
    /\ loop = "Select"
    /\ loop' = "Gone"
    /\ UNCHANGED <<phase, tasks, queue, current, waiting, begun>>

(* Mutant of ActionEnds: the task is queued at once as well. *)
ActionEndsTwice ==
    /\ Live
    /\ loop = "Busy"
    /\ waiting' = [waiting EXCEPT ![current] = "Timer"]
    /\ queue' = IF phase = "Closed" THEN queue ELSE Append(queue, current)
    /\ current' = NoTask
    /\ loop' = "Select"
    /\ UNCHANGED <<phase, tasks, begun>>

(* Exec: the action returns and its goroutine is left behind. *)
ActionEnds ==
    /\ Live
    /\ loop = "Busy"
    /\ waiting' = [waiting EXCEPT ![current] = "Timer"]
    /\ current' = NoTask
    /\ loop' = "Select"
    /\ UNCHANGED <<phase, tasks, queue, begun>>

(* The interval has passed: the outer select takes the timer. *)
Fire(t) ==
    /\ Live
    /\ waiting[t] = "Timer"
    /\ waiting' = [waiting EXCEPT ![t] = "Fired"]
    /\ UNCHANGED <<phase, tasks, queue, loop, current, begun>>

(* One of the two selects takes ctx.Done. *)
GiveUp(t) ==
    /\ Stopping
    /\ waiting[t] # "None"
    /\ waiting' = [waiting EXCEPT ![t] = "None"]
    /\ UNCHANGED <<phase, tasks, queue, loop, current, begun>>

(* Mutant of Requeue: a full queue is taken for one with a single place. *)
RequeueIfEmpty(t) ==
    /\ phase \in {"Running", "Cancelled"}
    /\ waiting[t] = "Fired"
    /\ queue' = IF queue = <<>> THEN <<t>> ELSE queue
    /\ waiting' = [waiting EXCEPT ![t] = "None"]
    /\ UNCHANGED <<phase, tasks, loop, current, begun>>

(* The inner select sends the task, if there is room. *)
Requeue(t) ==
    /\ phase \in {"Running", "Cancelled"}
    /\ waiting[t] = "Fired"
    /\ Len(queue) < Cardinality(tasks)
    /\ queue' = Append(queue, t)
    /\ waiting' = [waiting EXCEPT ![t] = "None"]
    /\ UNCHANGED <<phase, tasks, loop, current, begun>>

(* The inner select sends on the closed queue. *)
Panic(t) ==
    /\ phase = "Closed"
    /\ waiting[t] = "Fired"
    /\ phase' = "Panicked"
    /\ UNCHANGED <<tasks, queue, loop, current, waiting, begun>>

(* Stop: running = false and cancel ... *)
StopCancel ==
    /\ phase = "Running"
    /\ phase' = "Cancelled"
    /\ UNCHANGED <<tasks, queue, loop, current, waiting, begun>>

(* ... and close(queue). *)
StopClose ==
    /\ phase = "Cancelled"
    /\ phase' = "Closed"
    /\ UNCHANGED <<tasks, queue, loop, current, waiting, begun>>

-----------------------------------------------------------------------------
LoopStep == Take \/ LoopEnds \/ ActionEnds

Goroutine(t) == Fire(t) \/ GiveUp(t) \/ Requeue(t) \/ Panic(t)

Next ==
    \/ \E t \in Tasks : Add(t)
    \/ Start \/ StopCancel \/ StopClose
    \/ LoopStep
    \/ \E t \in Tasks : Goroutine(t)

Spec == Init /\ [][Next]_vars

(* Goroutines are scheduled, timers fire, and the action of a task returns: *)
(* each of the program's is a bounded amount of work.  Nobody has to add a  *)
(* task, start or stop the executor, but a Stop that has begun is finished. *)
Fairness ==
    /\ WF_vars(LoopStep)
    /\ WF_vars(StopClose)
    /\ \A t \in Tasks : WF_vars(Goroutine(t))

FairSpec == Spec /\ Fairness

-----------------------------------------------------------------------------
(* Properties.                                                              *)

Queued(t) == Cardinality({i \in 1..Len(queue) : queue[i] = t})

(* A task is in one place only: once in the queue, in the hands of the      *)
(* loop, or with its goroutine; while the executor runs it is in one, so    *)
(* that no task is ever lost and none runs twice for one interval.          *)
OnePlace ==
    \A t \in tasks :
        LET places == Queued(t) + (IF current = t THEN 1 ELSE 0)
                                + (IF waiting[t] # "None" THEN 1 ELSE 0)
        IN  /\ places <= 1
            /\ phase = "Running" => places = 1

(* The first time round, no task runs before one of a higher priority: the  *)
(* launcher recovers services before certificates are planned.              *)
PriorityFirst ==
    \A t, u \in tasks : u \in begun /\ Priority[t] > Priority[u] => t \in begun

(* As long as the executor is not stopped, every task runs again and again: *)
(* slow ones and those of high priority do not starve the others.           *)
RunsAgain == \A t \in Tasks : phase = "Running" /\ t \in tasks ~> current = t \/ phase # "Running"

(* Stop is not waited for, but everything the executor started ends.        *)
StopEndsAll ==
    phase = "Closed" ~> \/ loop = "Gone" /\ \A t \in Tasks : waiting[t] = "None"
                        \/ phase = "Panicked"
=============================================================================
