------------------------------ MODULE Launcher ------------------------------
(***************************************************************************)
(* LauncherManager: what starts, stops, suspends and wakes the services.   *)
(*                                                                         *)
(* Its threads share processList and activityMap under rwMtx, the services *)
(* and commands collections of PBLauncher's own database without any lock, *)
(* and errChan:                                                            *)
(*   runner    the task of launcher_runner.go: recovery, then the pending  *)
(*             commands, one after the other;                              *)
(*   ticker    auto-sleep;                                                 *)
(*   errors    handleServiceErrors, which turns a crash report into a      *)
(*             failure status and, by policy, into a start command;        *)
(*   requests  proxied HTTP requests, which record activity or wake.       *)
(* Beside them run one waitForExit goroutine per process, the operating    *)
(* system, the user who publishes commands, and the end of PBLauncher      *)
(* itself, which nothing turns into a call of Dispose.                     *)
(*                                                                         *)
(* A critical section that cannot block is one step.  Start and Stop of a  *)
(* process take several, with the lock held: a process may exit, a status  *)
(* be written by errors, or a record be read in between.  Process models a *)
(* handle in finer steps; here its status read and status write are merged *)
(* where no other thread can tell.                                         *)
(***************************************************************************)
EXTENDS Naturals, Sequences, FiniteSets

CONSTANTS
    Services,     \* the managed services
    FirstStatus,  \* the statuses a service may have when PBLauncher first starts
    AutoRestart,  \* those whose restart policy is on-failure
    Requests,     \* the requests in flight at one time
    UserActions,  \* the commands a user may publish
    UseScope,     \* processes run in systemd scopes (Linux with limits set)
    MaxProcs,     \* bound on processes started
    MaxUserCmds,  \* bound on commands published by the user
    MaxFaults,    \* bound on failed starts and failed writes to the database
    MaxCrashes,   \* bound on ends of PBLauncher
    ErrCap        \* capacity of errChan

ASSUME LauncherAssumption ==
    /\ Services # {}
    /\ AutoRestart \subseteq Services
    /\ FirstStatus \subseteq {"idle", "running", "stopped", "failure", "sleeping"}
    /\ UserActions \subseteq {"start", "stop", "restart", "upgrade"}
    /\ UseScope \in BOOLEAN
    /\ MaxProcs \in Nat
    /\ MaxUserCmds \in Nat
    /\ MaxFaults \in Nat
    /\ MaxCrashes \in Nat
    /\ ErrCap \in Nat \ {0}
    /\ Requests \cap {"runner", "ticker", "errors", "free"} = {}

Threads == {"runner", "ticker", "errors"} \union Requests
Procs == 1..MaxProcs

VARIABLES
    dbStatus,   \* per service: the status of its record
    dbRelease,  \* per service: the release of its record (1, or 2 once upgraded)
    cmds,       \* the commands collection, in the order of creation
    faults,     \* the number of starts and database writes that failed
    lock,       \* the thread inside a long critical section of rwMtx, or "free"
    list,       \* processList: per service its process, 0 for no entry
    activity,   \* activityMap: no entry, recent, or older than idleTimeout
    errChan,    \* the services whose crash is reported and not yet received
    born,       \* the number of processes started so far
    owner,      \* per process: its service
    pstate,     \* per process: the status of its handle
    waiter,     \* per process: its waitForExit goroutine
    failed,     \* the processes that ended with an error, until waitForExit reads it
    killed,     \* the processes that received SIGKILL and have not ended
    pc,         \* per thread: where it is
    target,     \* per thread: the service it works on
    seen,       \* per waking request: the status it read before locking
    recovered,  \* recoveryDone
    todo,       \* the services recovery has yet to start
    batch,      \* the commands fetched and not yet begun, by index in cmds
    executing,  \* the command the runner is at
    toSuspend,  \* the services the ticker found idle
    crashes     \* the number of times PBLauncher ended

dbVars == <<dbStatus, dbRelease, cmds, faults>>
mapVars == <<list, activity>>
procVars == <<born, owner, pstate, waiter, failed, killed, errChan>>
runnerVars == <<recovered, todo, batch, executing>>
vars == <<dbVars, lock, mapVars, procVars, pc, target, seen, runnerVars,
          toSuspend, crashes>>

Statuses == {"idle", "running", "stopped", "failure", "sleeping"}
HandleStates == {"None", "Starting", "Running", "Stopping", "Stopped"}
WaiterStates == {"None", "Waiting", "Reaped", "Reporting", "Settling", "Done", "Orphan"}
Positions == {"Idle", "Recovering", "Looping", "Stopping", "Starting", "Upgrading",
              "Spawned", "Awaiting", "Restoring", "Succeeded", "Failed",
              "Suspending", "Publishing", "Waking", "Checking", "Touching"}
Command == [service: Services, action: {"start", "stop", "restart", "upgrade"},
            status: {"pending", "success", "error"}, by: {"user", "errors"}]

StoreTypes ==
    /\ dbStatus \in [Services -> Statuses]
    /\ dbRelease \in [Services -> 1..2]
    /\ cmds \in Seq(Command)
    /\ faults \in 0..MaxFaults
    /\ crashes \in 0..MaxCrashes

ProcTypes ==
    /\ list \in [Services -> 0..MaxProcs]
    /\ activity \in [Services -> {"none", "recent", "idle"}]
    /\ errChan \in Seq(Services)
    /\ born \in 0..MaxProcs
    /\ owner \in [Procs -> Services]
    /\ pstate \in [Procs -> HandleStates]
    /\ waiter \in [Procs -> WaiterStates]
    /\ failed \in SUBSET Procs
    /\ killed \in SUBSET Procs

ThreadTypes ==
    /\ lock \in Threads \union {"free"}
    /\ pc \in [Threads -> Positions]
    /\ target \in [Threads -> Services]
    /\ seen \in [Requests -> Statuses]
    /\ toSuspend \in SUBSET Services

RunnerTypes ==
    /\ todo \in SUBSET Services
    /\ batch \in SUBSET (1..Len(cmds))
    /\ executing \in 0..Len(cmds)

TypeOK ==
    /\ StoreTypes
    /\ ProcTypes
    /\ ThreadTypes
    /\ RunnerTypes
    /\ recovered \in BOOLEAN

(* The values of seen, owner and target while they mean nothing. *)
NoRecord == "idle"
AService == CHOOSE s \in Services : TRUE

(* PBLauncher starts on a database some earlier life left behind. *)
Init ==
    /\ dbStatus \in [Services -> FirstStatus]
    /\ dbRelease = [s \in Services |-> 1]
    /\ cmds = <<>>
    /\ faults = 0
    /\ lock = "free"
    /\ list = [s \in Services |-> 0]
    /\ activity = [s \in Services |-> "none"]
    /\ errChan = <<>>
    /\ born = 0
    /\ owner = [p \in Procs |-> AService]
    /\ pstate = [p \in Procs |-> "None"]
    /\ waiter = [p \in Procs |-> "None"]
    /\ failed = {}
    /\ killed = {}
    /\ pc = [t \in Threads |-> "Idle"]
    /\ target = [t \in Threads |-> AService]
    /\ seen = [r \in Requests |-> NoRecord]
    /\ recovered = FALSE
    /\ todo = {}
    /\ batch = {}
    /\ executing = 0
    /\ toSuspend = {}
    /\ crashes = 0

-----------------------------------------------------------------------------
(* Helpers.                                                                 *)

(* The process is alive: a goroutine waits for it, or PBLauncher ended      *)
(* under it.                                                                *)
Alive(p) == waiter[p] \in {"Waiting", "Orphan"}

(* processList has an entry for s and its handle says Running. *)
IsRunning(s) == list[s] # 0 /\ pstate[list[s]] = "Running"

Goto(t, position) == pc' = [pc EXCEPT ![t] = position]

(* updateRecord: a status write that may fail; its callers log the error    *)
(* and go on.                                                               *)
Mark(s, status) ==
    \/ dbStatus' = [dbStatus EXCEPT ![s] = status] /\ UNCHANGED faults
    \/ faults < MaxFaults /\ faults' = faults + 1 /\ UNCHANGED dbStatus

(* delete(processList), delete(activityMap). *)
Forget(s) ==
    /\ list' = [list EXCEPT ![s] = 0]
    /\ activity' = [activity EXCEPT ![s] = "none"]

-----------------------------------------------------------------------------
(* startServiceLocked, called by the runner and by requests.  The lock is   *)
(* free before it, or held by the recovering runner.                        *)

Recovering(t) == t = "runner" /\ pc[t] = "Recovering"

(* t is about to call startServiceLocked for s. *)
AtStart(t, s) ==
    \/ /\ Recovering(t)
       /\ lock = t
       /\ s \in todo
    \/ /\ t = "runner"
       /\ pc[t] = "Starting"
       /\ lock = "free"
       /\ s = target[t]
    \/ /\ t \in Requests
       /\ pc[t] = "Waking"
       /\ lock = "free"
       /\ s = target[t]
       /\ ~IsRunning(s)
       /\ seen[t] # "stopped"

(* Where t goes when the start has failed, or has succeeded. *)
AfterFailedStart(t) ==
    IF Recovering(t) THEN "Recovering" ELSE IF t = "runner" THEN "Failed" ELSE "Idle"

AfterStart(t) ==
    IF t # "runner" THEN "Checking" ELSE IF recovered THEN "Succeeded" ELSE "Recovering"

(* A request is done with the record it read. *)
Drop(t) == seen' = [r \in Requests |-> IF r = t THEN NoRecord ELSE seen[r]]

TodoAfter(t, s) == IF Recovering(t) THEN todo \ {s} ELSE todo

StartUnchanged == UNCHANGED <<dbRelease, cmds, mapVars, recovered, batch,
                              executing, toSuspend, crashes>>

(* "service is already running". *)
StartRefused(t, s) ==
    /\ AtStart(t, s)
    /\ IsRunning(s)
    /\ Goto(t, AfterFailedStart(t))
    /\ todo' = TodoAfter(t, s)
    /\ Drop(t)
    /\ UNCHANGED <<dbStatus, faults, lock, procVars, target>>
    /\ StartUnchanged

(* A fault; at MaxProcs the bound itself shows as one. *)
Fault ==
    \/ faults < MaxFaults /\ faults' = faults + 1
    \/ born = MaxProcs /\ UNCHANGED faults

(* No binary, or no free port: nothing is written.  Or process.Start fails: *)
(* MarkServiceFailure, unless that fails too.                               *)
StartFails(t, s) ==
    /\ AtStart(t, s)
    /\ ~IsRunning(s)
    /\ Fault
    /\ \/ UNCHANGED dbStatus
       \/ dbStatus' = [dbStatus EXCEPT ![s] = "failure"]
    /\ Goto(t, AfterFailedStart(t))
    /\ todo' = TodoAfter(t, s)
    /\ Drop(t)
    /\ UNCHANGED <<lock, procVars, target>>
    /\ StartUnchanged

(* Mutant of MayLaunch: the entry of processList is not looked at. *)
MayLaunchAlways(s) == born < MaxProcs

MayLaunch(s) == born < MaxProcs /\ ~IsRunning(s)

(* process.Start launches a process.  With systemd scopes it first stops the *)
(* scope of that service, and with it a process left by an earlier life of  *)
(* PBLauncher (one that was killed just before may end now or later: Exit). *)
Leftover(s) == {p \in Procs : UseScope /\ waiter[p] = "Orphan" /\ owner[p] = s}

StartLaunches(t, s) ==
    /\ AtStart(t, s)
    /\ MayLaunch(s)
    /\ born' = born + 1
    /\ owner' = [owner EXCEPT ![born'] = s]
    /\ pstate' = [pstate EXCEPT ![born'] = "Starting"]
    /\ waiter' = [p \in Procs |-> IF p = born' THEN "Waiting"
                                  ELSE IF p \in Leftover(s) THEN "Done" ELSE waiter[p]]
    /\ killed' = killed \ Leftover(s)
    /\ lock' = t
    /\ Goto(t, "Spawned")
    /\ target' = [target EXCEPT ![t] = s]
    /\ todo' = TodoAfter(t, s)
    /\ Drop(t)
    /\ UNCHANGED <<dbStatus, faults, failed, errChan>>
    /\ StartUnchanged

(* updateStatus(Running), the entries of the two maps, MarkServiceRunning   *)
(* and unlock; recovery keeps the lock for its next service.                *)
StartEnds(t) ==
    LET s == target[t] IN
    /\ pc[t] = "Spawned"
    /\ pstate' = [pstate EXCEPT ![born] = "Running"]
    /\ list' = [list EXCEPT ![s] = born]
    /\ activity' = [activity EXCEPT ![s] = "recent"]
    /\ Mark(s, "running")
    /\ Goto(t, AfterStart(t))
    /\ lock' = IF AfterStart(t) = "Recovering" THEN t ELSE "free"
    /\ UNCHANGED <<dbRelease, cmds, errChan, born, owner, waiter, failed, killed,
                   target, seen, runnerVars, toSuspend, crashes>>

-----------------------------------------------------------------------------
(* stopProcessOnlyLocked and what its callers do after it: the runner marks *)
(* the service stopped, the ticker marks it sleeping.                       *)

(* t is about to call it for s. *)
AtStop(t, s) ==
    /\ lock = "free"
    /\ \/ t = "runner" /\ pc[t] = "Stopping" /\ s = target[t]
       \/ t = "ticker" /\ pc[t] = "Suspending" /\ s \in toSuspend

StopStatus(t) == IF t = "ticker" THEN "sleeping" ELSE "stopped"

Restarting == executing # 0 /\ cmds[executing].action = "restart"

AfterStop(t) ==
    IF t = "ticker" THEN "Suspending" ELSE IF Restarting THEN "Starting" ELSE "Succeeded"

(* evaluateCommand ignores the error of a stop command; restart does not. *)
AfterFailedStop(t) ==
    IF t = "ticker" THEN "Suspending" ELSE IF Restarting THEN "Failed" ELSE "Succeeded"

ToSuspendAfter(t, s) == IF t = "ticker" THEN toSuspend \ {s} ELSE toSuspend

StopUnchanged == UNCHANGED <<dbRelease, cmds, errChan, born, owner, waiter,
                             failed, seen, runnerVars, crashes>>

(* There is no entry, or its handle does not say Running: the entry goes    *)
(* and the status is written.                                               *)
StopNothing(t, s) ==
    /\ AtStop(t, s)
    /\ ~IsRunning(s)
    /\ Forget(s)
    /\ Mark(s, StopStatus(t))
    /\ Goto(t, AfterStop(t))
    /\ toSuspend' = ToSuspendAfter(t, s)
    /\ UNCHANGED <<lock, pstate, killed, target>>
    /\ StopUnchanged

(* Process.Stop writes Stopping and signals the process, which fails if it  *)
(* has been reaped.                                                         *)
StopSignals(t, s) ==
    /\ AtStop(t, s)
    /\ IsRunning(s)
    /\ pstate' = [pstate EXCEPT ![list[s]] = "Stopping"]
    /\ lock' = t
    /\ target' = [target EXCEPT ![t] = s]
    /\ Goto(t, IF waiter[list[s]] = "Waiting" THEN "Awaiting" ELSE "Restoring")
    /\ toSuspend' = ToSuspendAfter(t, s)
    /\ UNCHANGED <<dbStatus, faults, mapVars, killed>>
    /\ StopUnchanged

(* The signal failed: updateStatus(Running), and the entry stays. *)
StopRestores(t) ==
    /\ pc[t] = "Restoring"
    /\ pstate' = [pstate EXCEPT ![list[target[t]]] = "Running"]
    /\ lock' = "free"
    /\ Goto(t, AfterFailedStop(t))
    /\ UNCHANGED <<dbStatus, faults, mapVars, killed, target, toSuspend>>
    /\ StopUnchanged

(* Mutant of StopEnds: the 10 s limit returns without SIGKILL. *)
StopEndsUnkilled(t) ==
    LET s == target[t] IN
    /\ pc[t] = "Awaiting"
    /\ killed' = killed
    /\ Forget(s)
    /\ Mark(s, StopStatus(t))
    /\ lock' = "free"
    /\ Goto(t, AfterStop(t))
    /\ UNCHANGED <<pstate, target, toSuspend>>
    /\ StopUnchanged

(* Mutant of StopEnds: the runner gives up at the 10 s limit and waits on. *)
StopEndsOnlyDone(t) ==
    LET s == target[t] IN
    /\ pc[t] = "Awaiting"
    /\ waiter[list[s]] = "Done"
    /\ killed' = killed
    /\ Forget(s)
    /\ Mark(s, StopStatus(t))
    /\ lock' = "free"
    /\ Goto(t, AfterStop(t))
    /\ UNCHANGED <<pstate, target, toSuspend>>
    /\ StopUnchanged

(* closeChan is closed, or 10 s have passed and SIGKILL is sent; either way *)
(* the entry goes, the status is written and the lock is released.          *)
StopEnds(t) ==
    LET s == target[t] IN
    /\ pc[t] = "Awaiting"
    /\ \/ waiter[list[s]] = "Done" /\ UNCHANGED killed
       \/ waiter[list[s]] = "Waiting" /\ killed' = killed \union {list[s]}
       \/ waiter[list[s]] \in {"Reaped", "Reporting", "Settling"} /\ UNCHANGED killed
    /\ Forget(s)
    /\ Mark(s, StopStatus(t))
    /\ lock' = "free"
    /\ Goto(t, AfterStop(t))
    /\ UNCHANGED <<pstate, target, toSuspend>>
    /\ StopUnchanged

-----------------------------------------------------------------------------
(* The runner: launcher_runner.go, RecoveryLastState, Run, evaluateCommand. *)

RunnerUnchanged == UNCHANGED <<dbStatus, mapVars, procVars, seen, toSuspend, crashes>>

(* RecoveryLastState: the services the database says are running. *)
RecoveryBegins ==
    /\ pc["runner"] = "Idle"
    /\ ~recovered
    /\ lock = "free"
    /\ lock' = "runner"
    /\ todo' = {s \in Services : dbStatus[s] = "running"}
    /\ Goto("runner", "Recovering")
    /\ UNCHANGED <<dbRelease, cmds, faults, target, recovered, batch, executing>>
    /\ RunnerUnchanged

(* Mutant of RecoveryEnds: it may end before its list does. *)
RecoveryEndsEarly ==
    /\ Recovering("runner")
    /\ recovered' = TRUE
    /\ lock' = "free"
    /\ Goto("runner", "Idle")
    /\ UNCHANGED <<dbRelease, cmds, faults, target, todo, batch, executing>>
    /\ RunnerUnchanged

(* Every service of the list has been started, or its start has failed. *)
RecoveryEnds ==
    /\ Recovering("runner")
    /\ todo = {}
    /\ recovered' = TRUE
    /\ lock' = "free"
    /\ Goto("runner", "Idle")
    /\ UNCHANGED <<dbRelease, cmds, faults, target, todo, batch, executing>>
    /\ RunnerUnchanged

Pending == {i \in 1..Len(cmds) : cmds[i].status = "pending"}

(* Mutant of Fetch: the list of commands is counted from zero. *)
FetchFromZero ==
    /\ pc["runner"] = "Idle"
    /\ recovered
    /\ Pending # {}
    /\ batch' = {i - 1 : i \in Pending}
    /\ Goto("runner", "Looping")
    /\ UNCHANGED <<dbRelease, cmds, faults, lock, target, recovered, todo, executing>>
    /\ RunnerUnchanged

(* GetPendingCommands. *)
Fetch ==
    /\ pc["runner"] = "Idle"
    /\ recovered
    /\ Pending # {}
    /\ batch' = Pending
    /\ Goto("runner", "Looping")
    /\ UNCHANGED <<dbRelease, cmds, faults, lock, target, recovered, todo, executing>>
    /\ RunnerUnchanged

(* Mutant of NextInBatch: the newest command first. *)
NewestInBatch == CHOOSE i \in batch : \A j \in batch : j <= i

(* Commands are executed in the order of their creation. *)
NextInBatch == CHOOSE i \in batch : \A j \in batch : i <= j

(* Where evaluateCommand goes with a command, after FindService.  Restart   *)
(* looks at processList without the lock; upgrade looks at the status.      *)
FirstStep(c) ==
    CASE c.action = "start"   -> "Starting"
      [] c.action = "stop"    -> "Stopping"
      [] c.action = "restart" -> IF IsRunning(c.service) THEN "Stopping" ELSE "Starting"
      [] c.action = "upgrade" -> IF dbStatus[c.service] = "stopped" THEN "Upgrading" ELSE "Failed"

Evaluate ==
    /\ pc["runner"] = "Looping"
    /\ batch # {}
    /\ executing' = NextInBatch
    /\ batch' = batch \ {NextInBatch}
    /\ target' = [target EXCEPT !["runner"] = cmds[NextInBatch].service]
    /\ Goto("runner", FirstStep(cmds[NextInBatch]))
    /\ UNCHANGED <<dbRelease, cmds, faults, lock, recovered, todo>>
    /\ RunnerUnchanged

(* upgradeService: the target release is unknown, not newer, or has no      *)
(* binary, or its write fails.                                              *)
UpgradeRefused ==
    /\ pc["runner"] = "Upgrading"
    /\ Goto("runner", "Failed")
    /\ UNCHANGED <<dbRelease, cmds, faults, lock, target, runnerVars>>
    /\ RunnerUnchanged

(* UpdateServiceRelease; the start follows under the lock. *)
UpgradeWrites ==
    /\ pc["runner"] = "Upgrading"
    /\ dbRelease[target["runner"]] < 2
    /\ dbRelease' = [dbRelease EXCEPT ![target["runner"]] = 2]
    /\ Goto("runner", "Starting")
    /\ UNCHANGED <<cmds, faults, lock, target, runnerVars>>
    /\ RunnerUnchanged

(* MarkCommandSuccess or MarkCommandError, which may fail and leave the     *)
(* command pending; then the next command, or the next tick of the task.    *)
Finish ==
    /\ pc["runner"] \in {"Succeeded", "Failed"}
    /\ \/ /\ cmds' = [cmds EXCEPT ![executing].status =
                        IF pc["runner"] = "Succeeded" THEN "success" ELSE "error"]
          /\ UNCHANGED faults
       \/ /\ faults < MaxFaults
          /\ faults' = faults + 1
          /\ UNCHANGED cmds
    /\ executing' = 0
    /\ Goto("runner", IF batch = {} THEN "Idle" ELSE "Looping")
    /\ UNCHANGED <<dbRelease, lock, target, recovered, todo, batch>>
    /\ RunnerUnchanged

-----------------------------------------------------------------------------
(* The ticker: checkAndSuspendInactiveServices.                             *)

(* Under the lock: which running services have been idle for idleTimeout?   *)
(* A running service without an entry gets one.                             *)
Tick ==
    /\ pc["ticker"] = "Idle"
    /\ lock = "free"
    /\ toSuspend' = {s \in Services : IsRunning(s) /\ activity[s] = "idle"}
    /\ activity' = [s \in Services |->
                      IF IsRunning(s) /\ activity[s] = "none" THEN "recent" ELSE activity[s]]
    /\ toSuspend' # {} \/ activity' # activity
    /\ Goto("ticker", IF toSuspend' = {} THEN "Idle" ELSE "Suspending")
    /\ UNCHANGED <<dbVars, lock, list, procVars, target, seen, runnerVars, crashes>>

(* The list is exhausted. *)
TickEnds ==
    /\ pc["ticker"] = "Suspending"
    /\ toSuspend = {}
    /\ Goto("ticker", "Idle")
    /\ UNCHANGED <<dbVars, lock, mapVars, procVars, target, seen, runnerVars, toSuspend, crashes>>

(* Time passes without a request for s. *)
Age(s) ==
    /\ activity[s] = "recent"
    /\ activity' = [activity EXCEPT ![s] = "idle"]
    /\ UNCHANGED <<dbVars, lock, list, procVars, pc, target, seen, runnerVars, toSuspend, crashes>>

-----------------------------------------------------------------------------
(* Requests: ResolveTarget of the proxy, and WakeupService.                 *)

RequestUnchanged == UNCHANGED <<dbVars, lock, list, procVars, runnerVars, toSuspend, crashes>>

(* The service is running: the request records activity and is routed. *)
Route(r, s) ==
    /\ pc[r] = "Idle"
    /\ lock = "free"
    /\ IsRunning(s)
    /\ target' = [target EXCEPT ![r] = s]
    /\ Goto(r, "Touching")
    /\ UNCHANGED <<activity, seen>>
    /\ RequestUnchanged

(* WakeupService reads the record before it takes the lock (and before it   *)
(* waits up to 30 s for a vacuum).                                          *)
WakeReads(r, s) ==
    /\ pc[r] = "Idle"
    /\ target' = [target EXCEPT ![r] = s]
    /\ seen' = [seen EXCEPT ![r] = dbStatus[s]]
    /\ Goto(r, "Waking")
    /\ UNCHANGED activity
    /\ RequestUnchanged

(* Under the lock: the process runs already, or the record read said        *)
(* stopped.  The other case is a start (AtStart).                           *)
WakeFindsRunning(r) ==
    /\ pc[r] = "Waking"
    /\ lock = "free"
    /\ IsRunning(target[r])
    /\ Goto(r, "Checking")
    /\ Drop(r)
    /\ UNCHANGED <<activity, target>>
    /\ RequestUnchanged

WakeRefused(r) ==
    /\ pc[r] = "Waking"
    /\ lock = "free"
    /\ ~IsRunning(target[r])
    /\ seen[r] = "stopped"
    /\ Goto(r, "Idle")
    /\ Drop(r)
    /\ UNCHANGED <<activity, target>>
    /\ RequestUnchanged

(* The health check answers, or gives up. *)
WakeChecks(r) ==
    /\ pc[r] = "Checking"
    /\ \E position \in {"Touching", "Idle"} : Goto(r, position)
    /\ UNCHANGED <<activity, target, seen>>
    /\ RequestUnchanged

(* RecordActivity. *)
Touch(r) ==
    /\ pc[r] = "Touching"
    /\ lock = "free"
    /\ activity' = [activity EXCEPT ![target[r]] = "recent"]
    /\ Goto(r, "Idle")
    /\ UNCHANGED <<target, seen>>
    /\ RequestUnchanged

-----------------------------------------------------------------------------
(* Crash reports: handleServiceErrors.                                      *)

ErrorsUnchanged == UNCHANGED <<dbRelease, lock, mapVars, born, owner, pstate, waiter,
                               failed, killed, seen, runnerVars, toSuspend, crashes>>

(* A report is received: MarkServiceFailure; if that write fails the report *)
(* is dropped.                                                              *)
ReportReceived ==
    LET s == Head(errChan) IN
    /\ pc["errors"] = "Idle"
    /\ errChan # <<>>
    /\ errChan' = Tail(errChan)
    /\ target' = [target EXCEPT !["errors"] = s]
    /\ \/ /\ dbStatus' = [dbStatus EXCEPT ![s] = "failure"]
          /\ Goto("errors", "Publishing")
          /\ UNCHANGED faults
       \/ /\ faults < MaxFaults
          /\ faults' = faults + 1
          /\ UNCHANGED <<dbStatus, pc>>
    /\ UNCHANGED cmds
    /\ ErrorsUnchanged

(* FindService for the restart policy; PublishStartComand, which may fail. *)
RestartPublished ==
    LET s == target["errors"] IN
    /\ pc["errors"] = "Publishing"
    /\ \/ /\ s \in AutoRestart
          /\ cmds' = Append(cmds, [service |-> s, action |-> "start",
                                   status |-> "pending", by |-> "errors"])
          /\ UNCHANGED faults
       \/ /\ s \in AutoRestart
          /\ faults < MaxFaults
          /\ faults' = faults + 1
          /\ UNCHANGED cmds
       \/ s \notin AutoRestart /\ UNCHANGED <<cmds, faults>>
    /\ Goto("errors", "Idle")
    /\ UNCHANGED <<dbStatus, errChan, target>>
    /\ ErrorsUnchanged

-----------------------------------------------------------------------------
(* Processes, the user, and the end of PBLauncher.                          *)

ProcUnchanged == UNCHANGED <<dbVars, lock, mapVars, born, owner, pc, target,
                             seen, runnerVars, toSuspend, crashes>>

(* A process ends, with or without an error, and is reaped. *)
Exit(p) ==
    /\ waiter[p] = "Waiting"
    /\ waiter' = [waiter EXCEPT ![p] = "Reaped"]
    /\ \/ failed' = failed \union {p}
       \/ UNCHANGED failed
    /\ killed' = killed \ {p}
    /\ UNCHANGED <<pstate, errChan>>
    /\ ProcUnchanged

(* waitForExit reads the status of the handle: an error that no Stop asked  *)
(* for is a crash.  Otherwise updateStatus(Stopped) and close(doneChan)     *)
(* follow, with nothing between that another thread could tell.             *)
Crashed(p) == p \in failed /\ pstate[p] \notin {"Stopping", "Stopped"}

Classify(p) ==
    /\ waiter[p] = "Reaped"
    /\ \/ /\ Crashed(p)
          /\ waiter' = [waiter EXCEPT ![p] = "Reporting"]
          /\ UNCHANGED pstate
       \/ /\ ~Crashed(p)
          /\ waiter' = [waiter EXCEPT ![p] = "Done"]
          /\ pstate' = [pstate EXCEPT ![p] = "Stopped"]
    /\ failed' = failed \ {p}
    /\ UNCHANGED <<errChan, killed>>
    /\ ProcUnchanged

Report(p) ==
    /\ waiter[p] = "Reporting"
    /\ Len(errChan) < ErrCap
    /\ errChan' = Append(errChan, owner[p])
    /\ waiter' = [waiter EXCEPT ![p] = "Settling"]
    /\ UNCHANGED <<pstate, failed, killed>>
    /\ ProcUnchanged

(* updateStatus(Stopped), close(doneChan). *)
Settle(p) ==
    /\ waiter[p] = "Settling"
    /\ pstate' = [pstate EXCEPT ![p] = "Stopped"]
    /\ waiter' = [waiter EXCEPT ![p] = "Done"]
    /\ UNCHANGED <<errChan, failed, killed>>
    /\ ProcUnchanged

(* An orphan ends by itself. *)
OrphanExits(p) ==
    /\ waiter[p] = "Orphan"
    /\ waiter' = [waiter EXCEPT ![p] = "Done"]
    /\ killed' = killed \ {p}
    /\ UNCHANGED <<pstate, errChan, failed>>
    /\ ProcUnchanged

UserCmds == {i \in 1..Len(cmds) : cmds[i].by = "user"}

(* The user creates a command record. *)
Publish(s, a) ==
    /\ Cardinality(UserCmds) < MaxUserCmds
    /\ cmds' = Append(cmds, [service |-> s, action |-> a, status |-> "pending", by |-> "user"])
    /\ UNCHANGED <<dbStatus, dbRelease, faults, lock, mapVars, procVars, pc, target, seen,
                   runnerVars, toSuspend, crashes>>

(* PBLauncher ends, however it ends: no caller of Dispose exists, so its    *)
(* processes live on, and what was in memory is gone.  It starts again.     *)
Crash ==
    /\ crashes < MaxCrashes
    /\ crashes' = crashes + 1
    /\ lock' = "free"
    /\ list' = [s \in Services |-> 0]
    /\ activity' = [s \in Services |-> "none"]
    /\ errChan' = <<>>
    /\ waiter' = [p \in Procs |->
                    CASE waiter[p] \in {"Waiting", "Orphan"} -> "Orphan"
                      [] waiter[p] = "None" -> "None"
                      [] OTHER -> "Done"]
    /\ pc' = [t \in Threads |-> "Idle"]
    /\ recovered' = FALSE
    /\ todo' = {}
    /\ batch' = {}
    /\ executing' = 0
    /\ toSuspend' = {}
    /\ pstate' = [p \in Procs |-> "None"]
    /\ failed' = {}
    /\ seen' = [r \in Requests |-> NoRecord]
    /\ UNCHANGED <<dbVars, born, owner, killed, target>>

-----------------------------------------------------------------------------
StartStep(t) ==
    \/ \E s \in Services : \/ StartRefused(t, s) \/ StartFails(t, s) \/ StartLaunches(t, s)
    \/ StartEnds(t)

StopStep(t) ==
    \/ \E s \in Services : StopNothing(t, s) \/ StopSignals(t, s)
    \/ StopRestores(t)
    \/ StopEnds(t)

RunnerStep ==
    \/ RecoveryBegins \/ RecoveryEnds
    \/ Fetch \/ Evaluate \/ UpgradeRefused \/ UpgradeWrites \/ Finish
    \/ StartStep("runner") \/ StopStep("runner")

TickerStep == Tick \/ TickEnds \/ StopStep("ticker")

ErrorsStep == ReportReceived \/ RestartPublished

RequestArrives(r) == \E s \in Services : Route(r, s) \/ WakeReads(r, s)

RequestStep(r) ==
    \/ WakeFindsRunning(r) \/ WakeRefused(r) \/ WakeChecks(r) \/ Touch(r)
    \/ StartStep(r)

WaitForExit(p) == Classify(p) \/ Report(p) \/ Settle(p)

Next ==
    \/ RunnerStep
    \/ TickerStep
    \/ ErrorsStep
    \/ \E r \in Requests : RequestArrives(r) \/ RequestStep(r)
    \/ \E p \in Procs : Exit(p) \/ WaitForExit(p) \/ OrphanExits(p)
    \/ \E s \in Services : Age(s)
    \/ \E s \in Services, a \in UserActions : Publish(s, a)
    \/ Crash

Spec == Init /\ [][Next]_vars

(* The executor runs its task again and again, tickers tick, goroutines are *)
(* scheduled and a killed process ends.  A waiting Lock is not passed over  *)
(* for ever (sync.RWMutex), hence strong fairness where a thread needs it.  *)
(* Nobody has to publish a command or send a request.                       *)
Fairness ==
    /\ SF_vars(RunnerStep)
    /\ SF_vars(TickEnds \/ StopStep("ticker"))
    /\ WF_vars(ErrorsStep)
    /\ \A r \in Requests : SF_vars(RequestStep(r))
    /\ \A p \in Procs : WF_vars(WaitForExit(p)) /\ WF_vars(p \in killed /\ Exit(p))

FairSpec == Spec /\ Fairness

-----------------------------------------------------------------------------
(* Properties.                                                              *)

(* The processes at work on the data of a service: alive, and not about to  *)
(* end by a SIGKILL already sent.                                           *)
Serving == {p \in Procs : Alive(p) /\ p \notin killed}

(* Those of this life of PBLauncher. *)
Children == {p \in Serving : waiter[p] = "Waiting"}

(* A thread has started p and will enter it in processList. *)
BeingStarted(p) == \E t \in Threads : pc[t] = "Spawned" /\ p = born /\ target[t] = owner[p]

(* Every child at work is in processList, where Stop, auto-sleep and the    *)
(* checks for a running service find it, or will be before the lock is      *)
(* released: no exit, late report, wake-up, restart or failed stop leaves   *)
(* one that nobody can stop.                                                *)
NoStrayProcess == \A p \in Children : list[owner[p]] = p \/ BeingStarted(p)

(* No two processes work on the data directory of one service, whoever      *)
(* starts them: commands, recovery or a wake-up; with systemd scopes not    *)
(* even across lives of PBLauncher.                                         *)
OneServer ==
    \A p, q \in (IF UseScope THEN Serving ELSE Children) :
        owner[p] = owner[q] => p = q

(* What backup, clone, snapshots and the hook manager rely on when they     *)
(* check the status in the database: while no write has failed, a service   *)
(* marked stopped has no child at work, unless a start has begun and not    *)
(* yet marked it running.                                                   *)
StoppedMeansDown ==
    \A p \in Children : faults = 0 /\ dbStatus[owner[p]] = "stopped" => BeingStarted(p)

(* While no write has failed, commands are finished in the order in which   *)
(* they were created, over batches, automatic restarts and restarts of      *)
(* PBLauncher.                                                              *)
CommandsInOrder ==
    \A i, j \in 1..Len(cmds) :
        faults = 0 /\ i < j /\ cmds[j].status # "pending" => cmds[i].status # "pending"

(* Recovery: when it ends, and no start or write failed, every service the  *)
(* database calls running has a process in processList, although reports,   *)
(* exits and requests went on beside it.                                    *)
RecoveryRestores ==
    [][~recovered /\ recovered' /\ faults = 0 /\ born < MaxProcs =>
         \A s \in Services : dbStatus[s] = "running" => list[s] # 0]_vars

(* Every command is finished: a process that ignores signals, requests,     *)
(* auto-sleep and crash reports do not hold the runner up for ever.         *)
CommandsResolved ==
    \A i \in 1..(MaxUserCmds + MaxProcs) : i \in Pending ~> i \notin Pending

(* A request that asked for a wake-up gets an answer. *)
RequestsAnswered == \A r \in Requests : pc[r] = "Waking" ~> pc[r] = "Idle"

(* The status a user's stop leaves is one only a start changes: models/     *)
(* service.go calls stopped "Stopped manually" and sleeping "suspended      *)
(* temporarily for inactivity".                                             *)
ManualStopSticks ==
    [][\A s \in Services : dbStatus[s] = "stopped" => dbStatus'[s] \in {"stopped", "running"}]_vars

(* The release of a service changes only while it is stopped and nothing of *)
(* it runs or is being started: docs/AI_GUIDE.md, "Upgrade requires the     *)
(* service to be `stopped`".                                                *)
UpgradeOnlyStopped ==
    [][\A s \in Services : dbRelease'[s] # dbRelease[s] =>
          dbStatus[s] = "stopped" /\ \A p \in Serving : owner[p] # s]_vars

(* A crash of a service with restart policy on-failure is followed by a new *)
(* process, if nothing failed and the user has not asked for anything:      *)
(* models/service.go, "Restart only on errors (start-failed, unexpected-    *)
(* exit)".                                                                  *)
CrashIsRestarted ==
    \A p \in Procs :
        waiter[p] = "Reporting" /\ owner[p] \in AutoRestart /\ UserCmds = {}
            ~> born > p \/ born = MaxProcs \/ UserCmds # {}
=============================================================================
