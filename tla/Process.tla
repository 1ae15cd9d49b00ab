------------------------------ MODULE Process ------------------------------
(***************************************************************************)
(* One process handle of helpers/process: the object that starts, watches  *)
(* and stops the PocketBase server of a managed service.                   *)
(*                                                                         *)
(* Three parties touch a handle at the same time:                          *)
(*   - the caller of Start and Stop.  The launcher serialises these calls  *)
(*     with rwMtx, so there is one caller;                                 *)
(*   - one waitForExit goroutine per operating-system process started;     *)
(*   - the operating system, which may end the process at any moment.      *)
(* Each access to the handle's status is atomic (handler's mutex), but the *)
(* caller and the goroutines read it and write it in separate steps: those *)
(* steps are the actions below.                                            *)
(*                                                                         *)
(* A run is one operating-system process started through the handle; runs  *)
(* are numbered in the order of their cmd.Start.                           *)
(***************************************************************************)
EXTENDS Naturals, Sequences

CONSTANTS
    MaxRuns,   \* bound on the number of processes started through the handle
    ErrCap     \* capacity of errChan (10 in NewLauncherManager)

ASSUME MaxRunsAssumption == MaxRuns \in Nat \ {0}
ASSUME ErrCapAssumption == ErrCap \in Nat \ {0}

Runs == 1..MaxRuns

VARIABLES
    status,    \* handler.status
    cmd,       \* handler.cmd: the run it belongs to, 0 for nil
    started,   \* number of runs started so far
    os,        \* per run: what the operating system knows of it
    exit,      \* per run: what cmd.Wait returns for it
    waiter,    \* per run: control state of its waitForExit goroutine
    caller,    \* control state of the caller of Start and Stop
    errChan,   \* the crash reports not yet received
    asked,     \* history: the runs a Stop call set out to stop
    told,      \* history: the runs that received SIGTERM or SIGKILL from Stop
    killed,    \* history: the runs that received SIGKILL
    reported   \* history: the runs whose crash was sent to errChan

vars == <<status, cmd, started, os, exit, waiter, caller, errChan,
          asked, told, killed, reported>>

callerVars == <<cmd, started, caller, asked, told, killed>>
waiterVars == <<waiter, errChan, reported>>

(* Idle: no call in progress.  Starting: status is Starting, cmd.Start is   *)
(* next.  Launched: the goroutine runs, status is still to become Running.  *)
(* Marking: Stop has read Running.  Signalling: it has written Stopping.    *)
(* Restoring: the signal failed.  Awaiting: it waits on closeChan.          *)
CallerStates == {"Idle", "Starting", "Launched", "Marking", "Signalling",
                 "Restoring", "Awaiting"}

(* Waiting: inside cmd.Wait.  Reaped: Wait has returned.  Reporting: about  *)
(* to send to errChan.  Settling: about to write Stopped.  Closing: about   *)
(* to close doneChan.                                                       *)
WaiterStates == {"None", "Waiting", "Reaped", "Reporting", "Settling",
                 "Closing", "Done"}

ProcessStates == {"Stopped", "Starting", "Running", "Stopping"}

TypeOK ==
    /\ status \in ProcessStates
    /\ cmd \in 0..MaxRuns
    /\ started \in 0..MaxRuns
    /\ os \in [Runs -> {"Unborn", "Alive", "Dead"}]
    /\ exit \in [Runs -> {"None", "Ok", "Terminated", "Error"}]
    /\ waiter \in [Runs -> WaiterStates]
    /\ caller \in CallerStates
    /\ errChan \in Seq(Runs)
    /\ asked \in SUBSET Runs
    /\ told \in SUBSET Runs
    /\ killed \in SUBSET Runs
    /\ reported \in SUBSET Runs

(* New: a handle that has started nothing. *)
Init ==
    /\ status = "Stopped"
    /\ cmd = 0
    /\ started = 0
    /\ os = [r \in Runs |-> "Unborn"]
    /\ exit = [r \in Runs |-> "None"]
    /\ waiter = [r \in Runs |-> "None"]
    /\ caller = "Idle"
    /\ errChan = <<>>
    /\ asked = {}
    /\ told = {}
    /\ killed = {}
    /\ reported = {}

-----------------------------------------------------------------------------
(* Start.                                                                   *)

(* Mutant of StartBegin: Start does not look at the status. *)
StartBeginUnchecked ==
    /\ caller = "Idle"
    /\ started < MaxRuns
    /\ status' = "Starting"
    /\ caller' = "Starting"
    /\ UNCHANGED <<cmd, started, asked, told, killed, os, exit, waiterVars>>

(* Start on a handle that is Stopped: status becomes Starting.  On any      *)
(* other status Start returns nil and changes nothing.                      *)
StartBegin ==
    /\ caller = "Idle"
    /\ status = "Stopped"
    /\ started < MaxRuns
    /\ status' = "Starting"
    /\ caller' = "Starting"
    /\ UNCHANGED <<cmd, started, asked, told, killed, os, exit, waiterVars>>

(* cmd.Start fails: the handle is Stopped again. *)
StartFails ==
    /\ caller = "Starting"
    /\ status' = "Stopped"
    /\ caller' = "Idle"
    /\ UNCHANGED <<cmd, started, asked, told, killed, os, exit, waiterVars>>

(* cmd.Start succeeds and the run's waitForExit goroutine is launched; the *)
(* status is written afterwards.                                           *)
StartExec ==
    /\ caller = "Starting"
    /\ started' = started + 1
    /\ os' = [os EXCEPT ![started'] = "Alive"]
    /\ waiter' = [waiter EXCEPT ![started'] = "Waiting"]
    /\ caller' = "Launched"
    /\ UNCHANGED <<status, cmd, exit, errChan, asked, told, killed, reported>>

(* Mutant of StartEnd: the command recorded is the one of the next start. *)
StartEndOffByOne ==
    /\ caller = "Launched"
    /\ cmd' = started + 1
    /\ status' = "Running"
    /\ caller' = "Idle"
    /\ UNCHANGED <<started, asked, told, killed, os, exit, waiterVars>>

(* replaceCommand and updateStatus(Running), whatever the goroutine did     *)
(* since it was launched.                                                   *)
StartEnd ==
    /\ caller = "Launched"
    /\ cmd' = started
    /\ status' = "Running"
    /\ caller' = "Idle"
    /\ UNCHANGED <<started, asked, told, killed, os, exit, waiterVars>>

-----------------------------------------------------------------------------
(* Stop.                                                                    *)

(* Stop reads Running and takes the current command.  On any other status   *)
(* it returns nil and changes nothing.                                      *)
StopBegin ==
    /\ caller = "Idle"
    /\ status = "Running"
    /\ cmd # 0
    /\ caller' = "Marking"
    /\ UNCHANGED <<status, cmd, started, asked, told, killed, os, exit, waiterVars>>

(* Mutant of StopMark: Stop forgets updateStatus(Stopping). *)
StopMarkSkipped ==
    /\ caller = "Marking"
    /\ asked' = asked \union {cmd}
    /\ caller' = "Signalling"
    /\ UNCHANGED <<status, cmd, started, told, killed, os, exit, waiterVars>>

(* updateStatus(Stopping). *)
StopMark ==
    /\ caller = "Marking"
    /\ status' = "Stopping"
    /\ asked' = asked \union {cmd}
    /\ caller' = "Signalling"
    /\ UNCHANGED <<cmd, started, told, killed, os, exit, waiterVars>>

(* SIGTERM (or systemctl stop of the run's scope) is delivered unless the   *)
(* run has been reaped, when os.Process.Signal returns ErrProcessDone.      *)
StopSignal ==
    /\ caller = "Signalling"
    /\ waiter[cmd] = "Waiting"
    /\ told' = told \union {cmd}
    /\ caller' = "Awaiting"
    /\ UNCHANGED <<status, cmd, started, asked, killed, os, exit, waiterVars>>

StopSignalFails ==
    /\ caller = "Signalling"
    /\ waiter[cmd] # "Waiting"
    /\ caller' = "Restoring"
    /\ UNCHANGED <<status, cmd, started, asked, told, killed, os, exit, waiterVars>>

(* updateStatus(Running), and Stop returns the error. *)
StopRestore ==
    /\ caller = "Restoring"
    /\ status' = "Running"
    /\ caller' = "Idle"
    /\ UNCHANGED <<cmd, started, asked, told, killed, os, exit, waiterVars>>

(* closeChan is closed: Stop returns nil. *)
StopDone ==
    /\ caller = "Awaiting"
    /\ waiter[cmd] = "Done"
    /\ caller' = "Idle"
    /\ UNCHANGED <<status, cmd, started, asked, told, killed, os, exit, waiterVars>>

(* Mutant of StopTimeout: no 10 s limit. *)
StopTimeoutNever == FALSE /\ UNCHANGED vars

(* Mutant of StopTimeout: Stop settles the status itself after SIGKILL. *)
StopTimeoutSettles ==
    /\ caller = "Awaiting"
    /\ waiter[cmd] # "Done"
    /\ killed' = killed \union {cmd}
    /\ caller' = "Idle"
    /\ status' = "Stopped"
    /\ UNCHANGED <<cmd, started, asked, told, os, exit, waiterVars>>

(* Ten seconds have passed: SIGKILL, and Stop returns nil at once. *)
StopTimeout ==
    /\ caller = "Awaiting"
    /\ waiter[cmd] # "Done"
    /\ killed' = killed \union {cmd}
    /\ caller' = "Idle"
    /\ UNCHANGED <<status, cmd, started, asked, told, os, exit, waiterVars>>

-----------------------------------------------------------------------------
(* The operating system and waitForExit.                                    *)

(* A live process ends: by itself with or without an error, because someone *)
(* sent SIGTERM (Stop, or a user of the host), or because Stop sent SIGKILL.*)
Exit(r) ==
    /\ os[r] = "Alive"
    /\ os' = [os EXCEPT ![r] = "Dead"]
    /\ \E e \in {"Ok", "Terminated", "Error"} : exit' = [exit EXCEPT ![r] = e]
    /\ UNCHANGED <<status, callerVars, waiterVars>>

(* cmd.Wait returns. *)
Reap(r) ==
    /\ waiter[r] = "Waiting"
    /\ os[r] = "Dead"
    /\ waiter' = [waiter EXCEPT ![r] = "Reaped"]
    /\ UNCHANGED <<status, callerVars, os, exit, errChan, reported>>

(* Mutant of IsCrash: a run that dies while the handle is still Starting    *)
(* does not count.                                                          *)
IsCrashOnlyRunning(r) == exit[r] = "Error" /\ status = "Running"

(* The goroutine reads the status once and decides whether the exit is a    *)
(* crash: an error, not a SIGTERM, that no Stop asked for.                  *)
IsCrash(r) ==
    /\ exit[r] = "Error"
    /\ status \notin {"Stopping", "Stopped"}

Classify(r) ==
    /\ waiter[r] = "Reaped"
    /\ waiter' = [waiter EXCEPT ![r] = IF IsCrash(r) THEN "Reporting" ELSE "Settling"]
    /\ UNCHANGED <<status, callerVars, os, exit, errChan, reported>>

(* Mutant of Report: the send keeps one slot of the channel free. *)
ReportKeepsSlot(r) ==
    /\ waiter[r] = "Reporting"
    /\ Len(errChan) + 1 < ErrCap
    /\ errChan' = Append(errChan, r)
    /\ reported' = reported \union {r}
    /\ waiter' = [waiter EXCEPT ![r] = "Settling"]
    /\ UNCHANGED <<status, callerVars, os, exit>>

(* The send to errChan blocks while the channel is full. *)
Report(r) ==
    /\ waiter[r] = "Reporting"
    /\ Len(errChan) < ErrCap
    /\ errChan' = Append(errChan, r)
    /\ reported' = reported \union {r}
    /\ waiter' = [waiter EXCEPT ![r] = "Settling"]
    /\ UNCHANGED <<status, callerVars, os, exit>>

(* updateStatus(Stopped). *)
Settle(r) ==
    /\ waiter[r] = "Settling"
    /\ status' = "Stopped"
    /\ waiter' = [waiter EXCEPT ![r] = "Closing"]
    /\ UNCHANGED <<callerVars, os, exit, errChan, reported>>

(* close(doneChan). *)
Close(r) ==
    /\ waiter[r] = "Closing"
    /\ waiter' = [waiter EXCEPT ![r] = "Done"]
    /\ UNCHANGED <<status, callerVars, os, exit, errChan, reported>>

(* The launcher's handleServiceErrors receives a report. *)
Receive ==
    /\ errChan # <<>>
    /\ errChan' = Tail(errChan)
    /\ UNCHANGED <<status, callerVars, os, exit, waiter, reported>>

-----------------------------------------------------------------------------
StopStep ==
    \/ StopMark \/ StopSignal \/ StopSignalFails
    \/ StopRestore \/ StopDone \/ StopTimeout

StartStep == StartFails \/ StartExec \/ StartEnd

WaitForExit(r) == Reap(r) \/ Classify(r) \/ Report(r) \/ Settle(r) \/ Close(r)

Next ==
    \/ StartBegin \/ StopBegin
    \/ StartStep \/ StopStep
    \/ \E r \in Runs : Exit(r) \/ WaitForExit(r)
    \/ Receive

Spec == Init /\ [][Next]_vars

(* A call that has begun goes on, goroutines are scheduled, the receiver of *)
(* errChan keeps receiving, and the kernel ends a process it has killed.    *)
(* Nobody has to call Start or Stop, and a process told to terminate need   *)
(* not obey.                                                                *)
Fairness ==
    /\ WF_vars(StartStep)
    /\ WF_vars(StopStep)
    /\ WF_vars(Receive)
    /\ \A r \in Runs : WF_vars(WaitForExit(r))
    /\ \A r \in Runs : WF_vars(r \in killed /\ Exit(r))

FairSpec == Spec /\ Fairness

-----------------------------------------------------------------------------
(* Properties.                                                              *)

(* Two servers on one SQLite directory would corrupt it: whatever the order *)
(* of starts, stops, timeouts and exits, a handle never has two live        *)
(* processes.                                                               *)
OneLiveRun == \A r, q \in Runs : os[r] = "Alive" /\ os[q] = "Alive" => r = q

(* A handle that says Stopped has no live process, though it says so from   *)
(* three places: a failed Start, a goroutine, and New.                      *)
StoppedMeansGone == status = "Stopped" => \A r \in Runs : os[r] # "Alive"

(* A run that dies with an error and that no Stop set out to stop is        *)
(* reported before its handle is released.                                  *)
CrashIsReported ==
    \A r \in Runs :
        /\ waiter[r] \in {"Closing", "Done"}
        /\ exit[r] = "Error"
        /\ r \notin asked
        => r \in reported

(* Stop returns, also when the process ignores SIGTERM. *)
StopReturns ==
    (caller \in {"Marking", "Signalling", "Restoring", "Awaiting"}) ~> (caller = "Idle")

(* Every process that ended is eventually reaped and its channel closed:    *)
(* no goroutine is stuck on errChan.                                        *)
WaiterFinishes == \A r \in Runs : (os[r] = "Dead") ~> (waiter[r] = "Done")

(* The handle implements SingleServer: the goroutines, the status and the   *)
(* channel never let a second server run beside the first, nor publish a    *)
(* crash for a server that was told to stop.                                *)
Server == INSTANCE SingleServer WITH
    live <- {r \in Runs : os[r] = "Alive"},
    gone <- {r \in Runs : os[r] = "Dead"}

ImplementsSingleServer == Server!Spec

(* What service_process_test.go expects after a process has died by itself  *)
(* and its goroutine has finished: IsRunning is false.                      *)
DeadRunIsNotRunning ==
    (caller = "Idle" /\ cmd # 0 /\ waiter[started] = "Done") => status # "Running"
=============================================================================
