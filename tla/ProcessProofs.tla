---------------------------- MODULE ProcessProofs ----------------------------
(***************************************************************************)
(* Proofs about Process, for every number of runs and channel capacity.    *)
(*                                                                         *)
(* The argument: the status says Stopped only when every goroutine has     *)
(* passed its own updateStatus(Stopped), so a Start that reads Stopped is  *)
(* the only party left; therefore at most one goroutine, that of the last  *)
(* run, is still before that point, and a process is alive only under such *)
(* a goroutine.                                                            *)
(***************************************************************************)
EXTENDS Process, TLAPS

(* The goroutine of r has written Stopped. *)
Settled(r) == waiter[r] \in {"Closing", "Done"}

(* Runs are numbered as they start; unborn ones have no goroutine, and a    *)
(* process lives only under a goroutine that waits for it.                  *)
RunsInv ==
    \A r \in Runs :
        /\ r > started <=> os[r] = "Unborn"
        /\ r > started <=> waiter[r] = "None"
        /\ os[r] = "Alive" => waiter[r] = "Waiting"

(* Only the last run can still have an unsettled goroutine. *)
LastRunInv == \A r \in Runs : r < started => Settled(r)

(* Stopped, and the gap in which Start is about to launch, mean that every  *)
(* goroutine has settled.                                                   *)
StoppedInv ==
    status = "Stopped" \/ caller = "Starting"
        => \A r \in Runs : r <= started => Settled(r)

(* The caller's command is that of the last run, except while Start has     *)
(* launched one it has not yet recorded.                                    *)
CallerInv ==
    /\ caller = "Starting" => started < MaxRuns /\ status = "Starting"
    /\ caller = "Launched" => started > 0 /\ cmd = started - 1
    /\ caller # "Launched" => cmd = started
    /\ caller \in {"Marking", "Signalling", "Restoring", "Awaiting"} => cmd # 0

SlotInv == TypeOK /\ RunsInv /\ LastRunInv /\ StoppedInv /\ CallerInv

-----------------------------------------------------------------------------
LEMMA SlotInit == Init => SlotInv
  BY MaxRunsAssumption DEF Init, SlotInv, TypeOK, RunsInv, LastRunInv, StoppedInv,
       CallerInv, Settled, Runs, ProcessStates, WaiterStates, CallerStates

(* Every step preserves the invariant; one step of the proof per action. *)
LEMMA SlotStep == SlotInv /\ [Next]_vars => SlotInv'
<1> SUFFICES ASSUME SlotInv, [Next]_vars
             PROVE  SlotInv'
  OBVIOUS
<1> USE MaxRunsAssumption
     DEF SlotInv, TypeOK, RunsInv, LastRunInv, StoppedInv, CallerInv, Settled,
         Runs, ProcessStates, WaiterStates, CallerStates, waiterVars
<1>1. CASE StartBegin
  BY <1>1 DEF StartBegin
<1>2. CASE StopBegin
  BY <1>2 DEF StopBegin
<1>3. CASE StartFails
  BY <1>3 DEF StartFails
<1>4. CASE StartExec
  <2>0. started \in 0..MaxRuns /\ started' = started + 1 /\ started' \in Runs
    BY <1>4 DEF StartExec
  <2>1. TypeOK'
    BY <1>4, <2>0 DEF StartExec
  <2>2. /\ os' = [os EXCEPT ![started'] = "Alive"]
        /\ waiter' = [waiter EXCEPT ![started'] = "Waiting"]
        /\ \A r \in Runs : r <= started => Settled(r)
    BY <1>4, <2>0 DEF StartExec
  <2>3. RunsInv' /\ LastRunInv'
    BY <2>0, <2>2
  <2>4. StoppedInv' /\ CallerInv'
    BY <1>4, <2>0 DEF StartExec
  <2>5. QED
    BY <2>1, <2>3, <2>4
<1>5. CASE StartEnd
  <2>1. TypeOK'
    BY <1>5 DEF StartEnd
  <2>2. UNCHANGED <<started, os, waiter>>
    BY <1>5 DEF StartEnd
  <2>3. RunsInv' /\ LastRunInv'
    BY <2>2
  <2>4. StoppedInv' /\ CallerInv'
    BY <1>5, <2>2 DEF StartEnd
  <2>5. QED
    BY <2>1, <2>3, <2>4
<1>6. CASE StopMark
  BY <1>6 DEF StopMark
<1>7. CASE StopSignal \/ StopSignalFails
  <2>0. cmd \in Runs
    BY <1>7 DEF StopSignal, StopSignalFails
  <2>1. TypeOK'
    BY <1>7, <2>0 DEF StopSignal, StopSignalFails
  <2>2. UNCHANGED <<started, os, waiter>>
    BY <1>7 DEF StopSignal, StopSignalFails
  <2>3. RunsInv' /\ LastRunInv'
    BY <2>2
  <2>4. StoppedInv' /\ CallerInv'
    BY <1>7, <2>2 DEF StopSignal, StopSignalFails
  <2>5. QED
    BY <2>1, <2>3, <2>4
<1>8. CASE StopRestore
  BY <1>8 DEF StopRestore
<1>9. CASE StopDone \/ StopTimeout
  <2>0. cmd \in Runs
    BY <1>9 DEF StopDone, StopTimeout
  <2>1. TypeOK'
    BY <1>9, <2>0 DEF StopDone, StopTimeout
  <2>2. UNCHANGED <<started, os, waiter>>
    BY <1>9 DEF StopDone, StopTimeout
  <2>3. RunsInv' /\ LastRunInv'
    BY <2>2
  <2>4. StoppedInv' /\ CallerInv'
    BY <1>9, <2>2 DEF StopDone, StopTimeout
  <2>5. QED
    BY <2>1, <2>3, <2>4
<1>10. ASSUME NEW r \in Runs, Exit(r) PROVE SlotInv'
  BY <1>10 DEF Exit, callerVars
<1>11. ASSUME NEW r \in Runs, Reap(r) PROVE SlotInv'
  BY <1>11 DEF Reap, callerVars
<1>12. ASSUME NEW r \in Runs, Classify(r) PROVE SlotInv'
  BY <1>12 DEF Classify, callerVars
<1>13. ASSUME NEW r \in Runs, Report(r) PROVE SlotInv'
  BY <1>13 DEF Report, callerVars
<1>14. ASSUME NEW r \in Runs, Settle(r) PROVE SlotInv'
  BY <1>14 DEF Settle, callerVars
<1>15. ASSUME NEW r \in Runs, Close(r) PROVE SlotInv'
  BY <1>15 DEF Close, callerVars
<1>16. CASE Receive
  BY <1>16 DEF Receive, callerVars
<1>17. CASE UNCHANGED vars
  BY <1>17 DEF vars
<1>18. QED
  BY <1>1, <1>2, <1>3, <1>4, <1>5, <1>6, <1>7, <1>8, <1>9, <1>10, <1>11, <1>12,
     <1>13, <1>14, <1>15, <1>16, <1>17
     DEF Next, StartStep, StopStep, WaitForExit

LEMMA SlotInvariant == Spec => []SlotInv
  BY SlotInit, SlotStep, PTL DEF Spec

(* Every variable keeps its type. *)
THEOREM TypeCorrect == Spec => []TypeOK
  BY SlotInvariant, PTL DEF SlotInv

(* A handle that says Stopped has no live process. *)
THEOREM StoppedIsGone == Spec => []StoppedMeansGone
<1>1. SlotInv => StoppedMeansGone
  BY MaxRunsAssumption
     DEF SlotInv, TypeOK, RunsInv, StoppedInv, Settled, StoppedMeansGone, Runs
<1>2. QED
  BY <1>1, SlotInvariant, PTL

(* A handle never has two live processes. *)
THEOREM OneLive == Spec => []OneLiveRun
<1>1. SlotInv => OneLiveRun
  BY MaxRunsAssumption
     DEF SlotInv, TypeOK, RunsInv, LastRunInv, Settled, OneLiveRun, Runs
<1>2. QED
  BY <1>1, SlotInvariant, PTL
-----------------------------------------------------------------------------
(* Crash reports.                                                           *)

(* A run that was told to stop and is not yet classified has its handle in  *)
(* Stopping, so it will not be classified as a crash.                       *)
ToldInv ==
    /\ \A r \in told :
        /\ os[r] # "Unborn"
        /\ waiter[r] # "Reporting"
        /\ waiter[r] \in {"Waiting", "Reaped"} =>
              status = "Stopping" /\ caller \in {"Awaiting", "Idle"}
    /\ caller = "Signalling" /\ waiter[cmd] = "Waiting" => status = "Stopping"

(* A reported run is classified and was never told to stop. *)
ReportedInv ==
    \A r \in reported : waiter[r] \in {"Settling", "Closing", "Done"} /\ r \notin told

(* Stopping, while a run is unsettled, is the mark of a Stop on that run; a *)
(* classified error that no Stop asked for is reported or about to be.      *)
CrashInv ==
    /\ \A r \in Runs : status = "Stopping" /\ r = started /\ ~Settled(r) => r \in asked
    /\ \A r \in Runs :
        /\ waiter[r] \in {"Settling", "Closing", "Done"}
        /\ exit[r] = "Error"
        /\ r \notin asked
        => r \in reported

ReportInv == ToldInv /\ ReportedInv /\ CrashInv

LEMMA ReportInit == Init => ReportInv
  BY DEF Init, ReportInv, ToldInv, ReportedInv, CrashInv, Runs

LEMMA ReportStep == SlotInv /\ ReportInv /\ [Next]_vars => ReportInv'
<1> SUFFICES ASSUME SlotInv, ReportInv, [Next]_vars
             PROVE  ReportInv'
  OBVIOUS
<1> USE MaxRunsAssumption
     DEF SlotInv, TypeOK, RunsInv, LastRunInv, StoppedInv, CallerInv, Settled,
         Runs, ProcessStates, WaiterStates, CallerStates, waiterVars,
         ReportInv, ToldInv, ReportedInv, CrashInv
<1>1. CASE StartBegin
  BY <1>1 DEF StartBegin
<1>2. CASE StopBegin
  BY <1>2 DEF StopBegin
<1>3. CASE StartFails
  BY <1>3 DEF StartFails
<1>4. CASE StartExec
  BY <1>4 DEF StartExec
<1>5. CASE StartEnd
  BY <1>5 DEF StartEnd
<1>6. CASE StopMark
  BY <1>6 DEF StopMark
<1>7. CASE StopSignal
  BY <1>7 DEF StopSignal
<1>8. CASE StopSignalFails
  BY <1>8 DEF StopSignalFails
<1>9. CASE StopRestore
  BY <1>9 DEF StopRestore
<1>10. CASE StopDone
  BY <1>10 DEF StopDone
<1>11. CASE StopTimeout
  BY <1>11 DEF StopTimeout
<1>12. ASSUME NEW r \in Runs, Exit(r) PROVE ReportInv'
  BY <1>12 DEF Exit, callerVars
<1>13. ASSUME NEW r \in Runs, Reap(r) PROVE ReportInv'
  BY <1>13 DEF Reap, callerVars
<1>14. ASSUME NEW r \in Runs, Classify(r) PROVE ReportInv'
  BY <1>14 DEF Classify, callerVars, IsCrash
<1>15. ASSUME NEW r \in Runs, Report(r) PROVE ReportInv'
  BY <1>15 DEF Report, callerVars
<1>16. ASSUME NEW r \in Runs, Settle(r) PROVE ReportInv'
  BY <1>16 DEF Settle, callerVars
<1>17. ASSUME NEW r \in Runs, Close(r) PROVE ReportInv'
  BY <1>17 DEF Close, callerVars
<1>18. CASE Receive
  BY <1>18 DEF Receive, callerVars
<1>19. CASE UNCHANGED vars
  BY <1>19 DEF vars
<1>20. QED
  BY <1>1, <1>2, <1>3, <1>4, <1>5, <1>6, <1>7, <1>8, <1>9, <1>10, <1>11, <1>12,
     <1>13, <1>14, <1>15, <1>16, <1>17, <1>18, <1>19
     DEF Next, StartStep, StopStep, WaitForExit

LEMMA ReportInvariant == Spec => [](SlotInv /\ ReportInv)
  BY SlotInit, SlotStep, ReportInit, ReportStep, PTL DEF Spec

(* A run that dies with an error and that no Stop set out to stop is        *)
(* reported before its handle is released.                                  *)
THEOREM CrashesAreReported == Spec => []CrashIsReported
<1>1. ReportInv => CrashIsReported
  BY DEF ReportInv, CrashInv, CrashIsReported
<1>2. QED
  BY <1>1, ReportInvariant, PTL

-----------------------------------------------------------------------------
(* Refinement: each step of the handle launches or ends a server, tells it  *)
(* to stop, publishes its crash, or leaves the abstract state alone.        *)

LEMMA ServerInit == Init => Server!Init
  BY DEF Init, Server!Init, Runs

LEMMA ServerStep == SlotInv /\ ReportInv /\ [Next]_vars => [Server!Next]_Server!vars
<1> SUFFICES ASSUME SlotInv, ReportInv, [Next]_vars
             PROVE  Server!Next \/ UNCHANGED Server!vars
  OBVIOUS
<1> USE MaxRunsAssumption DEF SlotInv, TypeOK, Runs
<1>1. CASE UNCHANGED <<os, told, reported>>
  BY <1>1 DEF Server!vars
<1>2. CASE StartExec
  <2>1. PICK n \in Runs : n = started + 1
    BY <1>2 DEF StartExec, CallerInv
  <2>2. os' = [os EXCEPT ![n] = "Alive"] /\ UNCHANGED <<told, reported>>
    BY <1>2, <2>1 DEF StartExec
  <2>3. os[n] = "Unborn"
    BY <2>1 DEF RunsInv
  <2>4. \A r \in Runs : os[r] # "Alive"
    BY <1>2 DEF StartExec, StoppedInv, RunsInv, Settled
  <2>5. Server!Launch(n)
    BY <2>2, <2>3, <2>4 DEF Server!Launch
  <2>6. QED
    BY <2>5 DEF Server!Next
<1>3. CASE StopSignal
  <2>0. cmd = started /\ cmd \in Runs
    BY <1>3 DEF StopSignal, CallerInv
  <2>1. cmd \in Runs /\ os[cmd] \in {"Alive", "Dead"} /\ cmd \notin reported
    BY <1>3, <2>0 DEF StopSignal, RunsInv, ReportInv, ReportedInv
  <2>2. Server!Tell(cmd)
    BY <1>3, <2>1 DEF StopSignal, waiterVars, Server!Tell
  <2>3. QED
    BY <2>1, <2>2 DEF Server!Next
<1>4. ASSUME NEW r \in Runs, Exit(r) PROVE Server!Next
  <2>1. Server!End(r)
    BY <1>4 DEF Exit, callerVars, waiterVars, Server!End
  <2>2. QED
    BY <2>1 DEF Server!Next
<1>5. ASSUME NEW r \in Runs, Report(r) PROVE Server!Next \/ UNCHANGED Server!vars
  <2>1. os[r] = "Dead" /\ r \notin told /\ r \notin reported
    BY <1>5 DEF Report, RunsInv, ReportInv, ToldInv, ReportedInv
  <2>2. Server!ReportCrash(r)
    BY <1>5, <2>1 DEF Report, callerVars, Server!ReportCrash
  <2>3. QED
    BY <2>2 DEF Server!Next
<1>6. QED
  BY <1>1, <1>2, <1>3, <1>4, <1>5
     DEF Next, vars, StartStep, StopStep, WaitForExit, StartBegin, StopBegin,
         StartFails, StartEnd, StopMark, StopSignalFails, StopRestore, StopDone,
         StopTimeout, Reap, Classify, Settle, Close, Receive, callerVars, waiterVars

(* The handle implements SingleServer. *)
THEOREM HandleImplementsSingleServer == Spec => ImplementsSingleServer
  BY ServerInit, ServerStep, ReportInvariant, PTL
     DEF Spec, ImplementsSingleServer, Server!Spec
=============================================================================
