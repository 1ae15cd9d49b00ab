--------------------------- MODULE LauncherProofs ---------------------------
(***************************************************************************)
(* Proofs about Launcher, for any services, requests and bounds.           *)
(*                                                                         *)
(* The argument: whoever is inside a long critical section holds rwMtx, so *)
(* while one thread launches or stops a process no other does.  Outside    *)
(* them every child at work is the entry of its service in processList and *)
(* its handle says Running, so the check for a running process at the head *)
(* of startServiceLocked is exact, and a second process is never launched. *)
(* A stop makes the entry, the child and the status go together.  With     *)
(* systemd scopes the launch also ends what an earlier life of PBLauncher  *)
(* left behind.                                                            *)
(***************************************************************************)
EXTENDS Launcher, TLAPS, WellFoundedInduction

(* A thread that stops a process found it in processList. *)
AwaitInv ==
    \A t \in Threads : pc[t] \in {"Awaiting", "Restoring"} => list[target[t]] # 0

(* A batch of commands has a first one: GetPendingCommands, order by created. *)
LEMMA FirstOfBatch ==
  ASSUME TypeOK, batch # {}
  PROVE  NextInBatch \in batch /\ \A i \in batch : NextInBatch <= i
<1> DEFINE R == {ss \in Nat \X Nat : ss[1] < ss[2]}
<1>1. batch \subseteq Nat
  BY DEF TypeOK, RunnerTypes
<1>2. IsWellFoundedOn(R, Nat)
  BY NatLessThanWellFounded DEF OpToRel
<1> HIDE DEF R
<1>3. PICK i \in batch : \A j \in batch : <<j, i>> \notin R
  BY <1>1, <1>2, WFMin
<1>4. ASSUME NEW j \in batch PROVE i <= j
  <2>1. i \in Nat /\ j \in Nat
    BY <1>1
  <2>2. <<j, i>> \notin R
    BY <1>3
  <2>3. ~ (j < i)
    BY <2>1, <2>2 DEF R
  <2>4. QED
    BY <2>1, <2>3
<1>5. QED
  BY <1>4 DEF NextInBatch

-----------------------------------------------------------------------------
(* Types.                                                                   *)

LEMMA TypeInit == Init => TypeOK
<1> SUFFICES ASSUME Init PROVE TypeOK
  OBVIOUS
<1>0. AService \in Services
  BY LauncherAssumption DEF AService
<1>1. StoreTypes
  <2>1. dbStatus \in [Services -> Statuses]
    BY LauncherAssumption DEF Init, Statuses
  <2>2. cmds \in Seq(Command)
    BY DEF Init
  <2>3. QED
    BY <2>1, <2>2, LauncherAssumption DEF Init, StoreTypes
<1>2. ProcTypes
  BY <1>0, LauncherAssumption DEF Init, ProcTypes, HandleStates, WaiterStates
<1>3. ThreadTypes
  BY <1>0, LauncherAssumption DEF Init, ThreadTypes, Positions, NoRecord, Statuses
<1>4. RunnerTypes
  <2>1. Len(cmds) = 0
    BY DEF Init
  <2>2. QED
    BY <2>1 DEF Init, RunnerTypes
<1>5. recovered \in BOOLEAN
  BY DEF Init
<1> QED
  BY <1>1, <1>2, <1>3, <1>4, <1>5 DEF TypeOK

(* Every step preserves the types; one step of the proof per action, and   *)
(* under it one per group of variables.                                    *)
LEMMA TypeStep == TypeOK /\ AwaitInv /\ [Next]_vars => TypeOK'
<1> SUFFICES ASSUME TypeOK, AwaitInv, [Next]_vars
             PROVE  TypeOK'
  OBVIOUS
<1> USE LauncherAssumption
    DEF Statuses, HandleStates, WaiterStates, Positions, dbVars, mapVars, procVars, runnerVars, Goto
<1>1. ASSUME NEW t \in Threads, NEW s \in Services, StartRefused(t, s) PROVE TypeOK'
  <2>1. StoreTypes' /\ ProcTypes'
    BY <1>1, TypeOK DEF StartRefused, StartUnchanged, TypeOK, StoreTypes, ProcTypes
  <2>2. ThreadTypes'
    BY <1>1, TypeOK
       DEF StartRefused, StartUnchanged, AfterFailedStart, Drop, NoRecord, TypeOK,
           ThreadTypes
  <2>3. RunnerTypes'
    BY <1>1, TypeOK DEF StartRefused, StartUnchanged, TodoAfter, TypeOK, RunnerTypes
  <2>4. (recovered \in BOOLEAN)'
    BY <1>1, TypeOK DEF StartRefused, StartUnchanged, TypeOK
  <2>5. QED
    BY <2>1, <2>2, <2>3, <2>4 DEF TypeOK
<1>2. ASSUME NEW t \in Threads, NEW s \in Services, StartFails(t, s) PROVE TypeOK'
  <2>1. StoreTypes'
    BY <1>2, TypeOK DEF StartFails, StartUnchanged, Fault, TypeOK, StoreTypes
  <2>2. ProcTypes'
    BY <1>2, TypeOK DEF StartFails, StartUnchanged, TypeOK, ProcTypes
  <2>3. ThreadTypes'
    BY <1>2, TypeOK
       DEF StartFails, StartUnchanged, AfterFailedStart, Drop, NoRecord, TypeOK,
           ThreadTypes
  <2>4. RunnerTypes'
    BY <1>2, TypeOK DEF StartFails, StartUnchanged, TodoAfter, TypeOK, RunnerTypes
  <2>5. (recovered \in BOOLEAN)'
    BY <1>2, TypeOK DEF StartFails, StartUnchanged, TypeOK
  <2>6. QED
    BY <2>1, <2>2, <2>3, <2>4, <2>5 DEF TypeOK
<1>3. ASSUME NEW t \in Threads, NEW s \in Services, StartLaunches(t, s) PROVE TypeOK'
  <2>1. StoreTypes'
    BY <1>3, TypeOK DEF StartLaunches, MayLaunch, StartUnchanged, TypeOK, StoreTypes
  <2>2. ProcTypes'
    <3>1. born \in 0..MaxProcs /\ born' = born + 1 /\ born' \in Procs
      BY <1>3 DEF StartLaunches, MayLaunch, Procs, TypeOK, ProcTypes
    <3>2. owner' \in [Procs -> Services] /\ pstate' \in [Procs -> HandleStates]
      BY <1>3, <3>1 DEF StartLaunches, TypeOK, ProcTypes
    <3>3. waiter' \in [Procs -> WaiterStates] /\ killed' \in SUBSET Procs
      BY <1>3, <3>1 DEF StartLaunches, TypeOK, ProcTypes
    <3>4. UNCHANGED <<list, activity, errChan, failed>>
      BY <1>3 DEF StartLaunches, StartUnchanged
    <3>5. QED
      BY <3>1, <3>2, <3>3, <3>4 DEF Procs, TypeOK, ProcTypes
  <2>3. ThreadTypes'
    BY <1>3, TypeOK
       DEF StartLaunches, MayLaunch, StartUnchanged, Drop, NoRecord, TypeOK, ThreadTypes
  <2>4. RunnerTypes'
    BY <1>3, TypeOK
       DEF StartLaunches, MayLaunch, StartUnchanged, TodoAfter, TypeOK, RunnerTypes
  <2>5. (recovered \in BOOLEAN)'
    BY <1>3, TypeOK DEF StartLaunches, MayLaunch, StartUnchanged, TypeOK
  <2>6. QED
    BY <2>1, <2>2, <2>3, <2>4, <2>5 DEF TypeOK
<1>4. ASSUME NEW t \in Threads, StartEnds(t) PROVE TypeOK'
  <2>1. StoreTypes'
    BY <1>4, TypeOK DEF StartEnds, Mark, TypeOK, StoreTypes
  <2>2. ProcTypes' /\ RunnerTypes'
    BY <1>4, TypeOK DEF StartEnds, TypeOK, ProcTypes, RunnerTypes
  <2>3. ThreadTypes'
    BY <1>4, TypeOK DEF StartEnds, AfterStart, TypeOK, ThreadTypes
  <2>4. (recovered \in BOOLEAN)'
    BY <1>4, TypeOK DEF StartEnds, TypeOK
  <2>5. QED
    BY <2>1, <2>2, <2>3, <2>4 DEF TypeOK
<1>5. ASSUME NEW t \in Threads, NEW s \in Services, StopNothing(t, s) PROVE TypeOK'
  <2>1. StoreTypes'
    BY <1>5, TypeOK DEF StopNothing, StopUnchanged, Mark, StopStatus, TypeOK, StoreTypes
  <2>2. ProcTypes'
    BY <1>5, TypeOK DEF StopNothing, StopUnchanged, Forget, TypeOK, ProcTypes
  <2>3. ThreadTypes'
    BY <1>5, TypeOK
       DEF StopNothing, StopUnchanged, AfterStop, ToSuspendAfter, TypeOK, ThreadTypes
  <2>4. RunnerTypes'
    BY <1>5, TypeOK DEF StopNothing, StopUnchanged, TypeOK, RunnerTypes
  <2>5. (recovered \in BOOLEAN)'
    BY <1>5, TypeOK DEF StopNothing, StopUnchanged, TypeOK
  <2>6. QED
    BY <2>1, <2>2, <2>3, <2>4, <2>5 DEF TypeOK
<1>6. ASSUME NEW t \in Threads, NEW s \in Services, StopSignals(t, s) PROVE TypeOK'
  <2>1. StoreTypes' /\ RunnerTypes'
    BY <1>6, TypeOK DEF StopSignals, StopUnchanged, TypeOK, StoreTypes, RunnerTypes
  <2>2. ProcTypes'
    BY <1>6, TypeOK DEF StopSignals, StopUnchanged, IsRunning, TypeOK, ProcTypes
  <2>3. ThreadTypes'
    BY <1>6, TypeOK DEF StopSignals, StopUnchanged, ToSuspendAfter, TypeOK, ThreadTypes
  <2>4. (recovered \in BOOLEAN)'
    BY <1>6, TypeOK DEF StopSignals, StopUnchanged, TypeOK
  <2>5. QED
    BY <2>1, <2>2, <2>3, <2>4 DEF TypeOK
<1>7. ASSUME NEW t \in Threads, StopRestores(t) PROVE TypeOK'
  <2>1. StoreTypes' /\ ProcTypes' /\ RunnerTypes'
    BY <1>7, TypeOK
       DEF StopRestores, StopUnchanged, TypeOK, StoreTypes, ProcTypes, RunnerTypes
  <2>2. ThreadTypes'
    BY <1>7, TypeOK
       DEF StopRestores, StopUnchanged, AfterFailedStop, TypeOK, ThreadTypes
  <2>3. (recovered \in BOOLEAN)'
    BY <1>7, TypeOK DEF StopRestores, StopUnchanged, TypeOK
  <2>4. QED
    BY <2>1, <2>2, <2>3 DEF TypeOK
<1>8. ASSUME NEW t \in Threads, StopEnds(t) PROVE TypeOK'
  <2>1. StoreTypes'
    BY <1>8, TypeOK DEF StopEnds, StopUnchanged, Mark, StopStatus, TypeOK, StoreTypes
  <2>2. ProcTypes'
    <3>1. list[target[t]] \in Procs
      BY <1>8, AwaitInv DEF StopEnds, AwaitInv, TypeOK, ProcTypes, ThreadTypes, Procs
    <3>2. killed' \in SUBSET Procs
      BY <1>8, <3>1 DEF StopEnds, TypeOK, ProcTypes
    <3>3. UNCHANGED <<errChan, born, owner, pstate, waiter, failed>>
      BY <1>8 DEF StopEnds, StopUnchanged
    <3>4. list' \in [Services -> 0..MaxProcs] /\ activity' \in [Services -> {"none", "recent", "idle"}]
      <4>1. Forget(target[t])
        BY <1>8 DEF StopEnds
      <4>2. 0 \in 0..MaxProcs
        OBVIOUS
      <4>3. list' \in [Services -> 0..MaxProcs]
        BY <4>1, <4>2 DEF Forget, TypeOK, ProcTypes
      <4>4. activity' \in [Services -> {"none", "recent", "idle"}]
        BY <4>1 DEF Forget, TypeOK, ProcTypes
      <4>5. QED
        BY <4>3, <4>4
    <3>5. QED
      BY <3>2, <3>3, <3>4 DEF TypeOK, ProcTypes
  <2>3. ThreadTypes'
    BY <1>8, TypeOK DEF StopEnds, StopUnchanged, AfterStop, TypeOK, ThreadTypes
  <2>4. RunnerTypes'
    BY <1>8, TypeOK DEF StopEnds, StopUnchanged, TypeOK, RunnerTypes
  <2>5. (recovered \in BOOLEAN)'
    BY <1>8, TypeOK DEF StopEnds, StopUnchanged, TypeOK
  <2>6. QED
    BY <2>1, <2>2, <2>3, <2>4, <2>5 DEF TypeOK
<1>9. CASE RecoveryBegins
  <2>1. StoreTypes'
    BY <1>9, TypeOK DEF RecoveryBegins, RunnerUnchanged, TypeOK, StoreTypes
  <2>2. ProcTypes'
    BY <1>9, TypeOK DEF RecoveryBegins, RunnerUnchanged, TypeOK, ProcTypes
  <2>3. ThreadTypes'
    BY <1>9, TypeOK DEF RecoveryBegins, RunnerUnchanged, Threads, TypeOK, ThreadTypes
  <2>4. RunnerTypes'
    BY <1>9, TypeOK DEF RecoveryBegins, RunnerUnchanged, TypeOK, RunnerTypes
  <2>5. (recovered \in BOOLEAN)'
    BY <1>9, TypeOK DEF RecoveryBegins, RunnerUnchanged, TypeOK
  <2>6. QED
    BY <2>1, <2>2, <2>3, <2>4, <2>5 DEF TypeOK
<1>10. CASE RecoveryEnds
  <2>1. StoreTypes' /\ ProcTypes' /\ ThreadTypes' /\ RunnerTypes'
    BY <1>10, TypeOK
       DEF RecoveryEnds, RunnerUnchanged, TypeOK, StoreTypes, ProcTypes, ThreadTypes,
           RunnerTypes
  <2>2. (recovered \in BOOLEAN)'
    BY <1>10, TypeOK DEF RecoveryEnds, RunnerUnchanged, TypeOK
  <2>3. QED
    BY <2>1, <2>2 DEF TypeOK
<1>11. CASE Fetch
  <2>1. StoreTypes' /\ ProcTypes' /\ ThreadTypes'
    BY <1>11, TypeOK
       DEF Fetch, RunnerUnchanged, TypeOK, StoreTypes, ProcTypes, ThreadTypes
  <2>2. RunnerTypes'
    BY <1>11, TypeOK DEF Fetch, RunnerUnchanged, Pending, TypeOK, RunnerTypes
  <2>3. (recovered \in BOOLEAN)'
    BY <1>11, TypeOK DEF Fetch, RunnerUnchanged, TypeOK
  <2>4. QED
    BY <2>1, <2>2, <2>3 DEF TypeOK
<1>12. CASE Evaluate
  <2>1. StoreTypes' /\ ProcTypes'
    BY <1>12, TypeOK DEF Evaluate, RunnerUnchanged, TypeOK, StoreTypes, ProcTypes
  <2>2. NextInBatch \in batch /\ NextInBatch \in 1..Len(cmds) /\ cmds[NextInBatch] \in Command
    <3>1. NextInBatch \in batch
      BY <1>12, FirstOfBatch DEF Evaluate
    <3>2. NextInBatch \in 1..Len(cmds) /\ cmds \in Seq(Command)
      BY <3>1 DEF TypeOK, RunnerTypes, StoreTypes
    <3>3. QED
      BY <3>1, <3>2
  <2>3. ThreadTypes'
    <3>1. cmds[NextInBatch].service \in Services /\ FirstStep(cmds[NextInBatch]) \in Positions
      BY <2>2 DEF Command, FirstStep
    <3>2. QED
      BY <1>12, <3>1 DEF Evaluate, RunnerUnchanged, TypeOK, ThreadTypes
  <2>4. RunnerTypes'
    BY <1>12, <2>2 DEF Evaluate, RunnerUnchanged, TypeOK, RunnerTypes
  <2>5. (recovered \in BOOLEAN)'
    BY <1>12, TypeOK DEF Evaluate, RunnerUnchanged, TypeOK
  <2>6. QED
    BY <2>1, <2>3, <2>4, <2>5 DEF TypeOK
<1>13. CASE UpgradeRefused
  <2>1. StoreTypes' /\ ProcTypes' /\ ThreadTypes' /\ RunnerTypes'
    BY <1>13, TypeOK
       DEF UpgradeRefused, RunnerUnchanged, TypeOK, StoreTypes, ProcTypes, ThreadTypes,
           RunnerTypes
  <2>2. (recovered \in BOOLEAN)'
    BY <1>13, TypeOK DEF UpgradeRefused, RunnerUnchanged, TypeOK
  <2>3. QED
    BY <2>1, <2>2 DEF TypeOK
<1>14. CASE UpgradeWrites
  <2>1. StoreTypes'
    <3>1. target["runner"] \in Services
      BY DEF TypeOK, ThreadTypes, Threads
    <3>2. QED
      BY <1>14, <3>1 DEF UpgradeWrites, RunnerUnchanged, TypeOK, StoreTypes
  <2>2. ProcTypes' /\ ThreadTypes' /\ RunnerTypes'
    BY <1>14, TypeOK
       DEF UpgradeWrites, RunnerUnchanged, TypeOK, ProcTypes, ThreadTypes, RunnerTypes
  <2>3. (recovered \in BOOLEAN)'
    BY <1>14, TypeOK DEF UpgradeWrites, RunnerUnchanged, TypeOK
  <2>4. QED
    BY <2>1, <2>2, <2>3 DEF TypeOK
<1>15. CASE Finish
  <2>1. StoreTypes'
    <3>1. cmds' \in Seq(Command)
      <4>1. cmds \in [1..Len(cmds) -> Command] /\ Len(cmds) \in Nat
        BY DEF TypeOK, StoreTypes
      <4>2. CASE cmds' = cmds
        BY <4>1, <4>2
      <4>3. ASSUME NEW x \in {"success", "error"},
                   cmds' = [cmds EXCEPT ![executing].status = x]
            PROVE  cmds' \in Seq(Command)
        <5>1. ASSUME NEW i \in 1..Len(cmds) PROVE [cmds[i] EXCEPT !.status = x] \in Command
          BY <4>1 DEF Command
        <5>2. cmds' \in [1..Len(cmds) -> Command]
          BY <4>1, <4>3, <5>1
        <5>3. QED
          BY <4>1, <5>2
      <4>4. QED
        BY <1>15, <4>2, <4>3 DEF Finish
    <3>2. QED
      BY <1>15, <3>1 DEF Finish, RunnerUnchanged, TypeOK, StoreTypes
  <2>2. ProcTypes'
    BY <1>15, TypeOK DEF Finish, RunnerUnchanged, TypeOK, ProcTypes
  <2>3. ThreadTypes'
    BY <1>15, TypeOK DEF Finish, RunnerUnchanged, TypeOK, ThreadTypes
  <2>4. RunnerTypes'
    BY <1>15, TypeOK DEF Finish, RunnerUnchanged, StoreTypes, TypeOK, RunnerTypes
  <2>5. (recovered \in BOOLEAN)'
    BY <1>15, TypeOK DEF Finish, RunnerUnchanged, TypeOK
  <2>6. QED
    BY <2>1, <2>2, <2>3, <2>4, <2>5 DEF TypeOK
<1>16. CASE Tick
  <2>1. StoreTypes' /\ ProcTypes' /\ ThreadTypes' /\ RunnerTypes'
    BY <1>16, TypeOK DEF Tick, TypeOK, StoreTypes, ProcTypes, ThreadTypes, RunnerTypes
  <2>2. (recovered \in BOOLEAN)'
    BY <1>16, TypeOK DEF Tick, TypeOK
  <2>3. QED
    BY <2>1, <2>2 DEF TypeOK
<1>17. CASE TickEnds
  <2>1. StoreTypes' /\ ProcTypes' /\ ThreadTypes' /\ RunnerTypes'
    BY <1>17, TypeOK
       DEF TickEnds, TypeOK, StoreTypes, ProcTypes, ThreadTypes, RunnerTypes
  <2>2. (recovered \in BOOLEAN)'
    BY <1>17, TypeOK DEF TickEnds, TypeOK
  <2>3. QED
    BY <2>1, <2>2 DEF TypeOK
<1>18. ASSUME NEW s \in Services, Age(s) PROVE TypeOK'
  <2>1. StoreTypes' /\ ProcTypes' /\ ThreadTypes' /\ RunnerTypes'
    BY <1>18, TypeOK DEF Age, TypeOK, StoreTypes, ProcTypes, ThreadTypes, RunnerTypes
  <2>2. (recovered \in BOOLEAN)'
    BY <1>18, TypeOK DEF Age, TypeOK
  <2>3. QED
    BY <2>1, <2>2 DEF TypeOK
<1>19. ASSUME NEW r \in Requests, NEW s \in Services, Route(r, s) PROVE TypeOK'
  <2>1. StoreTypes' /\ ProcTypes' /\ ThreadTypes' /\ RunnerTypes'
    BY <1>19, TypeOK
       DEF Route, RequestUnchanged, TypeOK, StoreTypes, ProcTypes, ThreadTypes,
           RunnerTypes
  <2>2. (recovered \in BOOLEAN)'
    BY <1>19, TypeOK DEF Route, RequestUnchanged, TypeOK
  <2>3. QED
    BY <2>1, <2>2 DEF TypeOK
<1>20. ASSUME NEW r \in Requests, NEW s \in Services, WakeReads(r, s) PROVE TypeOK'
  <2>1. StoreTypes' /\ ProcTypes' /\ RunnerTypes'
    BY <1>20, TypeOK
       DEF WakeReads, RequestUnchanged, TypeOK, StoreTypes, ProcTypes, RunnerTypes
  <2>2. ThreadTypes'
    BY <1>20, TypeOK
       DEF WakeReads, RequestUnchanged, Threads, StoreTypes, TypeOK, ThreadTypes
  <2>3. (recovered \in BOOLEAN)'
    BY <1>20, TypeOK DEF WakeReads, RequestUnchanged, TypeOK
  <2>4. QED
    BY <2>1, <2>2, <2>3 DEF TypeOK
<1>21. ASSUME NEW r \in Requests, WakeFindsRunning(r) PROVE TypeOK'
  <2>1. StoreTypes' /\ ProcTypes' /\ RunnerTypes'
    BY <1>21, TypeOK
       DEF WakeFindsRunning, RequestUnchanged, TypeOK, StoreTypes, ProcTypes, RunnerTypes
  <2>2. ThreadTypes'
    BY <1>21, TypeOK
       DEF WakeFindsRunning, RequestUnchanged, Drop, NoRecord, TypeOK, ThreadTypes
  <2>3. (recovered \in BOOLEAN)'
    BY <1>21, TypeOK DEF WakeFindsRunning, RequestUnchanged, TypeOK
  <2>4. QED
    BY <2>1, <2>2, <2>3 DEF TypeOK
<1>22. ASSUME NEW r \in Requests, WakeRefused(r) PROVE TypeOK'
  <2>1. StoreTypes' /\ ProcTypes' /\ RunnerTypes'
    BY <1>22, TypeOK
       DEF WakeRefused, RequestUnchanged, TypeOK, StoreTypes, ProcTypes, RunnerTypes
  <2>2. ThreadTypes'
    BY <1>22, TypeOK
       DEF WakeRefused, RequestUnchanged, Drop, NoRecord, TypeOK, ThreadTypes
  <2>3. (recovered \in BOOLEAN)'
    BY <1>22, TypeOK DEF WakeRefused, RequestUnchanged, TypeOK
  <2>4. QED
    BY <2>1, <2>2, <2>3 DEF TypeOK
<1>23. ASSUME NEW r \in Requests, WakeChecks(r) PROVE TypeOK'
  <2>1. StoreTypes'
    BY <1>23, TypeOK DEF WakeChecks, RequestUnchanged, TypeOK, StoreTypes
  <2>2. ProcTypes'
    BY <1>23, TypeOK DEF WakeChecks, RequestUnchanged, TypeOK, ProcTypes
  <2>3. ThreadTypes'
    BY <1>23, TypeOK DEF WakeChecks, RequestUnchanged, TypeOK, ThreadTypes
  <2>4. RunnerTypes'
    BY <1>23, TypeOK DEF WakeChecks, RequestUnchanged, TypeOK, RunnerTypes
  <2>5. (recovered \in BOOLEAN)'
    BY <1>23, TypeOK DEF WakeChecks, RequestUnchanged, TypeOK
  <2>6. QED
    BY <2>1, <2>2, <2>3, <2>4, <2>5 DEF TypeOK
<1>24. ASSUME NEW r \in Requests, Touch(r) PROVE TypeOK'
  <2>1. StoreTypes' /\ ProcTypes' /\ ThreadTypes' /\ RunnerTypes'
    BY <1>24, TypeOK
       DEF Touch, RequestUnchanged, TypeOK, StoreTypes, ProcTypes, ThreadTypes,
           RunnerTypes
  <2>2. (recovered \in BOOLEAN)'
    BY <1>24, TypeOK DEF Touch, RequestUnchanged, TypeOK
  <2>3. QED
    BY <2>1, <2>2 DEF TypeOK
<1>25. CASE ReportReceived
  <2>0. Head(errChan) \in Services /\ errChan' \in Seq(Services)
    BY <1>25 DEF ReportReceived, TypeOK, ProcTypes
  <2>1. StoreTypes'
    <3>1. dbStatus' \in [Services -> Statuses]
      BY <1>25, <2>0 DEF ReportReceived, TypeOK, StoreTypes
    <3>2. faults' \in 0..MaxFaults /\ UNCHANGED <<dbRelease, cmds, crashes>>
      BY <1>25 DEF ReportReceived, ErrorsUnchanged, TypeOK, StoreTypes
    <3>3. QED
      BY <3>1, <3>2 DEF TypeOK, StoreTypes
  <2>2. ProcTypes' /\ RunnerTypes'
    BY <1>25, TypeOK DEF ReportReceived, ErrorsUnchanged, TypeOK, ProcTypes, RunnerTypes
  <2>3. ThreadTypes'
    BY <1>25, <2>0 DEF ReportReceived, ErrorsUnchanged, Threads, TypeOK, ThreadTypes
  <2>4. (recovered \in BOOLEAN)'
    BY <1>25, TypeOK DEF ReportReceived, ErrorsUnchanged, TypeOK
  <2>5. QED
    BY <2>1, <2>2, <2>3, <2>4 DEF TypeOK
<1>26. CASE RestartPublished
  <2>1. StoreTypes'
    <3>1. target["errors"] \in Services
      BY DEF TypeOK, ThreadTypes, Threads
    <3>2. cmds' \in Seq(Command)
      <4>1. [service |-> target["errors"], action |-> "start", status |-> "pending",
             by |-> "errors"] \in Command
        BY <3>1 DEF Command
      <4>2. QED
        BY <1>26, <4>1 DEF RestartPublished, TypeOK, StoreTypes
    <3>3. QED
      BY <1>26, <3>2 DEF RestartPublished, ErrorsUnchanged, TypeOK, StoreTypes
  <2>2. ProcTypes'
    BY <1>26, TypeOK DEF RestartPublished, ErrorsUnchanged, TypeOK, ProcTypes
  <2>3. ThreadTypes'
    BY <1>26, TypeOK DEF RestartPublished, ErrorsUnchanged, TypeOK, ThreadTypes
  <2>4. RunnerTypes'
    BY <1>26, TypeOK
       DEF RestartPublished, ErrorsUnchanged, StoreTypes, TypeOK, RunnerTypes
  <2>5. (recovered \in BOOLEAN)'
    BY <1>26, TypeOK DEF RestartPublished, ErrorsUnchanged, TypeOK
  <2>6. QED
    BY <2>1, <2>2, <2>3, <2>4, <2>5 DEF TypeOK
<1>27. ASSUME NEW p \in Procs, Exit(p) PROVE TypeOK'
  <2>1. StoreTypes' /\ ProcTypes' /\ ThreadTypes' /\ RunnerTypes'
    BY <1>27, TypeOK
       DEF Exit, ProcUnchanged, TypeOK, StoreTypes, ProcTypes, ThreadTypes, RunnerTypes
  <2>2. (recovered \in BOOLEAN)'
    BY <1>27, TypeOK DEF Exit, ProcUnchanged, TypeOK
  <2>3. QED
    BY <2>1, <2>2 DEF TypeOK
<1>28. ASSUME NEW p \in Procs, OrphanExits(p) PROVE TypeOK'
  <2>1. StoreTypes' /\ ProcTypes' /\ ThreadTypes' /\ RunnerTypes'
    BY <1>28, TypeOK
       DEF OrphanExits, ProcUnchanged, TypeOK, StoreTypes, ProcTypes, ThreadTypes,
           RunnerTypes
  <2>2. (recovered \in BOOLEAN)'
    BY <1>28, TypeOK DEF OrphanExits, ProcUnchanged, TypeOK
  <2>3. QED
    BY <2>1, <2>2 DEF TypeOK
<1>29. ASSUME NEW p \in Procs, Classify(p) PROVE TypeOK'
  <2>1. StoreTypes' /\ ProcTypes' /\ ThreadTypes' /\ RunnerTypes'
    BY <1>29, TypeOK
       DEF Classify, ProcUnchanged, TypeOK, StoreTypes, ProcTypes, ThreadTypes,
           RunnerTypes
  <2>2. (recovered \in BOOLEAN)'
    BY <1>29, TypeOK DEF Classify, ProcUnchanged, TypeOK
  <2>3. QED
    BY <2>1, <2>2 DEF TypeOK
<1>30. ASSUME NEW p \in Procs, Report(p) PROVE TypeOK'
  <2>1. StoreTypes' /\ ProcTypes' /\ ThreadTypes' /\ RunnerTypes'
    BY <1>30, TypeOK
       DEF Report, ProcUnchanged, TypeOK, StoreTypes, ProcTypes, ThreadTypes, RunnerTypes
  <2>2. (recovered \in BOOLEAN)'
    BY <1>30, TypeOK DEF Report, ProcUnchanged, TypeOK
  <2>3. QED
    BY <2>1, <2>2 DEF TypeOK
<1>31. ASSUME NEW p \in Procs, Settle(p) PROVE TypeOK'
  <2>1. StoreTypes' /\ ProcTypes' /\ ThreadTypes' /\ RunnerTypes'
    BY <1>31, TypeOK
       DEF Settle, ProcUnchanged, TypeOK, StoreTypes, ProcTypes, ThreadTypes, RunnerTypes
  <2>2. (recovered \in BOOLEAN)'
    BY <1>31, TypeOK DEF Settle, ProcUnchanged, TypeOK
  <2>3. QED
    BY <2>1, <2>2 DEF TypeOK
<1>32. ASSUME NEW s \in Services, NEW a \in UserActions, Publish(s, a) PROVE TypeOK'
  <2>1. StoreTypes'
    BY <1>32, TypeOK DEF Publish, Command, TypeOK, StoreTypes
  <2>2. ProcTypes' /\ ThreadTypes' /\ RunnerTypes'
    BY <1>32, TypeOK DEF Publish, TypeOK, ProcTypes, ThreadTypes, RunnerTypes
  <2>3. (recovered \in BOOLEAN)'
    BY <1>32, TypeOK DEF Publish, TypeOK
  <2>4. QED
    BY <2>1, <2>2, <2>3 DEF TypeOK
<1>33. CASE Crash
  <2>1. StoreTypes' /\ ProcTypes' /\ RunnerTypes'
    BY <1>33, TypeOK DEF Crash, TypeOK, StoreTypes, ProcTypes, RunnerTypes
  <2>2. ThreadTypes'
    BY <1>33, TypeOK DEF Crash, NoRecord, TypeOK, ThreadTypes
  <2>3. (recovered \in BOOLEAN)'
    BY <1>33, TypeOK DEF Crash, TypeOK
  <2>4. QED
    BY <2>1, <2>2, <2>3 DEF TypeOK
<1>34. CASE UNCHANGED vars
  <2>1. StoreTypes' /\ ProcTypes' /\ ThreadTypes' /\ RunnerTypes'
    BY <1>34, TypeOK DEF vars, TypeOK, StoreTypes, ProcTypes, ThreadTypes, RunnerTypes
  <2>2. (recovered \in BOOLEAN)'
    BY <1>34, TypeOK DEF vars, TypeOK
  <2>3. QED
    BY <2>1, <2>2 DEF TypeOK
<1>35. "runner" \in Threads /\ "ticker" \in Threads /\ Requests \subseteq Threads
  BY DEF Threads
<1>36. QED
  BY <1>1, <1>2, <1>3, <1>4, <1>5, <1>6, <1>7, <1>8, <1>9, <1>10, <1>11, <1>12, <1>13,
     <1>14, <1>15, <1>16, <1>17, <1>18, <1>19, <1>20, <1>21, <1>22, <1>23, <1>24, <1>25,
     <1>26, <1>27, <1>28, <1>29, <1>30, <1>31, <1>32, <1>33, <1>34, <1>35
     DEF Next, RunnerStep, TickerStep, ErrorsStep, RequestArrives, RequestStep, StartStep,
         StopStep, WaitForExit

-----------------------------------------------------------------------------
(* Supervision.                                                             *)

(* Positions inside a long critical section. *)
Inside == {"Spawned", "Awaiting", "Restoring", "Recovering"}

(* rwMtx excludes: a thread inside a long critical section holds the lock. *)
LockInv == \A t \in Threads : pc[t] \in Inside => lock = t

(* Processes are numbered as they start, and an entry of processList is a   *)
(* process of that service.                                                 *)
BornInv ==
    /\ \A p \in Procs : p > born => waiter[p] = "None"
    /\ \A s \in Services : list[s] # 0 => list[s] <= born /\ owner[list[s]] = s

(* A service whose process has just been launched has no other child. *)
SpawnInv ==
    \A t \in Threads :
        pc[t] = "Spawned" => /\ born \in Procs
                             /\ owner[born] = target[t]
                             /\ list[target[t]] \notin Children

(* The handle of a child in processList says Running, except while a thread *)
(* waits for the end of that child: nobody mistakes a child at work for one *)
(* that has ended.                                                          *)
HandleInv ==
    \A s \in Services :
        list[s] \in Children =>
            \/ pstate[list[s]] = "Running"
            \/ \E t \in Threads : pc[t] = "Awaiting" /\ target[t] = s

SupervisionInv ==
    /\ LockInv
    /\ AwaitInv
    /\ BornInv
    /\ SpawnInv
    /\ HandleInv
    /\ NoStrayProcess
    /\ OneServer
    /\ StoppedMeansDown

LauncherInv == TypeOK /\ SupervisionInv

(* What most steps are to the supervision of processes: they touch no       *)
(* process, entry or lock, and no thread that is inside.                    *)
Quiet ==
    /\ UNCHANGED <<lock, list, born, owner, pstate, waiter, killed>>
    /\ \A t \in Threads : \/ pc'[t] = pc[t] /\ target'[t] = target[t]
                          \/ pc[t] \notin Inside /\ pc'[t] \notin Inside
    /\ faults' = 0 => faults = 0
    /\ \A s \in Services : dbStatus'[s] = "stopped" => dbStatus[s] = "stopped"

LEMMA QuietStep ==
  ASSUME LauncherInv, TypeOK', Quiet
  PROVE  SupervisionInv'
<1> USE DEF LauncherInv, SupervisionInv, Quiet, Inside
<1>1. Serving' = Serving /\ Children' = Children
  BY DEF Serving, Children, Alive
<1>2. \A t \in Threads : /\ pc[t] = "Spawned" => pc'[t] = "Spawned" /\ target'[t] = target[t]
                         /\ pc'[t] = "Spawned" => pc[t] = "Spawned" /\ target'[t] = target[t]
                         /\ pc[t] = "Awaiting" => pc'[t] = "Awaiting" /\ target'[t] = target[t]
  OBVIOUS
<1>3. \A p \in Procs : BeingStarted(p) => BeingStarted(p)'
  BY <1>2 DEF BeingStarted
<1>4. LockInv' /\ AwaitInv'
  BY DEF LockInv, AwaitInv
<1>5. BornInv'
  BY DEF BornInv
<1>6. SpawnInv'
  BY <1>1, <1>2 DEF SpawnInv
<1>7. HandleInv'
  BY <1>1, <1>2 DEF HandleInv
<1>8. NoStrayProcess'
  BY <1>1, <1>3 DEF NoStrayProcess, Children, Serving
<1>9. OneServer'
  BY <1>1 DEF OneServer
<1>10. StoppedMeansDown'
  <2>1. SUFFICES ASSUME NEW p \in Children', faults' = 0, dbStatus'[owner'[p]] = "stopped"
                 PROVE  BeingStarted(p)'
    BY DEF StoppedMeansDown
  <2>2. p \in Children /\ p \in Procs /\ owner[p] \in Services /\ owner' = owner
    BY <1>1, <2>1 DEF Children, Serving, TypeOK, ProcTypes
  <2>3. BeingStarted(p)
    BY <2>1, <2>2 DEF StoppedMeansDown
  <2>4. QED
    BY <1>3, <2>2, <2>3
<1>11. QED
  BY <1>4, <1>5, <1>6, <1>7, <1>8, <1>9, <1>10

(* The steps that matter, one lemma each.                                   *)

LEMMA LaunchStep ==
  ASSUME LauncherInv, TypeOK', NEW t \in Threads, NEW s \in Services, StartLaunches(t, s)
  PROVE  SupervisionInv'
<1> USE DEF LauncherInv, SupervisionInv, Inside
<1>1. /\ born \in Nat /\ born' = born + 1 /\ born' \in Procs
      /\ owner' = [owner EXCEPT ![born'] = s]
      /\ pstate' = [pstate EXCEPT ![born'] = "Starting"]
      /\ waiter' = [p \in Procs |-> IF p = born' THEN "Waiting"
                                    ELSE IF p \in Leftover(s) THEN "Done" ELSE waiter[p]]
      /\ killed' = killed \ Leftover(s)
      /\ lock' = t
      /\ pc' = [pc EXCEPT ![t] = "Spawned"]
      /\ target' = [target EXCEPT ![t] = s]
      /\ UNCHANGED <<list, dbStatus, faults>>
      /\ ~IsRunning(s)
  BY LauncherAssumption
     DEF StartLaunches, MayLaunch, Goto, StartUnchanged, mapVars, TypeOK, ProcTypes, Procs
<1>2. \A u \in Threads : u # t => pc[u] \notin Inside
  BY LauncherAssumption DEF StartLaunches, AtStart, LockInv, Recovering, Threads
<1>3. pc[t] \notin {"Spawned", "Awaiting", "Restoring"}
  BY DEF StartLaunches, AtStart, Recovering
<1>4. \A p \in Procs : p > born => waiter[p] = "None"
  BY DEF BornInv
<1>5. waiter[born'] = "None" /\ born' \notin Leftover(s) /\ born' > born
  BY <1>1, <1>4 DEF Leftover
<1>6. /\ born' \notin Children /\ born' \notin Serving
      /\ Children' \subseteq Children \union {born'}
      /\ Serving' \subseteq Serving \union {born'}
      /\ Children' \subseteq Serving' /\ Serving' \subseteq Procs
      /\ \A p \in Serving' : p # born' => waiter'[p] = waiter[p] /\ owner'[p] = owner[p]
      /\ \A p \in Serving' : p # born' => p \notin Leftover(s)
  BY <1>1, <1>5 DEF Children, Serving, Alive, Leftover, TypeOK, ProcTypes
<1>7. \A p \in Children : owner[p] # s
  <2>1. SUFFICES ASSUME NEW p \in Children, owner[p] = s
                 PROVE  FALSE
    OBVIOUS
  <2>2. \A u \in Threads : pc[u] \notin {"Spawned", "Awaiting"}
    BY <1>2, <1>3
  <2>3. list[s] = p /\ p # 0
    BY <2>1, <2>2 DEF NoStrayProcess, BeingStarted, Children, Serving, Procs
  <2>4. pstate[list[s]] = "Running"
    BY <2>2, <2>3 DEF HandleInv
  <2>5. QED
    BY <1>1, <2>3, <2>4 DEF IsRunning
<1>8. LockInv'
  BY <1>1, <1>2 DEF LockInv, TypeOK, ThreadTypes
<1>9. AwaitInv'
  BY <1>1, <1>2, <1>3 DEF AwaitInv, TypeOK, ThreadTypes
<1>10. BornInv'
  <2>1. \A p \in Procs : p > born' => waiter'[p] = "None"
    BY <1>1, <1>4 DEF Procs, Leftover
  <2>2. ASSUME NEW x \in Services, list[x] # 0
        PROVE  list[x] <= born' /\ owner'[list[x]] = x
    BY <1>1, <2>2 DEF BornInv, TypeOK, ProcTypes, Procs
  <2>3. QED
    BY <1>1, <2>1, <2>2 DEF BornInv
<1>11. ASSUME NEW x \in Services, list[x] # 0 PROVE list[x] # born' /\ list[x] \in Procs
  BY <1>1, <1>11 DEF BornInv, TypeOK, ProcTypes, Procs
<1>12. SpawnInv'
  <2>1. \A u \in Threads : pc'[u] = "Spawned" => u = t
    BY <1>1, <1>2 DEF TypeOK, ThreadTypes
  <2>2. owner'[born'] = s /\ target'[t] = s
    BY <1>1 DEF TypeOK, ProcTypes, ThreadTypes
  <2>3. list[s] \notin Children'
    <3>1. CASE list[s] = 0
      BY <3>1 DEF Children, Serving, Procs
    <3>2. CASE list[s] # 0
      <4>1. owner[list[s]] = s
        BY <3>2 DEF BornInv
      <4>2. QED
        BY <1>6, <1>7, <1>11, <3>2, <4>1
    <3>3. QED
      BY <3>1, <3>2
  <2>4. QED
    BY <1>1, <2>1, <2>2, <2>3 DEF SpawnInv
<1>13. HandleInv'
  <2>1. SUFFICES ASSUME NEW x \in Services, list[x] \in Children'
                 PROVE  pstate'[list[x]] = "Running"
    BY <1>1 DEF HandleInv
  <2>2. list[x] # 0
    BY <2>1 DEF Children, Serving, Procs
  <2>3. list[x] \in Children
    BY <1>6, <1>11, <2>1, <2>2
  <2>4. pstate[list[x]] = "Running"
    BY <1>2, <1>3, <2>3 DEF HandleInv
  <2>5. QED
    BY <1>1, <1>11, <2>2, <2>4 DEF TypeOK, ProcTypes
<1>14. \A p \in Procs : p = born' => BeingStarted(p)'
  BY <1>1 DEF BeingStarted, TypeOK, ProcTypes, ThreadTypes
<1>15. NoStrayProcess'
  <2>1. SUFFICES ASSUME NEW p \in Children', p # born'
                 PROVE  list'[owner'[p]] = p
    BY <1>6, <1>14 DEF NoStrayProcess
  <2>2. p \in Children /\ p \in Procs /\ owner'[p] = owner[p]
    BY <1>6, <2>1
  <2>3. ~BeingStarted(p)
    BY <1>2, <1>3 DEF BeingStarted
  <2>4. QED
    BY <1>1, <2>2, <2>3 DEF NoStrayProcess
<1>16. OneServer'
  <2>1. SUFFICES ASSUME NEW p \in (IF UseScope THEN Serving ELSE Children)',
                        NEW q \in (IF UseScope THEN Serving ELSE Children)',
                        owner'[p] = owner'[q], p # born', p # q
                 PROVE  FALSE
    BY DEF OneServer
  <2>2. p \in (IF UseScope THEN Serving ELSE Children) /\ p \in Procs /\ owner'[p] = owner[p]
    BY <1>6, <2>1
  <2>3. CASE q = born'
    <3>1. owner[p] = s
      BY <1>1, <2>1, <2>2, <2>3 DEF TypeOK, ProcTypes
    <3>2. p \notin Children
      BY <1>7, <3>1
    <3>3. UseScope /\ p \in Serving /\ waiter[p] = "Orphan"
      BY <2>2, <3>2 DEF Children, Serving, Alive
    <3>4. p \in Leftover(s)
      BY <2>2, <3>1, <3>3 DEF Leftover
    <3>5. QED
      BY <1>6, <2>1, <3>3, <3>4
  <2>4. CASE q # born'
    <3>1. q \in (IF UseScope THEN Serving ELSE Children) /\ owner'[q] = owner[q]
      BY <1>6, <2>1, <2>4
    <3>2. QED
      BY <2>1, <2>2, <3>1 DEF OneServer
  <2>5. QED
    BY <2>3, <2>4
<1>17. StoppedMeansDown'
  <2>1. SUFFICES ASSUME NEW p \in Children', p # born', faults = 0, dbStatus[owner'[p]] = "stopped"
                 PROVE  FALSE
    BY <1>1, <1>6, <1>14 DEF StoppedMeansDown
  <2>2. p \in Children /\ owner'[p] = owner[p]
    BY <1>6, <2>1
  <2>3. ~BeingStarted(p)
    BY <1>2, <1>3 DEF BeingStarted
  <2>4. QED
    BY <2>1, <2>2, <2>3 DEF StoppedMeansDown
<1>18. QED
  BY <1>8, <1>9, <1>10, <1>12, <1>13, <1>15, <1>16, <1>17

LEMMA StartEndsStep ==
  ASSUME LauncherInv, TypeOK', NEW t \in Threads, StartEnds(t)
  PROVE  SupervisionInv'
<1> DEFINE s == target[t]
<1> USE DEF LauncherInv, SupervisionInv, Inside
<1>1. /\ pc[t] = "Spawned"
      /\ pstate' = [pstate EXCEPT ![born] = "Running"]
      /\ list' = [list EXCEPT ![s] = born]
      /\ pc' = [pc EXCEPT ![t] = AfterStart(t)]
      /\ UNCHANGED <<born, owner, waiter, killed, target>>
      /\ lock' = IF AfterStart(t) = "Recovering" THEN t ELSE "free"
      /\ Mark(s, "running")
  BY DEF StartEnds, Goto
<1>2. s \in Services /\ AfterStart(t) \notin {"Spawned", "Awaiting", "Restoring"}
  BY DEF AfterStart, TypeOK, ThreadTypes
<1>3. lock = t /\ \A u \in Threads : u # t => pc[u] \notin Inside
  BY <1>1 DEF LockInv
<1>4. born \in Procs /\ owner[born] = s /\ list[s] \notin Children
  BY <1>1 DEF SpawnInv
<1>5. Children' = Children /\ Serving' = Serving
  BY <1>1 DEF Children, Serving, Alive
<1>6. \A p \in Children : p \in Procs /\ (BeingStarted(p) => p = born /\ owner[p] = s)
  BY <1>3, <1>4 DEF BeingStarted, Children, Serving
<1>7. \A u \in Threads : pc'[u] \notin {"Spawned", "Awaiting", "Restoring"}
  BY <1>1, <1>2, <1>3 DEF TypeOK, ThreadTypes
<1>8. LockInv'
  <2>1. SUFFICES ASSUME NEW u \in Threads, pc'[u] = "Recovering"
                 PROVE  lock' = u
    BY <1>7 DEF LockInv
  <2>2. u = t /\ AfterStart(t) = "Recovering"
    BY <1>1, <1>3, <2>1 DEF TypeOK, ThreadTypes
  <2>3. QED
    BY <1>1, <2>2
<1>9. AwaitInv' /\ SpawnInv'
  BY <1>7 DEF AwaitInv, SpawnInv
<1>10. BornInv'
  <2>1. ASSUME NEW x \in Services, list'[x] # 0
        PROVE  list'[x] <= born' /\ owner'[list'[x]] = x
    BY <1>1, <1>2, <1>4, <2>1 DEF BornInv, TypeOK, ProcTypes, Procs
  <2>2. QED
    BY <1>1, <2>1 DEF BornInv
<1>11. HandleInv'
  <2>1. SUFFICES ASSUME NEW x \in Services, list'[x] \in Children
                 PROVE  pstate'[list'[x]] = "Running"
    BY <1>5 DEF HandleInv
  <2>2. CASE list'[x] = born
    BY <1>1, <1>4, <2>2 DEF TypeOK, ProcTypes
  <2>3. CASE list'[x] # born
    <3>1. x # s /\ list'[x] = list[x]
      BY <1>1, <1>2, <2>3 DEF TypeOK, ProcTypes
    <3>2. pstate[list[x]] = "Running"
      BY <1>1, <1>3, <2>1, <3>1 DEF HandleInv
    <3>3. QED
      BY <1>1, <2>1, <2>3, <3>1, <3>2, <1>6 DEF TypeOK, ProcTypes
  <2>4. QED
    BY <2>2, <2>3
<1>12. ASSUME NEW p \in Children PROVE list'[owner[p]] = p
  <2>0. owner[p] \in Services /\ list \in [Services -> 0..MaxProcs]
    BY <1>6 DEF TypeOK, ProcTypes
  <2>1. CASE BeingStarted(p)
    BY <1>1, <1>2, <1>6, <2>0, <2>1
  <2>2. CASE ~BeingStarted(p)
    <3>1. list[owner[p]] = p
      BY <2>2 DEF NoStrayProcess
    <3>2. owner[p] # s
      BY <1>4, <3>1
    <3>3. QED
      BY <1>1, <2>0, <3>1, <3>2
  <2>3. QED
    BY <2>1, <2>2
<1>13. NoStrayProcess'
  BY <1>1, <1>5, <1>12 DEF NoStrayProcess
<1>14. OneServer'
  BY <1>1, <1>5 DEF OneServer
<1>15. StoppedMeansDown'
  <2>1. SUFFICES ASSUME NEW p \in Children, faults' = 0, dbStatus'[owner[p]] = "stopped"
                 PROVE  FALSE
    BY <1>1, <1>5 DEF StoppedMeansDown
  <2>2. faults = 0 /\ dbStatus' = [dbStatus EXCEPT ![s] = "running"]
    BY <1>1, <2>1 DEF Mark, TypeOK, StoreTypes
  <2>3. owner[p] # s /\ dbStatus[owner[p]] = "stopped"
    BY <1>2, <1>6, <2>1, <2>2 DEF TypeOK, StoreTypes, ProcTypes
  <2>4. BeingStarted(p)
    BY <2>2, <2>3 DEF StoppedMeansDown
  <2>5. QED
    BY <1>6, <2>3, <2>4
<1>16. QED
  BY <1>8, <1>9, <1>10, <1>11, <1>13, <1>14, <1>15

(* While nobody is inside, a child at work is in processList and its handle *)
(* says Running.                                                            *)
LEMMA ListedWhenOutside ==
  ASSUME LauncherInv, \A u \in Threads : pc[u] \notin {"Spawned", "Awaiting"}
  PROVE  \A p \in Children : /\ p \in Procs /\ p # 0 /\ owner[p] \in Services
                             /\ list[owner[p]] = p
                             /\ pstate[p] = "Running"
                             /\ ~(faults = 0 /\ dbStatus[owner[p]] = "stopped")
<1> USE DEF LauncherInv, SupervisionInv
<1> SUFFICES ASSUME NEW p \in Children
             PROVE  /\ p \in Procs /\ p # 0 /\ owner[p] \in Services
                    /\ list[owner[p]] = p
                    /\ pstate[p] = "Running"
                    /\ ~(faults = 0 /\ dbStatus[owner[p]] = "stopped")
  OBVIOUS
<1>1. p \in Procs /\ p # 0 /\ owner[p] \in Services
  <2>1. p \in Procs
    BY DEF Children, Serving
  <2>2. p # 0
    BY <2>1, LauncherAssumption DEF Procs
  <2>3. owner[p] \in Services
    BY <2>1 DEF TypeOK, ProcTypes
  <2>4. QED
    BY <2>1, <2>2, <2>3
<1>2. ~BeingStarted(p)
  BY DEF BeingStarted
<1>3. list[owner[p]] = p
  BY <1>2 DEF NoStrayProcess
<1>4. pstate[p] = "Running"
  BY <1>1, <1>3 DEF HandleInv
<1>5. QED
  BY <1>1, <1>2, <1>3, <1>4 DEF StoppedMeansDown

LEMMA StopNothingStep ==
  ASSUME LauncherInv, TypeOK', NEW t \in Threads, NEW s \in Services, StopNothing(t, s)
  PROVE  SupervisionInv'
<1> USE DEF LauncherInv, SupervisionInv, Inside
<1>1. /\ lock = "free" /\ lock' = lock
      /\ ~IsRunning(s)
      /\ list' = [list EXCEPT ![s] = 0]
      /\ pc' = [pc EXCEPT ![t] = AfterStop(t)]
      /\ UNCHANGED <<born, owner, pstate, waiter, killed>>
      /\ Mark(s, StopStatus(t))
  BY DEF StopNothing, AtStop, StopUnchanged, Forget, Goto
<1>2. \A u \in Threads : pc[u] \notin Inside
  BY <1>1, LauncherAssumption DEF LockInv, Threads
<1>3. \A u \in Threads : pc'[u] \notin Inside
  BY <1>1, <1>2 DEF AfterStop, TypeOK, ThreadTypes
<1>4. Children' = Children /\ Serving' = Serving
  BY <1>1 DEF Children, Serving, Alive
<1>5. \A p \in Children : /\ p \in Procs /\ p # 0 /\ owner[p] \in Services
                          /\ list[owner[p]] = p
                          /\ pstate[p] = "Running"
                          /\ ~(faults = 0 /\ dbStatus[owner[p]] = "stopped")
  BY <1>2, ListedWhenOutside
<1>6. \A p \in Children : owner[p] # s
  BY <1>1, <1>5 DEF IsRunning
<1>7. LockInv' /\ AwaitInv' /\ SpawnInv'
  BY <1>3 DEF LockInv, AwaitInv, SpawnInv
<1>8. BornInv'
  BY <1>1 DEF BornInv, TypeOK, ProcTypes
<1>9. HandleInv'
  <2>1. SUFFICES ASSUME NEW x \in Services, list'[x] \in Children
                 PROVE  pstate[list'[x]] = "Running"
    BY <1>1, <1>4 DEF HandleInv
  <2>2. QED
    BY <1>5, <2>1
<1>10. NoStrayProcess'
  BY <1>1, <1>4, <1>5, <1>6 DEF NoStrayProcess, TypeOK, ProcTypes
<1>11. OneServer'
  BY <1>1, <1>4 DEF OneServer
<1>12. StoppedMeansDown'
  <2>1. SUFFICES ASSUME NEW p \in Children, faults' = 0, dbStatus'[owner[p]] = "stopped"
                 PROVE  FALSE
    BY <1>1, <1>4 DEF StoppedMeansDown
  <2>2. faults = 0 /\ dbStatus'[owner[p]] = dbStatus[owner[p]]
    BY <1>1, <1>5, <1>6, <2>1 DEF Mark, TypeOK, StoreTypes
  <2>3. QED
    BY <1>5, <2>1, <2>2
<1>13. QED
  BY <1>7, <1>8, <1>9, <1>10, <1>11, <1>12

LEMMA StopSignalsStep ==
  ASSUME LauncherInv, TypeOK', NEW t \in Threads, NEW s \in Services, StopSignals(t, s)
  PROVE  SupervisionInv'
<1> USE DEF LauncherInv, SupervisionInv, Inside
<1>1. /\ lock = "free" /\ lock' = t
      /\ list[s] # 0 /\ pstate[list[s]] = "Running"
      /\ pstate' = [pstate EXCEPT ![list[s]] = "Stopping"]
      /\ target' = [target EXCEPT ![t] = s]
      /\ pc' = [pc EXCEPT ![t] = IF waiter[list[s]] = "Waiting" THEN "Awaiting" ELSE "Restoring"]
      /\ UNCHANGED <<list, born, owner, waiter, killed, dbStatus, faults>>
  BY DEF StopSignals, AtStop, StopUnchanged, IsRunning, Goto, mapVars
<1>2. \A u \in Threads : pc[u] \notin Inside
  BY <1>1, LauncherAssumption DEF LockInv, Threads
<1>3. /\ pc'[t] \in {"Awaiting", "Restoring"} /\ target'[t] = s
      /\ \A u \in Threads : u # t => pc'[u] = pc[u]
  BY <1>1 DEF TypeOK, ThreadTypes
<1>4. Children' = Children /\ Serving' = Serving
  BY <1>1 DEF Children, Serving, Alive
<1>5. \A p \in Children : /\ p \in Procs /\ p # 0 /\ owner[p] \in Services
                          /\ list[owner[p]] = p
                          /\ pstate[p] = "Running"
                          /\ ~(faults = 0 /\ dbStatus[owner[p]] = "stopped")
  BY <1>2, ListedWhenOutside
<1>6. LockInv' /\ AwaitInv' /\ SpawnInv'
  BY <1>1, <1>2, <1>3 DEF LockInv, AwaitInv, SpawnInv
<1>7. BornInv'
  BY <1>1 DEF BornInv
<1>8. HandleInv'
  <2>1. SUFFICES ASSUME NEW x \in Services, list[x] \in Children
                 PROVE  \/ pstate'[list[x]] = "Running"
                        \/ \E u \in Threads : pc'[u] = "Awaiting" /\ target'[u] = x
    BY <1>1, <1>4 DEF HandleInv
  <2>2. CASE x = s
    <3>1. waiter[list[s]] = "Waiting"
      BY <2>1, <2>2 DEF Children
    <3>2. pc'[t] = "Awaiting"
      BY <1>1, <3>1 DEF TypeOK, ThreadTypes
    <3>3. QED
      BY <1>3, <2>2, <3>2
  <2>3. CASE x # s
    <3>1. list[x] # list[s]
      BY <1>1, <1>5, <2>1, <2>3 DEF BornInv
    <3>2. QED
      BY <1>1, <1>5, <2>1, <3>1 DEF TypeOK, ProcTypes
  <2>4. QED
    BY <2>2, <2>3
<1>9. NoStrayProcess'
  BY <1>1, <1>4, <1>5 DEF NoStrayProcess
<1>10. OneServer'
  BY <1>1, <1>4 DEF OneServer
<1>11. StoppedMeansDown'
  BY <1>1, <1>4, <1>5 DEF StoppedMeansDown
<1>12. QED
  BY <1>6, <1>7, <1>8, <1>9, <1>10, <1>11

LEMMA StopRestoresStep ==
  ASSUME LauncherInv, TypeOK', NEW t \in Threads, StopRestores(t)
  PROVE  SupervisionInv'
<1> USE DEF LauncherInv, SupervisionInv, Inside
<1>1. /\ pc[t] = "Restoring"
      /\ pstate' = [pstate EXCEPT ![list[target[t]]] = "Running"]
      /\ pc' = [pc EXCEPT ![t] = AfterFailedStop(t)]
      /\ UNCHANGED <<list, born, owner, waiter, killed, dbStatus, faults>>
  BY DEF StopRestores, StopUnchanged, Goto, mapVars
<1>2. \A u \in Threads : u # t => pc[u] \notin Inside
  BY <1>1 DEF LockInv
<1>3. \A u \in Threads : pc'[u] \notin Inside
  BY <1>1, <1>2 DEF AfterFailedStop, TypeOK, ThreadTypes
<1>4. Children' = Children /\ Serving' = Serving
  BY <1>1 DEF Children, Serving, Alive
<1>5. \A p \in Children : /\ p \in Procs /\ p # 0 /\ owner[p] \in Services
                          /\ list[owner[p]] = p
                          /\ pstate[p] = "Running"
                          /\ ~(faults = 0 /\ dbStatus[owner[p]] = "stopped")
  BY <1>1, <1>2, ListedWhenOutside
<1>6. LockInv' /\ AwaitInv' /\ SpawnInv'
  BY <1>3 DEF LockInv, AwaitInv, SpawnInv
<1>7. BornInv'
  BY <1>1 DEF BornInv
<1>8. HandleInv'
  BY <1>1, <1>4, <1>5 DEF HandleInv, TypeOK, ProcTypes
<1>9. NoStrayProcess'
  BY <1>1, <1>4, <1>5 DEF NoStrayProcess
<1>10. OneServer'
  BY <1>1, <1>4 DEF OneServer
<1>11. StoppedMeansDown'
  BY <1>1, <1>4, <1>5 DEF StoppedMeansDown
<1>12. QED
  BY <1>6, <1>7, <1>8, <1>9, <1>10, <1>11

LEMMA StopEndsStep ==
  ASSUME LauncherInv, TypeOK', NEW t \in Threads, StopEnds(t)
  PROVE  SupervisionInv'
<1> DEFINE s == target[t]
<1> USE DEF LauncherInv, SupervisionInv, Inside
<1>1. /\ pc[t] = "Awaiting"
      /\ list' = [list EXCEPT ![s] = 0]
      /\ pc' = [pc EXCEPT ![t] = AfterStop(t)]
      /\ UNCHANGED <<born, owner, waiter, pstate>>
      /\ Mark(s, StopStatus(t))
  BY DEF StopEnds, StopUnchanged, Forget, Goto
<1>2. /\ killed \subseteq killed'
      /\ waiter[list[s]] = "Waiting" => list[s] \in killed'
  BY DEF StopEnds
<1>3. \A u \in Threads : u # t => pc[u] \notin Inside
  BY <1>1 DEF LockInv
<1>4. s \in Services /\ \A u \in Threads : pc'[u] \notin Inside
  BY <1>1, <1>3 DEF AfterStop, TypeOK, ThreadTypes
<1>5. /\ Children' \subseteq Children /\ Serving' \subseteq Serving
      /\ \A p \in Children' : p \notin killed' /\ waiter[p] = "Waiting"
  BY <1>1, <1>2 DEF Children, Serving, Alive
<1>6. \A p \in Children : p \in Procs /\ p # 0 /\ owner[p] \in Services /\ list[owner[p]] = p
  <2>1. SUFFICES ASSUME NEW p \in Children
                 PROVE  p \in Procs /\ p # 0 /\ owner[p] \in Services /\ list[owner[p]] = p
    OBVIOUS
  <2>0. p \in Procs
    BY <2>1 DEF Children, Serving
  <2>2. p # 0
    BY <2>0, LauncherAssumption DEF Procs
  <2>6. owner[p] \in Services
    BY <2>0 DEF TypeOK, ProcTypes
  <2>3. ~BeingStarted(p)
    BY <1>1, <1>3 DEF BeingStarted
  <2>4. QED
    BY <2>0, <2>1, <2>2, <2>3, <2>6 DEF NoStrayProcess
<1>7. \A p \in Children' : owner[p] # s
  BY <1>2, <1>5, <1>6
<1>8. LockInv' /\ AwaitInv' /\ SpawnInv'
  BY <1>4 DEF LockInv, AwaitInv, SpawnInv
<1>9. BornInv'
  BY <1>1 DEF BornInv, TypeOK, ProcTypes
<1>10. HandleInv'
  <2>1. SUFFICES ASSUME NEW x \in Services, list'[x] \in Children'
                 PROVE  pstate[list'[x]] = "Running"
    BY <1>1 DEF HandleInv
  <2>2. x # s /\ list'[x] = list[x]
    BY <1>1, <1>4, <1>5, <1>6, <2>1 DEF TypeOK, ProcTypes
  <2>3. ~ \E u \in Threads : pc[u] = "Awaiting" /\ target[u] = x
    BY <1>3, <2>2
  <2>4. QED
    BY <1>5, <2>1, <2>2, <2>3 DEF HandleInv
<1>11. NoStrayProcess'
  BY <1>1, <1>5, <1>6, <1>7 DEF NoStrayProcess, TypeOK, ProcTypes
<1>12. OneServer'
  BY <1>1, <1>5 DEF OneServer
<1>13. StoppedMeansDown'
  <2>1. SUFFICES ASSUME NEW p \in Children', faults' = 0, dbStatus'[owner[p]] = "stopped"
                 PROVE  FALSE
    BY <1>1 DEF StoppedMeansDown
  <2>2. p \in Children /\ owner[p] # s /\ owner[p] \in Services
    BY <1>5, <1>6, <1>7, <2>1
  <2>3. faults = 0 /\ dbStatus'[owner[p]] = dbStatus[owner[p]]
    BY <1>1, <2>1, <2>2 DEF Mark, TypeOK, StoreTypes
  <2>4. ~BeingStarted(p)
    BY <1>1, <1>3 DEF BeingStarted
  <2>5. QED
    BY <2>1, <2>2, <2>3, <2>4 DEF StoppedMeansDown
<1>14. QED
  BY <1>8, <1>9, <1>10, <1>11, <1>12, <1>13

LEMMA RecoveryStep ==
  ASSUME LauncherInv, TypeOK', RecoveryBegins \/ RecoveryEnds
  PROVE  SupervisionInv'
<1> USE DEF LauncherInv, SupervisionInv, Inside
<1>0. "runner" \in Threads
  BY DEF Threads
<1>1. /\ UNCHANGED <<list, born, owner, pstate, waiter, killed, dbStatus, faults>>
      /\ \/ pc["runner"] = "Idle" /\ lock = "free" /\ lock' = "runner"
            /\ pc' = [pc EXCEPT !["runner"] = "Recovering"]
         \/ pc["runner"] = "Recovering" /\ pc' = [pc EXCEPT !["runner"] = "Idle"]
  BY DEF RecoveryBegins, RecoveryEnds, RunnerUnchanged, Recovering, Goto, mapVars, procVars
<1>2. \A u \in Threads : u # "runner" => pc[u] \notin Inside
  BY <1>0, <1>1, LauncherAssumption DEF LockInv, Threads
<1>3. \A u \in Threads : /\ u # "runner" => pc'[u] = pc[u]
                         /\ pc'[u] \notin {"Spawned", "Awaiting", "Restoring"}
  BY <1>1, <1>2 DEF TypeOK, ThreadTypes
<1>4. Children' = Children /\ Serving' = Serving
  BY <1>1 DEF Children, Serving, Alive
<1>5. \A p \in Children : /\ p \in Procs /\ p # 0 /\ owner[p] \in Services
                          /\ list[owner[p]] = p
                          /\ pstate[p] = "Running"
                          /\ ~(faults = 0 /\ dbStatus[owner[p]] = "stopped")
  BY <1>1, <1>2, ListedWhenOutside
<1>6. LockInv'
  BY <1>0, <1>1, <1>2, <1>3 DEF LockInv, TypeOK, ThreadTypes
<1>7. AwaitInv' /\ SpawnInv'
  BY <1>3 DEF AwaitInv, SpawnInv
<1>8. BornInv'
  BY <1>1 DEF BornInv
<1>9. HandleInv'
  BY <1>1, <1>4, <1>5 DEF HandleInv
<1>10. NoStrayProcess'
  BY <1>1, <1>4, <1>5 DEF NoStrayProcess
<1>11. OneServer'
  BY <1>1, <1>4 DEF OneServer
<1>12. StoppedMeansDown'
  BY <1>1, <1>4, <1>5 DEF StoppedMeansDown
<1>13. QED
  BY <1>6, <1>7, <1>8, <1>9, <1>10, <1>11, <1>12

LEMMA ProcessStep ==
  ASSUME LauncherInv, TypeOK', NEW p \in Procs, Exit(p) \/ OrphanExits(p) \/ WaitForExit(p)
  PROVE  SupervisionInv'
<1> USE DEF LauncherInv, SupervisionInv
<1>1. UNCHANGED <<lock, list, born, owner, pc, target, dbStatus, faults>>
  BY DEF Exit, OrphanExits, WaitForExit, Classify, Report, Settle, ProcUnchanged, dbVars, mapVars
<1>2. /\ waiter[p] # "None"
      /\ \A q \in Procs : q # p => waiter'[q] = waiter[q] /\ pstate'[q] = pstate[q]
      /\ waiter'[p] \notin {"Waiting", "Orphan"}
      /\ killed' = killed \/ killed' = killed \ {p}
  BY DEF Exit, OrphanExits, WaitForExit, Classify, Report, Settle, TypeOK, ProcTypes
<1>3. /\ Children' \subseteq Children /\ Serving' \subseteq Serving
      /\ p \notin Serving' /\ Children' \subseteq Serving' /\ Children \subseteq Procs
  BY <1>2 DEF Children, Serving, Alive
<1>4. \A q \in Procs : BeingStarted(q)' = BeingStarted(q)
  BY <1>1 DEF BeingStarted
<1>5. LockInv' /\ AwaitInv'
  BY <1>1 DEF LockInv, AwaitInv
<1>6. BornInv'
  BY <1>1, <1>2 DEF BornInv
<1>7. SpawnInv'
  BY <1>1, <1>3 DEF SpawnInv
<1>8. HandleInv'
  <2>1. SUFFICES ASSUME NEW s \in Services, list[s] \in Children'
                 PROVE  \/ pstate'[list[s]] = "Running"
                        \/ \E t \in Threads : pc[t] = "Awaiting" /\ target[t] = s
    BY <1>1 DEF HandleInv
  <2>2. list[s] \in Children /\ list[s] # p /\ list[s] \in Procs
    BY <1>3, <2>1
  <2>3. QED
    BY <1>2, <2>2 DEF HandleInv
<1>9. NoStrayProcess'
  BY <1>1, <1>3, <1>4 DEF NoStrayProcess
<1>10. OneServer'
  BY <1>1, <1>3 DEF OneServer
<1>11. StoppedMeansDown'
  BY <1>1, <1>3, <1>4 DEF StoppedMeansDown
<1>12. QED
  BY <1>5, <1>6, <1>7, <1>8, <1>9, <1>10, <1>11

LEMMA CrashStep ==
  ASSUME LauncherInv, TypeOK', Crash
  PROVE  SupervisionInv'
<1> USE DEF LauncherInv, SupervisionInv, Inside
<1>1. /\ list' = [s \in Services |-> 0]
      /\ pc' = [t \in Threads |-> "Idle"]
      /\ UNCHANGED <<born, owner, killed>>
  BY DEF Crash
<1>2. \A p \in Procs : /\ waiter[p] = "None" => waiter'[p] = "None"
                       /\ waiter'[p] # "Waiting"
                       /\ waiter'[p] = "Orphan" => waiter[p] \in {"Waiting", "Orphan"}
  BY DEF Crash
<1>3. Children' = {} /\ Serving' \subseteq Serving
  BY <1>1, <1>2 DEF Children, Serving, Alive
<1>4. LockInv' /\ AwaitInv' /\ SpawnInv'
  BY <1>1 DEF LockInv, AwaitInv, SpawnInv
<1>5. BornInv'
  BY <1>1, <1>2 DEF BornInv
<1>6. HandleInv' /\ NoStrayProcess' /\ StoppedMeansDown'
  BY <1>3 DEF HandleInv, NoStrayProcess, StoppedMeansDown
<1>7. OneServer'
  BY <1>1, <1>3 DEF OneServer
<1>8. QED
  BY <1>4, <1>5, <1>6, <1>7

-----------------------------------------------------------------------------
(* The theorems.                                                            *)

LEMMA LauncherInit == Init => LauncherInv
<1> SUFFICES ASSUME Init PROVE LauncherInv
  OBVIOUS
<1>1. TypeOK
  BY TypeInit
<1>2. Children = {} /\ Serving = {}
  BY DEF Init, Children, Serving, Alive
<1>3. LockInv /\ AwaitInv /\ SpawnInv
  BY DEF Init, LockInv, AwaitInv, SpawnInv, Inside
<1>4. BornInv
  BY DEF Init, BornInv
<1>5. HandleInv /\ NoStrayProcess /\ OneServer /\ StoppedMeansDown
  BY <1>2 DEF HandleInv, NoStrayProcess, OneServer, StoppedMeansDown
<1>6. QED
  BY <1>1, <1>3, <1>4, <1>5 DEF LauncherInv, SupervisionInv

(* Steps that are quiet, one step of the proof per action. *)
LEMMA QuietActions ==
  ASSUME LauncherInv,
         \/ \E t \in Threads, s \in Services : StartRefused(t, s) \/ StartFails(t, s)
         \/ Fetch \/ Evaluate \/ UpgradeRefused \/ UpgradeWrites \/ Finish
         \/ Tick \/ TickEnds
         \/ \E s \in Services : Age(s)
         \/ \E r \in Requests, s \in Services : Route(r, s) \/ WakeReads(r, s)
         \/ \E r \in Requests : WakeFindsRunning(r) \/ WakeRefused(r) \/ WakeChecks(r) \/ Touch(r)
         \/ ErrorsStep
         \/ \E s \in Services, a \in UserActions : Publish(s, a)
         \/ UNCHANGED vars
  PROVE  Quiet
<1> USE DEF Quiet, Inside, dbVars, mapVars, procVars, runnerVars, Goto
<1>0. TypeOK /\ pc \in [Threads -> Positions] /\ target \in [Threads -> Services]
      /\ dbStatus \in [Services -> Statuses] /\ faults \in Nat
      /\ "runner" \in Threads /\ "ticker" \in Threads /\ "errors" \in Threads
      /\ Requests \subseteq Threads
  BY LauncherAssumption DEF LauncherInv, TypeOK, ThreadTypes, StoreTypes, Threads
<1>1. ASSUME NEW t \in Threads, NEW s \in Services, StartRefused(t, s) PROVE Quiet
  BY <1>0, <1>1 DEF StartRefused, StartUnchanged, AtStart, AfterFailedStart, Recovering
<1>2. ASSUME NEW t \in Threads, NEW s \in Services, StartFails(t, s) PROVE Quiet
  BY <1>0, <1>2 DEF StartFails, StartUnchanged, AtStart, AfterFailedStart, Recovering, Fault
<1>3. CASE Fetch
  BY <1>0, <1>3 DEF Fetch, RunnerUnchanged
<1>4. CASE Evaluate
  <2>1. cmds[NextInBatch] \in Command
    <3>1. NextInBatch \in batch
      BY <1>0, <1>4, FirstOfBatch DEF Evaluate
    <3>2. QED
      BY <1>0, <3>1 DEF TypeOK, RunnerTypes, StoreTypes
  <2>2. FirstStep(cmds[NextInBatch]) \notin Inside
    BY <2>1 DEF FirstStep, Command
  <2>3. QED
    BY <1>0, <1>4, <2>2 DEF Evaluate, RunnerUnchanged
<1>5. CASE UpgradeRefused \/ UpgradeWrites
  BY <1>0, <1>5 DEF UpgradeRefused, UpgradeWrites, RunnerUnchanged
<1>6. CASE Finish
  BY <1>0, <1>6 DEF Finish, RunnerUnchanged
<1>7. CASE Tick \/ TickEnds
  BY <1>0, <1>7 DEF Tick, TickEnds
<1>8. ASSUME NEW s \in Services, Age(s) PROVE Quiet
  BY <1>0, <1>8 DEF Age
<1>9. ASSUME NEW r \in Requests, NEW s \in Services, Route(r, s) \/ WakeReads(r, s) PROVE Quiet
  BY <1>0, <1>9 DEF Route, WakeReads, RequestUnchanged
<1>10. ASSUME NEW r \in Requests,
              WakeFindsRunning(r) \/ WakeRefused(r) \/ WakeChecks(r) \/ Touch(r)
       PROVE  Quiet
  BY <1>0, <1>10 DEF WakeFindsRunning, WakeRefused, WakeChecks, Touch, RequestUnchanged
<1>11. CASE ErrorsStep
  BY <1>0, <1>11 DEF ErrorsStep, ReportReceived, RestartPublished, ErrorsUnchanged
<1>12. ASSUME NEW s \in Services, NEW a \in UserActions, Publish(s, a) PROVE Quiet
  BY <1>0, <1>12 DEF Publish
<1>13. CASE UNCHANGED vars
  BY <1>0, <1>13 DEF vars
<1>14. QED
  BY <1>1, <1>2, <1>3, <1>4, <1>5, <1>6, <1>7, <1>8, <1>9, <1>10, <1>11, <1>12, <1>13

LEMMA LauncherStep == LauncherInv /\ [Next]_vars => LauncherInv'
<1> SUFFICES ASSUME LauncherInv, [Next]_vars
             PROVE  LauncherInv'
  OBVIOUS
<1>1. TypeOK'
  BY TypeStep DEF LauncherInv, SupervisionInv
<1>2. "runner" \in Threads /\ "ticker" \in Threads /\ Requests \subseteq Threads
  BY DEF Threads
<1>3. ASSUME NEW t \in Threads, StartStep(t) PROVE SupervisionInv'
  BY <1>1, <1>3, LaunchStep, StartEndsStep, QuietActions, QuietStep DEF StartStep
<1>4. ASSUME NEW t \in Threads, StopStep(t) PROVE SupervisionInv'
  BY <1>1, <1>4, StopNothingStep, StopSignalsStep, StopRestoresStep, StopEndsStep DEF StopStep
<1>5. ASSUME RunnerStep PROVE SupervisionInv'
  BY <1>1, <1>2, <1>3, <1>4, <1>5, RecoveryStep, QuietActions, QuietStep DEF RunnerStep
<1>6. ASSUME TickerStep PROVE SupervisionInv'
  BY <1>1, <1>2, <1>4, <1>6, QuietActions, QuietStep DEF TickerStep
<1>7. ASSUME NEW r \in Requests, RequestArrives(r) \/ RequestStep(r) PROVE SupervisionInv'
  BY <1>1, <1>2, <1>3, <1>7, QuietActions, QuietStep DEF RequestArrives, RequestStep
<1>8. ASSUME NEW p \in Procs, Exit(p) \/ WaitForExit(p) \/ OrphanExits(p) PROVE SupervisionInv'
  BY <1>1, <1>8, ProcessStep
<1>9. ASSUME Crash PROVE SupervisionInv'
  BY <1>1, <1>9, CrashStep
<1>10. ASSUME \/ ErrorsStep
              \/ \E s \in Services : Age(s)
              \/ \E s \in Services, a \in UserActions : Publish(s, a)
              \/ UNCHANGED vars
       PROVE  SupervisionInv'
  BY <1>1, <1>10, QuietActions, QuietStep
<1>11. SupervisionInv'
  BY <1>5, <1>6, <1>7, <1>8, <1>9, <1>10 DEF Next
<1>12. QED
  BY <1>1, <1>11 DEF LauncherInv

LEMMA LauncherInvariant == Spec => []LauncherInv
  BY LauncherInit, LauncherStep, PTL DEF Spec

(* Every variable keeps its type, through faults and ends of PBLauncher. *)
THEOREM TypeCorrect == Spec => []TypeOK
<1>1. LauncherInv => TypeOK
  BY DEF LauncherInv
<1>2. QED
  BY <1>1, LauncherInvariant, PTL

(* No child at work is out of reach of processList. *)
THEOREM NoStray == Spec => []NoStrayProcess
<1>1. LauncherInv => NoStrayProcess
  BY DEF LauncherInv, SupervisionInv
<1>2. QED
  BY <1>1, LauncherInvariant, PTL

(* At most one process works on the data of a service. *)
THEOREM OneServerAtATime == Spec => []OneServer
<1>1. LauncherInv => OneServer
  BY DEF LauncherInv, SupervisionInv
<1>2. QED
  BY <1>1, LauncherInvariant, PTL

(* Stopped in the database means no child at work. *)
THEOREM StoppedIsDown == Spec => []StoppedMeansDown
<1>1. LauncherInv => StoppedMeansDown
  BY DEF LauncherInv, SupervisionInv
<1>2. QED
  BY <1>1, LauncherInvariant, PTL

-----------------------------------------------------------------------------
(* Recovery.                                                                *)

(* Before recovery has ended the runner recovers or has yet to begin.       *)
(* Meanwhile a service the database calls running has an entry, or is the   *)
(* one that is being started, or still to come; unless something failed.    *)
RecoveryInv ==
    ~recovered =>
      /\ pc["runner"] \in {"Idle", "Recovering", "Spawned"}
      /\ pc["runner"] # "Idle" /\ faults = 0 /\ born < MaxProcs =>
           \A s \in Services : dbStatus[s] = "running" =>
             list[s] # 0 \/ s \in todo \/ (pc["runner"] = "Spawned" /\ s = target["runner"])

(* What most steps are to recovery. *)
RecoveryKept ==
    /\ UNCHANGED <<recovered, todo>>
    /\ pc'["runner"] = pc["runner"] /\ target'["runner"] = target["runner"]
    /\ faults' = 0 => faults = 0
    /\ born' < MaxProcs => born < MaxProcs
    /\ pc["runner"] \in {"Recovering", "Spawned"} =>
         \A s \in Services : /\ dbStatus'[s] = "running" => dbStatus[s] = "running"
                             /\ list[s] # 0 => list'[s] # 0

LEMMA RecoveryKeptInv ==
  ASSUME RecoveryInv, RecoveryKept
  PROVE  RecoveryInv'
BY DEF RecoveryInv, RecoveryKept

(* The other threads: the recovering runner has the lock. *)
LEMMA OthersKeepRecovery ==
  ASSUME LauncherInv,
         \/ \E t \in Requests : StartStep(t)
         \/ StopStep("ticker") \/ Tick \/ TickEnds
         \/ \E s \in Services : Age(s)
         \/ \E r \in Requests, s \in Services : Route(r, s) \/ WakeReads(r, s)
         \/ \E r \in Requests : WakeFindsRunning(r) \/ WakeRefused(r) \/ WakeChecks(r) \/ Touch(r)
         \/ ErrorsStep
         \/ \E p \in Procs : Exit(p) \/ WaitForExit(p) \/ OrphanExits(p)
         \/ \E s \in Services, a \in UserActions : Publish(s, a)
         \/ UNCHANGED vars
  PROVE  RecoveryKept
<1> USE DEF RecoveryKept, Goto, runnerVars, dbVars, procVars, mapVars
<1>0. /\ pc \in [Threads -> Positions] /\ target \in [Threads -> Services]
      /\ "runner" \in Threads /\ "ticker" \in Threads /\ Requests \subseteq Threads
      /\ faults \in Nat /\ born \in Nat /\ MaxProcs \in Nat
      /\ dbStatus \in [Services -> Statuses] /\ list \in [Services -> 0..MaxProcs]
      /\ "runner" \notin Requests /\ "free" \notin Requests
      /\ pc["runner"] \in {"Recovering", "Spawned"} => lock = "runner"
  BY LauncherAssumption
     DEF LauncherInv, SupervisionInv, LockInv, Inside, TypeOK, ThreadTypes, StoreTypes, ProcTypes,
         Threads
<1>1. ASSUME NEW t \in Requests, NEW s \in Services, StartRefused(t, s) PROVE RecoveryKept
  BY <1>0, <1>1 DEF StartRefused, StartUnchanged, TodoAfter, Recovering
<1>2. ASSUME NEW t \in Requests, NEW s \in Services, StartFails(t, s) PROVE RecoveryKept
  BY <1>0, <1>2 DEF StartFails, StartUnchanged, TodoAfter, Recovering, Fault
<1>3. ASSUME NEW t \in Requests, NEW s \in Services, StartLaunches(t, s) PROVE RecoveryKept
  BY <1>0, <1>3 DEF StartLaunches, MayLaunch, StartUnchanged, TodoAfter, Recovering
<1>4. ASSUME NEW t \in Requests, StartEnds(t) PROVE RecoveryKept
  <2>1. lock = t
    BY <1>0, <1>4 DEF StartEnds, LauncherInv, SupervisionInv, LockInv, Inside
  <2> QED
    BY <1>0, <1>4, <2>1 DEF StartEnds, Mark
<1>5. ASSUME NEW s \in Services, StopNothing("ticker", s) PROVE RecoveryKept
  BY <1>0, <1>5 DEF StopNothing, StopUnchanged, AtStop, Mark
<1>6. ASSUME NEW s \in Services, StopSignals("ticker", s) PROVE RecoveryKept
  BY <1>0, <1>6 DEF StopSignals, StopUnchanged
<1>7. CASE StopRestores("ticker")
  BY <1>0, <1>7 DEF StopRestores, StopUnchanged
<1>8. CASE StopEnds("ticker")
  <2>1. lock = "ticker"
    BY <1>0, <1>8 DEF StopEnds, LauncherInv, SupervisionInv, LockInv, Inside
  <2> QED
    BY <1>0, <1>8, <2>1 DEF StopEnds, StopUnchanged, Mark
<1>9. CASE Tick \/ TickEnds
  BY <1>0, <1>9 DEF Tick, TickEnds
<1>10. ASSUME NEW s \in Services, Age(s) PROVE RecoveryKept
  BY <1>0, <1>10 DEF Age
<1>11. ASSUME NEW r \in Requests, NEW s \in Services, Route(r, s) \/ WakeReads(r, s)
       PROVE  RecoveryKept
  BY <1>0, <1>11 DEF Route, WakeReads, RequestUnchanged
<1>12. ASSUME NEW r \in Requests,
              WakeFindsRunning(r) \/ WakeRefused(r) \/ WakeChecks(r) \/ Touch(r)
       PROVE  RecoveryKept
  BY <1>0, <1>12 DEF WakeFindsRunning, WakeRefused, WakeChecks, Touch, RequestUnchanged
<1>13. CASE ErrorsStep
  BY <1>0, <1>13 DEF ErrorsStep, ReportReceived, RestartPublished, ErrorsUnchanged
<1>14. ASSUME NEW p \in Procs, Exit(p) \/ WaitForExit(p) \/ OrphanExits(p) PROVE RecoveryKept
  BY <1>0, <1>14 DEF Exit, WaitForExit, Classify, Report, Settle, OrphanExits, ProcUnchanged
<1>15. ASSUME NEW s \in Services, NEW a \in UserActions, Publish(s, a) PROVE RecoveryKept
  BY <1>0, <1>15 DEF Publish
<1>16. CASE UNCHANGED vars
  BY <1>0, <1>16 DEF vars
<1> QED
  BY <1>1, <1>2, <1>3, <1>4, <1>5, <1>6, <1>7, <1>8, <1>9, <1>10, <1>11, <1>12, <1>13, <1>14,
     <1>15, <1>16 DEF StartStep, StopStep

(* The runner itself. *)
LEMMA RunnerRecovers ==
  ASSUME LauncherInv, RecoveryInv, RunnerStep
  PROVE  RecoveryInv'
<1> USE DEF Goto, runnerVars, dbVars, procVars, mapVars
<1>0. /\ pc \in [Threads -> Positions] /\ target \in [Threads -> Services]
      /\ "runner" \in Threads /\ "runner" \notin Requests
      /\ faults \in Nat /\ born \in 0..MaxProcs /\ MaxProcs \in Nat
      /\ dbStatus \in [Services -> Statuses] /\ list \in [Services -> 0..MaxProcs]
  BY LauncherAssumption
     DEF LauncherInv, TypeOK, ThreadTypes, StoreTypes, ProcTypes, Threads
<1>1. CASE recovered'
  BY <1>1 DEF RecoveryInv
<1>2. CASE ~recovered' /\ RecoveryBegins
  BY <1>0, <1>2 DEF RecoveryBegins, RunnerUnchanged, RecoveryInv
<1>3. CASE ~recovered' /\ ~RecoveryBegins
  <2>1. ~recovered
    BY <1>3
       DEF RunnerStep, RecoveryEnds, Fetch, Evaluate, UpgradeRefused, UpgradeWrites, Finish,
           StartStep, StartRefused, StartFails, StartLaunches, StartEnds, StartUnchanged,
           StopStep, StopNothing, StopSignals, StopRestores, StopEnds, StopUnchanged
  <2>2. pc["runner"] \in {"Idle", "Recovering", "Spawned"}
    BY <2>1 DEF RecoveryInv
  <2>3. StartStep("runner")
    BY <1>3, <2>1, <2>2
       DEF RunnerStep, RecoveryEnds, Fetch, Evaluate, UpgradeRefused, UpgradeWrites, Finish,
           StopStep, StopNothing, StopSignals, StopRestores, StopEnds, AtStop
  <2>4. ASSUME NEW s \in Services, StartRefused("runner", s) PROVE RecoveryInv'
    <3>1. pc["runner"] = "Recovering" /\ list[s] # 0
      BY <1>0, <2>2, <2>4 DEF StartRefused, AtStart, IsRunning, Recovering
    <3> QED
      BY <1>0, <2>1, <2>4, <3>1
         DEF StartRefused, StartUnchanged, AfterFailedStart, Recovering, TodoAfter, RecoveryInv
  <2>5. ASSUME NEW s \in Services, StartFails("runner", s) PROVE RecoveryInv'
    <3>1. pc["runner"] = "Recovering"
      BY <1>0, <2>2, <2>5 DEF StartFails, AtStart, Recovering
    <3>2. faults' # 0 \/ ~(born' < MaxProcs)
      BY <1>0, <2>5 DEF StartFails, Fault
    <3> QED
      BY <1>0, <2>5, <3>1, <3>2 DEF StartFails, AfterFailedStart, Recovering, RecoveryInv
  <2>6. ASSUME NEW s \in Services, StartLaunches("runner", s) PROVE RecoveryInv'
    <3>1. pc["runner"] = "Recovering"
      BY <1>0, <2>2, <2>6 DEF StartLaunches, AtStart, Recovering
    <3>2. /\ pc'["runner"] = "Spawned" /\ target'["runner"] = s /\ todo' = todo \ {s}
          /\ UNCHANGED <<dbStatus, faults, list>>
      BY <1>0, <2>6, <3>1 DEF StartLaunches, StartUnchanged, TodoAfter, Recovering
    <3>3. born' < MaxProcs => born < MaxProcs
      BY <1>0, <2>6 DEF StartLaunches
    <3> QED
      BY <2>1, <3>1, <3>2, <3>3 DEF RecoveryInv
  <2>7. CASE StartEnds("runner")
    <3>1. born \in Procs
      BY <1>0, <2>7 DEF StartEnds, LauncherInv, SupervisionInv, SpawnInv
    <3>2. /\ pc["runner"] = "Spawned" /\ pc'["runner"] = "Recovering" /\ todo' = todo
          /\ born' = born
          /\ list' = [list EXCEPT ![target["runner"]] = born]
      BY <1>0, <2>1, <2>7 DEF StartEnds, AfterStart
    <3>3. \A s \in Services : list'[s] = IF s = target["runner"] THEN born ELSE list[s]
      BY <1>0, <3>2
    <3>4. faults' = 0 => faults = 0 /\ \A s \in Services :
             dbStatus'[s] = IF s = target["runner"] THEN "running" ELSE dbStatus[s]
      BY <1>0, <2>7 DEF StartEnds, Mark
    <3>5. born # 0
      BY <3>1 DEF Procs
    <3> QED
      BY <2>1, <3>2, <3>3, <3>4, <3>5 DEF RecoveryInv
  <2> QED
    BY <2>3, <2>4, <2>5, <2>6, <2>7 DEF StartStep
<1> QED
  BY <1>1, <1>2, <1>3

LEMMA RecoveryInvStep == LauncherInv /\ RecoveryInv /\ [Next]_vars => RecoveryInv'
<1> SUFFICES ASSUME LauncherInv, RecoveryInv, [Next]_vars
             PROVE  RecoveryInv'
  OBVIOUS
<1>1. CASE RunnerStep
  BY <1>1, RunnerRecovers
<1>2. CASE Crash
  <2>1. "runner" \in Threads
    BY DEF Threads
  <2> QED
    BY <1>2, <2>1 DEF Crash, RecoveryInv
<1>3. CASE ~RunnerStep /\ ~Crash
  BY <1>3, OthersKeepRecovery, RecoveryKeptInv
     DEF Next, TickerStep, RequestArrives, RequestStep
<1> QED
  BY <1>1, <1>2, <1>3

LEMMA RecoveryInvariant == Spec => [](LauncherInv /\ RecoveryInv)
<1>1. Init => RecoveryInv
  BY DEF Init, RecoveryInv, Threads
<1> QED
  BY <1>1, LauncherInvariant, RecoveryInvStep, PTL DEF Spec

(* RecoveryLastState leaves nothing out: when it ends, every service the    *)
(* database calls running has an entry, unless a start or a write failed.   *)
THEOREM RecoveryIsComplete == Spec => RecoveryRestores
<1>1. LauncherInv /\ RecoveryInv /\ [Next]_vars
        => [~recovered /\ recovered' /\ faults = 0 /\ born < MaxProcs =>
              \A s \in Services : dbStatus[s] = "running" => list[s] # 0]_vars
  <2> SUFFICES ASSUME LauncherInv, RecoveryInv, [Next]_vars,
                      ~recovered, recovered', faults = 0, born < MaxProcs,
                      NEW s \in Services, dbStatus[s] = "running"
               PROVE  list[s] # 0
    OBVIOUS
  <2>1. ~RunnerStep => RecoveryKept \/ Crash
    BY OthersKeepRecovery DEF Next, TickerStep, RequestArrives, RequestStep
  <2>2. RunnerStep
    BY <2>1 DEF RecoveryKept, Crash
  <2>3. RecoveryEnds
    BY <2>2
       DEF RunnerStep, RecoveryBegins, Fetch, Evaluate, UpgradeRefused, UpgradeWrites, Finish,
           StartStep, StartRefused, StartFails, StartLaunches, StartEnds, StartUnchanged,
           StopStep, StopNothing, StopSignals, StopRestores, StopEnds, StopUnchanged, runnerVars
  <2>4. pc["runner"] = "Recovering" /\ todo = {}
    BY <2>3 DEF RecoveryEnds, Recovering
  <2> QED
    BY <2>4 DEF RecoveryInv
<1> QED
  BY <1>1, RecoveryInvariant, PTL DEF Spec, RecoveryRestores

-----------------------------------------------------------------------------
(* Commands.                                                                *)

(* Positions of the runner while no command is under way. *)
BetweenCommands == {"Idle", "Looping", "Recovering"}

(* A command is under way after recovery, until it is marked; it was begun  *)
(* before the rest of its batch; and while no write has failed, no pending  *)
(* command is older than one of these.                                      *)
OrderInv ==
    /\ executing # 0 => recovered /\ pc["runner"] \notin BetweenCommands
    /\ \A j \in batch : executing < j
    /\ faults = 0 =>
         \A j \in batch \union {executing}, i \in Pending :
            i < j => i \in batch \union {executing}
    /\ CommandsInOrder

(* What most steps are to the commands. *)
CommandsKept ==
    /\ UNCHANGED <<cmds, batch, executing>>
    /\ faults' = 0 => faults = 0
    /\ executing # 0 => recovered' /\ pc'["runner"] \notin BetweenCommands

LEMMA OrderKept ==
  ASSUME OrderInv, CommandsKept
  PROVE  OrderInv'
BY DEF OrderInv, CommandsKept, CommandsInOrder, Pending

(* Starts and stops end where a command may be under way. *)
LEMMA ThreadsKeepCommands ==
  ASSUME TypeOK, OrderInv, NEW t \in Threads, StartStep(t) \/ StopStep(t)
  PROVE  CommandsKept
<1> USE DEF CommandsKept, BetweenCommands, Goto, runnerVars, dbVars, procVars, mapVars
<1>0. /\ pc \in [Threads -> Positions] /\ "runner" \in Threads /\ faults \in Nat
      /\ "runner" # "ticker" /\ "runner" \notin Requests
      /\ executing # 0 => recovered /\ pc["runner"] \notin BetweenCommands
  BY LauncherAssumption DEF TypeOK, ThreadTypes, StoreTypes, Threads, OrderInv
<1>1. ASSUME NEW s \in Services, StartRefused(t, s) PROVE CommandsKept
  BY <1>0, <1>1 DEF StartRefused, StartUnchanged, AfterFailedStart, Recovering
<1>2. ASSUME NEW s \in Services, StartFails(t, s) PROVE CommandsKept
  BY <1>0, <1>2 DEF StartFails, StartUnchanged, AfterFailedStart, Recovering, Fault
<1>3. ASSUME NEW s \in Services, StartLaunches(t, s) PROVE CommandsKept
  BY <1>0, <1>3 DEF StartLaunches, StartUnchanged
<1>4. CASE StartEnds(t)
  BY <1>0, <1>4 DEF StartEnds, AfterStart, Mark
<1>5. ASSUME NEW s \in Services, StopNothing(t, s) PROVE CommandsKept
  BY <1>0, <1>5 DEF StopNothing, StopUnchanged, AtStop, AfterStop, Mark
<1>6. ASSUME NEW s \in Services, StopSignals(t, s) PROVE CommandsKept
  BY <1>0, <1>6 DEF StopSignals, StopUnchanged, AtStop
<1>7. CASE StopRestores(t)
  BY <1>0, <1>7 DEF StopRestores, StopUnchanged, AfterFailedStop
<1>8. CASE StopEnds(t)
  BY <1>0, <1>8 DEF StopEnds, StopUnchanged, AfterStop, Mark
<1> QED
  BY <1>1, <1>2, <1>3, <1>4, <1>5, <1>6, <1>7, <1>8 DEF StartStep, StopStep

LEMMA OthersKeepCommands ==
  ASSUME TypeOK, OrderInv,
         \/ RecoveryBegins \/ RecoveryEnds \/ UpgradeRefused \/ UpgradeWrites
         \/ Tick \/ TickEnds
         \/ \E s \in Services : Age(s)
         \/ \E r \in Requests, s \in Services : Route(r, s) \/ WakeReads(r, s)
         \/ \E r \in Requests : WakeFindsRunning(r) \/ WakeRefused(r) \/ WakeChecks(r) \/ Touch(r)
         \/ ReportReceived
         \/ \E p \in Procs : Exit(p) \/ WaitForExit(p) \/ OrphanExits(p)
         \/ UNCHANGED vars
  PROVE  CommandsKept
<1> USE DEF CommandsKept, BetweenCommands, Goto, runnerVars, dbVars, procVars, mapVars
<1>0. /\ pc \in [Threads -> Positions] /\ "runner" \in Threads /\ faults \in Nat
      /\ "runner" \notin Requests
      /\ executing # 0 => recovered /\ pc["runner"] \notin BetweenCommands
  BY LauncherAssumption DEF TypeOK, ThreadTypes, StoreTypes, Threads, OrderInv
<1>1. CASE RecoveryBegins \/ RecoveryEnds \/ UpgradeRefused \/ UpgradeWrites
  BY <1>0, <1>1
     DEF RecoveryBegins, RecoveryEnds, UpgradeRefused, UpgradeWrites, RunnerUnchanged, Recovering
<1>2. CASE Tick \/ TickEnds
  BY <1>0, <1>2 DEF Tick, TickEnds
<1>3. ASSUME NEW s \in Services, Age(s) PROVE CommandsKept
  BY <1>0, <1>3 DEF Age
<1>4. ASSUME NEW r \in Requests, NEW s \in Services, Route(r, s) \/ WakeReads(r, s)
      PROVE  CommandsKept
  BY <1>0, <1>4 DEF Route, WakeReads, RequestUnchanged
<1>5. ASSUME NEW r \in Requests,
             WakeFindsRunning(r) \/ WakeRefused(r) \/ WakeChecks(r) \/ Touch(r)
      PROVE  CommandsKept
  BY <1>0, <1>5 DEF WakeFindsRunning, WakeRefused, WakeChecks, Touch, RequestUnchanged
<1>6. CASE ReportReceived
  BY <1>0, <1>6 DEF ReportReceived, ErrorsUnchanged
<1>7. ASSUME NEW p \in Procs, Exit(p) \/ WaitForExit(p) \/ OrphanExits(p) PROVE CommandsKept
  BY <1>0, <1>7 DEF Exit, WaitForExit, Classify, Report, Settle, OrphanExits, ProcUnchanged
<1>8. CASE UNCHANGED vars
  BY <1>0, <1>8 DEF vars
<1> QED
  BY <1>1, <1>2, <1>3, <1>4, <1>5, <1>6, <1>7, <1>8

LEMMA FetchOrder ==
  ASSUME TypeOK, OrderInv, Fetch
  PROVE  OrderInv'
<1>1. executing = 0 /\ executing' = 0 /\ batch' = Pending /\ UNCHANGED <<cmds, faults>>
  BY DEF Fetch, OrderInv, BetweenCommands, dbVars
<1>2. Pending' = Pending /\ Pending \subseteq Nat \ {0}
  BY <1>1 DEF Pending, TypeOK, StoreTypes
<1>3. CommandsInOrder'
  BY <1>1 DEF OrderInv, CommandsInOrder
<1>4. \A j \in batch' : executing' < j
  BY <1>1, <1>2
<1> QED
  BY <1>1, <1>2, <1>3, <1>4 DEF OrderInv

LEMMA EvaluateOrder ==
  ASSUME TypeOK, RecoveryInv, OrderInv, Evaluate
  PROVE  OrderInv'
<1> DEFINE m == NextInBatch
<1>1. m \in batch /\ \A i \in batch : m <= i
  BY FirstOfBatch DEF Evaluate
<1>2. /\ executing = 0 /\ recovered
      /\ executing' = m /\ batch' = batch \ {m} /\ UNCHANGED <<cmds, faults, recovered>>
  <2>1. pc["runner"] = "Looping" /\ executing = 0
    BY DEF Evaluate, OrderInv, BetweenCommands
  <2>2. recovered
    BY <2>1 DEF RecoveryInv
  <2> QED
    BY <2>1, <2>2 DEF Evaluate
<1>3. batch \subseteq Nat /\ Pending \subseteq Nat /\ Pending' = Pending
  BY <1>2 DEF Pending, TypeOK, StoreTypes, RunnerTypes
<1>4. pc'["runner"] \notin BetweenCommands
  <2>1. cmds[m] \in Command
    BY <1>1 DEF TypeOK, StoreTypes, RunnerTypes
  <2>2. FirstStep(cmds[m]) \notin BetweenCommands
    BY <2>1 DEF Command, FirstStep, BetweenCommands
  <2>3. "runner" \in Threads
    BY DEF Threads
  <2> QED
    BY <2>2, <2>3 DEF Evaluate, Goto, TypeOK, ThreadTypes
<1>5. \A j \in batch' : executing' < j
  BY <1>1, <1>2, <1>3
<1>6. CommandsInOrder'
  BY <1>2 DEF OrderInv, CommandsInOrder
<1>7. batch' \union {executing'} = batch
  BY <1>1, <1>2
<1>8. faults' = 0 =>
        \A j \in batch' \union {executing'}, i \in Pending' :
            i < j => i \in batch' \union {executing'}
  <2> SUFFICES ASSUME faults = 0, NEW j \in batch, NEW i \in Pending, i < j
               PROVE  i \in batch
    BY <1>2, <1>3, <1>7
  <2>1. i \in batch \union {executing}
    BY DEF OrderInv
  <2>2. i # 0
    BY DEF Pending, TypeOK, StoreTypes
  <2> QED
    BY <1>2, <2>1, <2>2
<1> QED
  BY <1>2, <1>4, <1>5, <1>6, <1>8 DEF OrderInv

LEMMA FinishOrder ==
  ASSUME TypeOK, OrderInv, Finish
  PROVE  OrderInv'
<1> DEFINE n == Len(cmds)
<1>1. executing' = 0 /\ batch' = batch
  BY DEF Finish
<1>2. cmds \in [1..n -> Command] /\ n \in Nat /\ faults \in Nat /\ executing \in Nat
  BY DEF TypeOK, StoreTypes, RunnerTypes
<1>3. batch \subseteq 1..n
  BY DEF TypeOK, RunnerTypes
<1>4. \A j \in batch' : executing' < j
  BY <1>1, <1>2, <1>3
<1>5. CASE cmds' = cmds /\ faults' = faults + 1
  <2>1. faults' # 0
    BY <1>2, <1>5
  <2> QED
    BY <1>1, <1>4, <2>1 DEF OrderInv, CommandsInOrder
<1>6. ASSUME NEW x \in {"success", "error"}, faults' = faults,
             cmds' = [cmds EXCEPT ![executing].status = x]
      PROVE  OrderInv'
  <2>1. /\ Len(cmds') = n
        /\ \A i \in 1..n : cmds'[i].status = IF i = executing THEN x ELSE cmds[i].status
    BY <1>2, <1>6 DEF Command
  <2>2. Pending' = Pending \ {executing} /\ Pending \subseteq 1..n
    BY <2>1 DEF Pending
  <2>3. faults = 0 => \A i \in Pending' : ~(i < executing)
    <3> SUFFICES ASSUME faults = 0, NEW i \in Pending', i < executing
                 PROVE  FALSE
      OBVIOUS
    <3>1. i \in batch
      BY <2>2 DEF OrderInv
    <3> QED
      BY <1>2, <1>3, <3>1 DEF OrderInv
  <2>4. CommandsInOrder'
    <3> SUFFICES ASSUME NEW i \in 1..n, NEW j \in 1..n, faults = 0, i < j,
                        cmds'[j].status # "pending", cmds'[i].status = "pending"
                 PROVE  FALSE
      BY <1>6, <2>1 DEF CommandsInOrder
    <3>1. i \in Pending'
      BY <2>1 DEF Pending
    <3>2. j # executing /\ cmds[j].status # "pending"
      BY <2>1, <2>3, <3>1
    <3>3. cmds[i].status = "pending"
      BY <2>2, <3>1 DEF Pending
    <3> QED
      BY <3>2, <3>3 DEF OrderInv, CommandsInOrder
  <2>5. faults' = 0 =>
          \A j \in batch' \union {executing'}, i \in Pending' :
              i < j => i \in batch' \union {executing'}
    <3> SUFFICES ASSUME faults = 0, NEW j \in batch, NEW i \in Pending', i < j
                 PROVE  i \in batch
      BY <1>1, <1>2, <1>6, <2>2
    <3> QED
      BY <2>2 DEF OrderInv
  <2> QED
    BY <1>1, <1>4, <2>4, <2>5 DEF OrderInv
<1> QED
  <2>1. CASE pc["runner"] = "Succeeded"
    BY <1>5, <1>6, <2>1 DEF Finish
  <2>2. CASE pc["runner"] # "Succeeded"
    BY <1>5, <1>6, <2>2 DEF Finish
  <2> QED
    BY <2>1, <2>2

(* A new command is the last one. *)
LEMMA AppendOrder ==
  ASSUME TypeOK, OrderInv, NEW c \in Command, c.status = "pending",
         cmds' = Append(cmds, c), faults' = faults, UNCHANGED <<batch, executing, recovered>>,
         pc'["runner"] = pc["runner"]
  PROVE  OrderInv'
<1> DEFINE n == Len(cmds)
<1>1. cmds \in Seq(Command) /\ n \in Nat /\ batch \subseteq 1..n /\ executing \in 0..n
  BY DEF TypeOK, StoreTypes, RunnerTypes
<1>2. Len(cmds') = n + 1 /\ cmds'[n + 1] = c /\ \A i \in 1..n : cmds'[i] = cmds[i]
  BY <1>1
<1>3. Pending' = Pending \union {n + 1} /\ Pending \subseteq 1..n
  BY <1>1, <1>2 DEF Pending
<1>4. CommandsInOrder'
  <2> SUFFICES ASSUME NEW i \in 1..(n + 1), NEW j \in 1..(n + 1), faults = 0, i < j,
                      cmds'[j].status # "pending"
               PROVE  cmds'[i].status # "pending"
    BY <1>2 DEF CommandsInOrder
  <2>1. i \in 1..n /\ j \in 1..n
    BY <1>1, <1>2
  <2> QED
    BY <1>2, <2>1 DEF OrderInv, CommandsInOrder
<1>5. faults' = 0 =>
        \A j \in batch' \union {executing'}, i \in Pending' :
            i < j => i \in batch' \union {executing'}
  <2> SUFFICES ASSUME faults = 0, NEW j \in batch \union {executing}, NEW i \in Pending', i < j
               PROVE  i \in batch \union {executing}
    OBVIOUS
  <2>1. i # n + 1
    BY <1>1
  <2> QED
    BY <1>3, <2>1 DEF OrderInv
<1> QED
  BY <1>4, <1>5 DEF OrderInv

LEMMA OrderStep == TypeOK /\ RecoveryInv /\ OrderInv /\ [Next]_vars => OrderInv'
<1> SUFFICES ASSUME TypeOK, RecoveryInv, OrderInv, [Next]_vars
             PROVE  OrderInv'
  OBVIOUS
<1>1. /\ "runner" \in Threads /\ "ticker" \in Threads /\ "errors" \in Threads
      /\ Requests \subseteq Threads /\ pc \in [Threads -> Positions]
  BY DEF Threads, TypeOK, ThreadTypes
<1>2. ASSUME NEW t \in Threads, StartStep(t) \/ StopStep(t) PROVE OrderInv'
  BY <1>2, ThreadsKeepCommands, OrderKept
<1>3. CASE Fetch \/ Evaluate \/ Finish
  BY <1>3, FetchOrder, EvaluateOrder, FinishOrder
<1>4. CASE RestartPublished
  <2> DEFINE c == [service |-> target["errors"], action |-> "start",
                   status |-> "pending", by |-> "errors"]
  <2>1. UNCHANGED <<batch, executing, recovered>> /\ pc'["runner"] = pc["runner"]
    BY <1>1, <1>4 DEF RestartPublished, ErrorsUnchanged, runnerVars, Goto
  <2>2. CASE cmds' = Append(cmds, c) /\ faults' = faults
    <3>1. c \in Command
      BY <1>1 DEF Command, TypeOK, ThreadTypes
    <3>2. c.status = "pending"
      OBVIOUS
    <3> QED
      BY <2>1, <2>2, <3>1, <3>2, AppendOrder
  <2>3. CASE cmds' = cmds /\ faults' \in {faults, faults + 1}
    <3>1. CommandsKept
      BY <2>1, <2>3 DEF CommandsKept, OrderInv, TypeOK, StoreTypes
    <3> QED
      BY <3>1, OrderKept
  <2> QED
    BY <1>4, <2>2, <2>3 DEF RestartPublished
<1>5. ASSUME NEW s \in Services, NEW a \in UserActions, Publish(s, a) PROVE OrderInv'
  <2> DEFINE c == [service |-> s, action |-> a, status |-> "pending", by |-> "user"]
  <2>1. c \in Command /\ c.status = "pending"
    BY LauncherAssumption DEF Command
  <2>2. /\ cmds' = Append(cmds, c) /\ faults' = faults
        /\ UNCHANGED <<batch, executing, recovered>> /\ pc'["runner"] = pc["runner"]
    BY <1>5 DEF Publish, runnerVars
  <2> QED
    BY <2>1, <2>2, AppendOrder
<1>6. CASE Crash
  <2>1. /\ executing' = 0 /\ batch' = {} /\ cmds' = cmds /\ faults' = faults
    BY <1>6 DEF Crash, dbVars
  <2>2. Pending' = Pending /\ \A i \in Pending : ~(i < 0)
    BY <2>1 DEF Pending, TypeOK, StoreTypes
  <2> QED
    BY <2>1, <2>2 DEF OrderInv, CommandsInOrder
<1>7. CASE \/ RecoveryBegins \/ RecoveryEnds \/ UpgradeRefused \/ UpgradeWrites
           \/ Tick \/ TickEnds
           \/ \E s \in Services : Age(s)
           \/ \E r \in Requests, s \in Services : Route(r, s) \/ WakeReads(r, s)
           \/ \E r \in Requests : \/ WakeFindsRunning(r) \/ WakeRefused(r)
                                  \/ WakeChecks(r) \/ Touch(r)
           \/ ReportReceived
           \/ \E p \in Procs : Exit(p) \/ WaitForExit(p) \/ OrphanExits(p)
           \/ UNCHANGED vars
  BY <1>7, OthersKeepCommands, OrderKept
<1>8. CASE RunnerStep \/ TickerStep
  BY <1>1, <1>2, <1>3, <1>7, <1>8 DEF RunnerStep, TickerStep
<1>9. CASE ErrorsStep
  BY <1>4, <1>7, <1>9 DEF ErrorsStep
<1>10. ASSUME NEW r \in Requests, RequestArrives(r) \/ RequestStep(r) PROVE OrderInv'
  BY <1>1, <1>2, <1>7, <1>10 DEF RequestArrives, RequestStep
<1> QED
  BY <1>5, <1>6, <1>7, <1>8, <1>9, <1>10 DEF Next

(* Commands are finished in the order of their creation while no write has  *)
(* failed, whatever is published meanwhile and wherever PBLauncher ends.    *)
THEOREM InOrderOfCreation == Spec => []CommandsInOrder
<1>1. Init => OrderInv
  <2> SUFFICES ASSUME Init PROVE OrderInv
    OBVIOUS
  <2>1. executing = 0 /\ batch = {} /\ Len(cmds) = 0
    BY DEF Init
  <2>2. Pending = {}
    BY <2>1 DEF Pending
  <2> QED
    BY <2>1, <2>2 DEF OrderInv, CommandsInOrder
<1>2. OrderInv => CommandsInOrder
  BY DEF OrderInv
<1> QED
  BY <1>1, <1>2, TypeCorrect, RecoveryInvariant, OrderStep, PTL DEF Spec
=============================================================================
