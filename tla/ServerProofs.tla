------------------------------ MODULE ServerProofs ------------------------------
(***************************************************************************)
(* Proofs about the parts of Server, for any values of its constants.      *)
(* ServiceDiscoveryProofs and GzipCacheProofs have the argument for their  *)
(* parts; those of the hooks, the clone, the vacuum and the release sync   *)
(* are here, a section each.                                               *)
(***************************************************************************)
EXTENDS Server, FiniteSetTheorems, WellFoundedInduction, TLAPS

DiscoveryP == INSTANCE ServiceDiscoveryProofs WITH record <- cached
GzipP == INSTANCE GzipCacheProofs WITH None <- NoText

-----------------------------------------------------------------------------
(***************************************************************************)
(* The hooks.  As long as nothing disturbs them, no start is under way and *)
(* no process runs during a hook, and the service's data are in the one    *)
(* directory that there is.                                                *)
(***************************************************************************)
OnlyDirectory(n) == \A m \in Directories : dir[m] = IF m = n THEN "data" ELSE "none"

BetweenHooks ==
    IF Hooks!Exists
    THEN /\ OnlyDirectory(record)
         /\ process \in {Hooks!NoProcess, [name |-> record, on |-> "data"]}
         /\ \A x \in Starters : start[x] \in {"idle", record}
    ELSE /\ \A m \in Directories : dir[m] = "none"
         /\ process = Hooks!NoProcess
         /\ \A x \in Starters : start[x] = "idle"

DuringHook ==
    /\ process = Hooks!NoProcess
    /\ \A x \in Starters : start[x] = "idle"
    /\ hook.at # "none"
    /\ IF hook.at = "gone" THEN ~Hooks!Exists ELSE Hooks!Exists
    /\ hook.at \in {"stopped", "moved", "named", "gone"} => hook.to \in Directories \ {record}
    /\ OnlyDirectory(IF hook.at \in {"stopped", "going"} THEN record ELSE hook.to)

HooksInv ==
    /\ Hooks!TypeOK
    /\ hook.at \in {"stopped", "going"} => Hooks!Exists
    /\ ~disturbed => IF Hooks!Quiet THEN BetweenHooks ELSE DuringHook

LEMMA HooksInit == Hooks!Init => HooksInv
<1> SUFFICES ASSUME Hooks!Init PROVE HooksInv
  OBVIOUS
<1>1. /\ record \in Directories /\ hook = Hooks!NoHook /\ hooks = 0 /\ disturbed = FALSE
      /\ dir = [n \in Directories |-> IF n = record THEN "data" ELSE "none"]
      /\ process \in {Hooks!NoProcess, [name |-> record, on |-> "data"]}
      /\ start = [x \in Starters |-> "idle"]
  BY DEF Hooks!Init
<1>2. record # "none" /\ hooks \in 0..MaxHooks
  BY <1>1, ServerAssumption DEF Hooks!HooksAssumption, Hooks!NoName
<1>3. Hooks!TypeOK
  <2>1. process \in [name : Directories \cup {Hooks!NoName}, on : Hooks!Contents \cup {"removed"}]
    BY <1>1 DEF Hooks!Contents, Hooks!NoProcess
  <2>2. dir \in [Directories -> Hooks!Contents]
    BY <1>1 DEF Hooks!Contents
  <2> QED
    BY <1>1, <1>2, <2>1, <2>2 DEF Hooks!TypeOK, Hooks!NoHook
<1>4. BetweenHooks /\ Hooks!Quiet
  BY <1>1, <1>2 DEF BetweenHooks, OnlyDirectory, Hooks!Exists, Hooks!Quiet, Hooks!NoName
<1> QED
  BY <1>1, <1>3, <1>4 DEF HooksInv, Hooks!NoHook

(* Starts and stops between the hooks.                                      *)
LEMMA HooksStarts ==
  ASSUME HooksInv,
         \/ \E x \in Starters : \/ Hooks!ReadsRecord(x) \/ Hooks!StartServiceLocked(x)
                              \/ Hooks!StartFails(x)
         \/ Hooks!Ends
  PROVE  HooksInv'
<1> USE DEF HooksInv, Hooks!NoProcess, Hooks!NoName, Hooks!Exists
<1>1. ASSUME NEW x \in Starters, Hooks!ReadsRecord(x) PROVE HooksInv'
  <2>1. /\ start[x] = "idle" /\ record # "none" /\ start' = [start EXCEPT ![x] = record]
        /\ disturbed' = (disturbed \/ ~Hooks!Quiet)
        /\ UNCHANGED <<record, dir, process, hook, hooks>>
    BY <1>1 DEF Hooks!ReadsRecord
  <2>2. Hooks!TypeOK'
    BY <2>1 DEF Hooks!TypeOK
  <2>3. ~disturbed' => ~disturbed /\ Hooks!Quiet /\ Hooks!Quiet'
    BY <2>1 DEF Hooks!Quiet
  <2>4. ~disturbed' => BetweenHooks'
    BY <2>1, <2>3 DEF BetweenHooks, OnlyDirectory, Hooks!TypeOK
  <2> QED
    BY <2>1, <2>2, <2>3, <2>4
<1>2. ASSUME NEW x \in Starters, Hooks!StartServiceLocked(x) PROVE HooksInv'
  <2> DEFINE n == start[x]
             found == IF dir[n] = "none" THEN "fresh" ELSE dir[n]
  <2>1. /\ n # "idle" /\ start' = [start EXCEPT ![x] = "idle"]
        /\ IF Hooks!Runs
           THEN UNCHANGED <<dir, process>>
           ELSE /\ dir' = [dir EXCEPT ![n] = found]
                /\ process' = [name |-> n, on |-> found]
        /\ UNCHANGED <<record, hook, hooks, disturbed>>
    BY <1>2 DEF Hooks!StartServiceLocked
  <2>2. n \in Directories /\ found \in {"data", "fresh"}
    BY <2>1 DEF Hooks!TypeOK, Hooks!Contents
  <2>3. Hooks!TypeOK'
    BY <2>1, <2>2 DEF Hooks!TypeOK, Hooks!Contents
  <2>4. ASSUME ~disturbed PROVE Hooks!Quiet' /\ BetweenHooks'
    <3>1. Hooks!Quiet /\ Hooks!Quiet' /\ Hooks!Exists /\ Hooks!Exists' /\ n = record /\ BetweenHooks
      BY <2>1, <2>4 DEF Hooks!Quiet, DuringHook, BetweenHooks
    <3>2. dir[record] = "data" /\ found = "data"
      BY <2>2, <3>1 DEF BetweenHooks, OnlyDirectory
    <3> QED
      BY <2>1, <3>1, <3>2 DEF BetweenHooks, OnlyDirectory, Hooks!TypeOK
  <2> QED
    BY <2>1, <2>3, <2>4
<1>3. ASSUME NEW x \in Starters, Hooks!StartFails(x) PROVE HooksInv'
  <2>1. /\ start' = [start EXCEPT ![x] = "idle"]
        /\ UNCHANGED <<record, dir, process, hook, hooks, disturbed>>
    BY <1>3 DEF Hooks!StartFails
  <2>2. Hooks!TypeOK'
    BY <2>1 DEF Hooks!TypeOK
  <2>3. /\ Hooks!Quiet' = Hooks!Quiet
        /\ BetweenHooks => BetweenHooks'
        /\ DuringHook => DuringHook'
    BY <2>1 DEF BetweenHooks, DuringHook, OnlyDirectory, Hooks!Quiet, Hooks!TypeOK
  <2> QED
    BY <2>1, <2>2, <2>3
<1>4. CASE Hooks!Ends
  <2>1. /\ process' = Hooks!NoProcess
        /\ UNCHANGED <<record, dir, start, hook, hooks, disturbed>>
    BY <1>4 DEF Hooks!Ends
  <2>2. Hooks!TypeOK'
    BY <2>1 DEF Hooks!TypeOK, Hooks!Contents
  <2>3. /\ Hooks!Quiet' = Hooks!Quiet
        /\ BetweenHooks => BetweenHooks'
        /\ DuringHook => DuringHook'
    BY <2>1 DEF BetweenHooks, DuringHook, OnlyDirectory, Hooks!Quiet
  <2> QED
    BY <2>1, <2>2, <2>3
<1> QED
  BY <1>1, <1>2, <1>3, <1>4

(* The steps of the hooks.                                                  *)
LEMMA HooksHooks ==
  ASSUME HooksInv,
         \/ \E n \in Directories : Hooks!RenameStops(n)
         \/ Hooks!RenameMoves \/ Hooks!RenameSavesDomain \/ Hooks!RenameSaves
         \/ Hooks!DeleteStops \/ Hooks!DeleteRecord \/ Hooks!DeleteDirectory
         \/ Hooks!HookFails
  PROVE  HooksInv'
<1> USE ServerAssumption
    DEF HooksInv, Hooks!NoProcess, Hooks!NoHook, Hooks!NoName, Hooks!Quiet, Hooks!Exists
<1>1. ASSUME NEW at \in {"stopped", "going"}, NEW to \in Directories \cup {"none"},
             Hooks!HookBegins(at, to), at = "stopped" => to \in Directories \ {record}
      PROVE  HooksInv'
  <2>1. /\ Hooks!Quiet /\ record # "none" /\ hooks' \in 0..MaxHooks
        /\ hook' = [at |-> at, to |-> to]
        /\ process' \in {process, Hooks!NoProcess}
        /\ disturbed' = (disturbed \/ process' # Hooks!NoProcess \/ \E x \in Starters : start[x] # "idle")
        /\ UNCHANGED <<record, dir, start>>
    BY <1>1 DEF Hooks!HookBegins, Hooks!TypeOK, Hooks!HooksAssumption
  <2>2. /\ ~disturbed' => /\ ~disturbed /\ process' = Hooks!NoProcess
                          /\ \A x \in Starters : start[x] = "idle"
        /\ disturbed' \in BOOLEAN
    <3>1. CASE process' # Hooks!NoProcess \/ \E x \in Starters : start[x] # "idle"
      BY <2>1, <3>1
    <3>2. CASE process' = Hooks!NoProcess /\ \A x \in Starters : start[x] = "idle"
      <4>1. disturbed' = disturbed
        BY <2>1, <3>2 DEF Hooks!TypeOK
      <4> QED
        BY <3>2, <4>1 DEF Hooks!TypeOK
    <3> QED
      BY <3>1, <3>2
  <2>3. Hooks!TypeOK'
    BY <2>1, <2>2 DEF Hooks!TypeOK, Hooks!Contents
  <2>4. ~disturbed' => ~Hooks!Quiet' /\ DuringHook'
    BY <1>1, <2>1, <2>2 DEF BetweenHooks, DuringHook, OnlyDirectory
  <2> QED
    BY <2>1, <2>3, <2>4
<1>2. ASSUME NEW n \in Directories, Hooks!RenameStops(n) PROVE HooksInv'
  BY <1>1, <1>2 DEF Hooks!RenameStops
<1>3. CASE Hooks!DeleteStops
  BY <1>1, <1>3 DEF Hooks!DeleteStops
<1>4. CASE Hooks!RenameMoves
  <2>1. /\ hook.at = "stopped" /\ hook' = [hook EXCEPT !.at = "moved"]
        /\ UNCHANGED <<record, process, start, hooks, disturbed>>
    BY <1>4 DEF Hooks!RenameMoves
  <2>2. Hooks!TypeOK'
    <3>1. dir' \in [Directories -> Hooks!Contents]
      BY <1>4 DEF Hooks!RenameMoves, Hooks!TypeOK, Hooks!Contents
    <3> QED
      BY <2>1, <3>1 DEF Hooks!TypeOK
  <2>3. hook'.at = "moved" /\ hook'.to = hook.to /\ hook # Hooks!NoHook /\ hook' # Hooks!NoHook
    BY <2>1 DEF Hooks!TypeOK
  <2>4. ASSUME ~disturbed PROVE DuringHook'
    <3>1. DuringHook /\ record \in Directories /\ record # hook.to /\ hook.to \in Directories
      BY <2>1, <2>3, <2>4 DEF DuringHook, Hooks!TypeOK
    <3>2. dir[record] = "data" /\ \A m \in Directories : m # record => dir[m] = "none"
      BY <2>1, <3>1 DEF DuringHook, OnlyDirectory
    <3>3. dir' = [dir EXCEPT ![hook.to] = "data", ![record] = "none"]
      BY <1>4, <3>2 DEF Hooks!RenameMoves
    <3>4. \A m \in Directories : dir'[m] = IF m = hook.to THEN "data" ELSE "none"
      BY <3>1, <3>2, <3>3 DEF Hooks!TypeOK
    <3> QED
      BY <2>1, <2>3, <3>1, <3>4 DEF DuringHook, OnlyDirectory
  <2> QED
    BY <2>1, <2>2, <2>3, <2>4
<1>5. CASE Hooks!RenameSavesDomain
  <2>1. /\ hook.at = "moved" /\ hook' = [hook EXCEPT !.at = "named"]
        /\ UNCHANGED <<record, dir, process, start, hooks, disturbed>>
    BY <1>5 DEF Hooks!RenameSavesDomain
  <2>2. Hooks!TypeOK'
    BY <2>1 DEF Hooks!TypeOK
  <2>3. hook'.at = "named" /\ hook'.to = hook.to /\ hook # Hooks!NoHook /\ hook' # Hooks!NoHook
    BY <2>1 DEF Hooks!TypeOK
  <2>4. DuringHook => DuringHook'
    BY <2>1, <2>3 DEF DuringHook, OnlyDirectory
  <2> QED
    BY <2>1, <2>2, <2>3, <2>4
<1>6. CASE Hooks!RenameSaves
  <2>1. /\ hook.at = "named" /\ record' = hook.to /\ hook' = Hooks!NoHook /\ hook # Hooks!NoHook
        /\ UNCHANGED <<dir, process, start, hooks, disturbed>>
    BY <1>6 DEF Hooks!RenameSaves
  <2>2. Hooks!TypeOK'
    BY <2>1 DEF Hooks!TypeOK
  <2>3. ~disturbed => BetweenHooks'
    <3> SUFFICES ASSUME ~disturbed PROVE BetweenHooks'
      OBVIOUS
    <3>1. DuringHook /\ hook.to \in Directories /\ hook.to # "none"
      BY <2>1 DEF DuringHook, Hooks!HooksAssumption
    <3> QED
      BY <2>1, <3>1 DEF DuringHook, BetweenHooks, OnlyDirectory
  <2> QED
    BY <2>1, <2>2, <2>3
<1>7. CASE Hooks!DeleteRecord
  <2>1. /\ hook.at = "going" /\ record' = "none" /\ hook' = [at |-> "gone", to |-> record]
        /\ hook # Hooks!NoHook /\ hook' # Hooks!NoHook
        /\ UNCHANGED <<dir, process, start, hooks, disturbed>>
    BY <1>7 DEF Hooks!DeleteRecord
  <2>2. Hooks!TypeOK'
    BY <2>1 DEF Hooks!TypeOK
  <2>3. ~disturbed => DuringHook'
    BY <2>1 DEF DuringHook, OnlyDirectory, Hooks!TypeOK
  <2> QED
    BY <2>1, <2>2, <2>3
<1>8. CASE Hooks!DeleteDirectory
  <2>1. /\ hook.at = "gone" /\ dir' = [dir EXCEPT ![hook.to] = "none"]
        /\ process' = IF process.name = hook.to THEN [process EXCEPT !.on = "removed"] ELSE process
        /\ hook' = Hooks!NoHook /\ hook # Hooks!NoHook
        /\ UNCHANGED <<record, start, hooks, disturbed>>
    BY <1>8 DEF Hooks!DeleteDirectory
  <2>2. Hooks!TypeOK'
    BY <2>1 DEF Hooks!TypeOK, Hooks!Contents
  <2>3. ASSUME ~disturbed PROVE BetweenHooks'
    <3>1. DuringHook /\ hook.to \in Directories /\ hook.to # "none" /\ process = Hooks!NoProcess
      BY <2>1, <2>3 DEF DuringHook, Hooks!HooksAssumption
    <3>2. process' = Hooks!NoProcess
      BY <2>1, <3>1
    <3>3. \A m \in Directories : dir'[m] = "none"
      BY <2>1, <3>1 DEF DuringHook, OnlyDirectory, Hooks!TypeOK
    <3> QED
      BY <2>1, <3>1, <3>2, <3>3 DEF DuringHook, BetweenHooks
  <2> QED
    BY <2>1, <2>2, <2>3
<1>9. CASE Hooks!HookFails
  <2>1. /\ hook # Hooks!NoHook /\ hook' = Hooks!NoHook
        /\ disturbed' = (disturbed \/ hook.at \in {"moved", "named", "gone"})
        /\ UNCHANGED <<record, dir, process, start, hooks>>
    BY <1>9 DEF Hooks!HookFails
  <2>2. disturbed' \in BOOLEAN /\ (~disturbed' => ~disturbed /\ hook.at \notin {"moved", "named", "gone"})
    BY <2>1
  <2>3. Hooks!TypeOK'
    BY <2>1, <2>2 DEF Hooks!TypeOK
  <2>4. ASSUME ~disturbed' PROVE BetweenHooks'
    <3>1. hook.at \in {"stopped", "going"} /\ DuringHook
      BY <2>1, <2>2, <2>4 DEF DuringHook, Hooks!TypeOK
    <3> QED
      BY <2>1, <3>1 DEF DuringHook, BetweenHooks, OnlyDirectory
  <2> QED
    BY <2>1, <2>3, <2>4
<1> QED
  BY <1>2, <1>3, <1>4, <1>5, <1>6, <1>7, <1>8, <1>9

LEMMA HooksStep == HooksInv /\ [Hooks!Next]_(Hooks!vars) => HooksInv'
<1>1. HooksInv /\ UNCHANGED Hooks!vars => HooksInv'
  BY DEF HooksInv, Hooks!vars, Hooks!TypeOK, BetweenHooks, DuringHook, OnlyDirectory,
         Hooks!Quiet, Hooks!Exists
<1> QED
  BY <1>1, HooksStarts, HooksHooks DEF Hooks!Next

LEMMA HooksInvIsTrue == HooksInv => Hooks!TidyUnlessDisturbed
  BY DEF HooksInv, BetweenHooks, OnlyDirectory, Hooks!TidyUnlessDisturbed, Hooks!DeletedIsGone,
         Hooks!NameLeadsToData, Hooks!Quiet, Hooks!Exists, Hooks!Runs, Hooks!TypeOK, Hooks!NoName

-----------------------------------------------------------------------------
(***************************************************************************)
(* The clone.  As long as nothing disturbs it, the source's data stay what *)
(* they are while they are copied, and nothing starts the new service      *)
(* while it is made.                                                       *)
(***************************************************************************)
BetweenClones ==
    IF record = "none"
    THEN ~dir /\ ~process /\ ~command /\ start = "idle"
    ELSE dir /\ Clone!CopyIsWhole

DuringClone ==
    /\ start = "idle" /\ ~process /\ ~command
    /\ clone \in {"checked", "head"} => ~dir
    /\ clone = "checked" => record = "none"
    /\ clone \in {"tail", "stop", "domain", "publish"} => dir
    /\ clone \in {"head", "tail", "stop", "domain", "publish"} => record # "none"
    /\ clone = "tail" => copy.head = data
    /\ clone \in {"stop", "domain", "publish"} => Clone!CopyIsWhole

CloneInv ==
    /\ Clone!TypeOK
    /\ ~disturbed => IF Clone!Quiet THEN BetweenClones ELSE DuringClone

LEMMA CloneInit == Clone!Init => CloneInv
<1> SUFFICES ASSUME Clone!Init PROVE CloneInv
  OBVIOUS
<1>1. /\ source \in {"stopped", "running"} /\ data = 1
      /\ record = "none" /\ dir = FALSE /\ copy = [head |-> 0, tail |-> 0]
      /\ process = FALSE /\ clone = "idle" /\ start = "idle" /\ command = FALSE
      /\ clones = 0 /\ disturbed = FALSE
  BY DEF Clone!Init, Clone!Nothing
<1>2. data \in 1..MaxWrites /\ 0 \in 0..MaxWrites /\ clones \in 0..MaxClones
  BY <1>1, ServerAssumption DEF Clone!BoundsAssumption
<1>3. Clone!TypeOK
  BY <1>1, <1>2 DEF Clone!TypeOK, Clone!Nothing
<1> QED
  BY <1>1, <1>3 DEF CloneInv, BetweenClones, Clone!Quiet

(* The request, step by step.                                               *)
LEMMA CloneRequest ==
  ASSUME CloneInv,
         \/ Clone!CloneBegins \/ Clone!SaveRestoring \/ Clone!copyDir \/ Clone!SaveStopped
         \/ Clone!CreateFriendlyDomain \/ Clone!PublishStartCommand \/ Clone!CloneFails
  PROVE  CloneInv'
<1> USE ServerAssumption
    DEF CloneInv, Clone!TypeOK, Clone!Quiet, Clone!CopyIsWhole, Clone!Nothing, Clone!Statuses,
        Clone!BoundsAssumption
<1>1. CASE Clone!CloneBegins
  <2>1. /\ clone = "idle" /\ clone' = "checked" /\ clones' \in 0..MaxClones
        /\ record = "none" /\ ~dir
        /\ disturbed' = (disturbed \/ start # "idle")
        /\ UNCHANGED <<source, data, record, dir, copy, process, start, command>>
    BY <1>1 DEF Clone!CloneBegins
  <2>2. disturbed' \in BOOLEAN /\ (~disturbed' => ~disturbed)
    BY <2>1
  <2>3. Clone!TypeOK'
    BY <2>1, <2>2
  <2>4. ~disturbed' => DuringClone'
    BY <2>1, <2>2 DEF BetweenClones, DuringClone
  <2> QED
    BY <2>1, <2>3, <2>4
<1>2. CASE Clone!SaveRestoring
  BY <1>2 DEF Clone!SaveRestoring, DuringClone
<1>3. CASE Clone!copyDir
  <2>1. disturbed' \in BOOLEAN /\ (~disturbed' => ~disturbed) /\ clone' # "idle"
    BY <1>3 DEF Clone!copyDir
  <2>2. Clone!TypeOK'
    BY <1>3, <2>1 DEF Clone!copyDir
  <2>3. ~disturbed' => DuringClone'
    BY <1>3, <2>1 DEF Clone!copyDir, DuringClone
  <2> QED
    BY <2>1, <2>2, <2>3
<1>4. CASE Clone!SaveStopped
  BY <1>4 DEF Clone!SaveStopped, DuringClone
<1>5. CASE Clone!CreateFriendlyDomain
  BY <1>5 DEF Clone!CreateFriendlyDomain, DuringClone
<1>6. CASE Clone!PublishStartCommand
  BY <1>6 DEF Clone!PublishStartCommand, DuringClone, BetweenClones
<1>7. CASE Clone!CloneFails
  <2>1. clone' = "idle" /\ UNCHANGED <<source, data, process, start, command, clones>>
    BY <1>7 DEF Clone!CloneFails
  <2>2. ASSUME Clone!Removed PROVE dir' = FALSE /\ copy' = Clone!Nothing
                                   /\ copy' \in [head : 0..MaxWrites, tail : 0..MaxWrites]
    BY <2>2 DEF Clone!Removed
  <2>3. ASSUME Clone!PartlyRemoved PROVE dir' = TRUE
                                   /\ copy' \in [head : 0..MaxWrites, tail : 0..MaxWrites]
    BY <2>3 DEF Clone!PartlyRemoved
  <2>4. CASE Clone!CopyOrDomainFails
    <3>1. /\ clone \in {"head", "tail", "domain"} /\ record' \in {"none", record}
          /\ Clone!Removed \/ Clone!PartlyRemoved
          /\ disturbed' = (disturbed \/ record' # "none" \/ dir')
      BY <2>4 DEF Clone!CopyOrDomainFails
    <3>2. disturbed' \in BOOLEAN /\ (~disturbed' => ~disturbed /\ record' = "none" /\ ~dir')
      BY <3>1
    <3>3. Clone!TypeOK'
      BY <2>1, <2>2, <2>3, <3>1, <3>2
    <3>4. ~disturbed' => BetweenClones'
      BY <2>1, <3>1, <3>2 DEF DuringClone, BetweenClones
    <3> QED
      BY <2>1, <3>3, <3>4
  <2>5. CASE Clone!SaveStoppedFails
    <3>1. (Clone!Removed \/ Clone!PartlyRemoved) /\ disturbed' = TRUE /\ UNCHANGED record
      BY <2>5 DEF Clone!SaveStoppedFails
    <3> QED
      BY <2>1, <2>2, <2>3, <3>1
  <2>6. CASE Clone!EndsFail
    BY <2>1, <2>6 DEF Clone!EndsFail, DuringClone, BetweenClones
  <2> QED
    BY <1>7, <2>4, <2>5, <2>6 DEF Clone!CloneFails
<1> QED
  BY <1>1, <1>2, <1>3, <1>4, <1>5, <1>6, <1>7

(* What goes on beside it.                                                  *)
LEMMA CloneBeside ==
  ASSUME CloneInv,
         \/ Clone!WakeupReads \/ Clone!WakeupStarts \/ Clone!CommandStarts
         \/ Clone!SourceStarts \/ Clone!SourceStops \/ Clone!SourceWrites
         \/ Clone!SourceReplaced \/ Clone!UserRemoves \/ Clone!Crash
  PROVE  CloneInv'
<1> USE ServerAssumption
    DEF CloneInv, Clone!TypeOK, Clone!Quiet, Clone!CopyIsWhole, Clone!Nothing, Clone!Statuses,
        Clone!BoundsAssumption
<1>1. CASE Clone!WakeupReads
  <2>1. /\ disturbed' = (disturbed \/ clone # "idle")
        /\ UNCHANGED <<source, data, record, dir, copy, process, clone, command, clones>>
    BY <1>1 DEF Clone!WakeupReads
  <2>2. disturbed' \in BOOLEAN /\ (~disturbed' => ~disturbed /\ clone = "idle")
    BY <2>1
  <2>3. Clone!TypeOK'
    BY <1>1, <2>1, <2>2 DEF Clone!WakeupReads
  <2>4. ~disturbed' => BetweenClones'
    BY <1>1, <2>1, <2>2 DEF Clone!WakeupReads, BetweenClones
  <2> QED
    BY <2>1, <2>2, <2>3, <2>4
<1>2. CASE Clone!WakeupStarts
  BY <1>2 DEF Clone!WakeupStarts, Clone!Starts, DuringClone, BetweenClones
<1>3. CASE Clone!CommandStarts
  BY <1>3 DEF Clone!CommandStarts, Clone!Starts, DuringClone, BetweenClones
<1>4. CASE Clone!SourceStarts \/ Clone!SourceStops
  <2>1. /\ disturbed' \in BOOLEAN /\ (~disturbed' => ~disturbed)
        /\ source' \in {"stopped", "running"}
        /\ UNCHANGED <<data, record, dir, copy, process, clone, start, command, clones>>
    BY <1>4 DEF Clone!SourceStarts, Clone!SourceStops
  <2>2. Clone!TypeOK'
    BY <2>1
  <2>3. ~disturbed' /\ clone = "idle" => BetweenClones'
    BY <2>1 DEF BetweenClones
  <2>4. ~disturbed' /\ clone # "idle" => DuringClone'
    BY <2>1 DEF DuringClone
  <2> QED
    BY <2>1, <2>2, <2>3, <2>4 DEF CloneInv, Clone!Quiet
<1>5. CASE Clone!SourceWrites \/ Clone!SourceReplaced
  <2>1. /\ data < MaxWrites /\ data' = data + 1
        /\ disturbed' = (disturbed \/ clone \in {"head", "tail"})
        /\ source' \in {"stopped", "running", "replaced"}
        /\ UNCHANGED <<record, dir, copy, process, clone, start, command, clones>>
    BY <1>5 DEF Clone!SourceWrites, Clone!SourceReplaced, Clone!SourceChanges
  <2>2. disturbed' \in BOOLEAN /\ (~disturbed' => ~disturbed /\ clone \notin {"head", "tail"})
    BY <2>1
  <2>3. data' \in 1..MaxWrites
    BY <2>1
  <2>4. Clone!TypeOK'
    BY <2>1, <2>2, <2>3
  <2>5. ~disturbed' /\ clone = "idle" => BetweenClones'
    BY <2>1, <2>2 DEF BetweenClones
  <2>6. ~disturbed' /\ clone # "idle" => DuringClone'
    BY <2>1, <2>2 DEF DuringClone
  <2> QED
    BY <2>1, <2>4, <2>5, <2>6 DEF CloneInv, Clone!Quiet
<1>6. CASE Clone!Crash
  BY <1>6 DEF Clone!Crash
<1>7. CASE Clone!UserRemoves
  <2>1. /\ record' = "none" /\ dir' = FALSE /\ process' = FALSE /\ command' = FALSE
        /\ copy' = [head |-> 0, tail |-> 0]
        /\ disturbed' = (disturbed \/ clone # "idle" \/ start # "idle")
        /\ UNCHANGED <<source, data, clone, start, clones>>
    BY <1>7 DEF Clone!UserRemoves
  <2>2. disturbed' \in BOOLEAN /\ (~disturbed' => ~disturbed /\ clone = "idle" /\ start = "idle")
    BY <2>1
  <2>3. 0 \in 0..MaxWrites
    OBVIOUS
  <2>4. copy' \in [head : 0..MaxWrites, tail : 0..MaxWrites]
    BY <2>1, <2>3
  <2>5. Clone!TypeOK'
    BY <2>1, <2>2, <2>4
  <2>6. ~disturbed' => BetweenClones' /\ clone' = "idle"
    BY <2>1, <2>2 DEF BetweenClones
  <2> QED
    BY <2>5, <2>6 DEF CloneInv, Clone!Quiet
<1> QED
  BY <1>1, <1>2, <1>3, <1>4, <1>5, <1>6, <1>7

LEMMA CloneStep == CloneInv /\ [Clone!Next]_(Clone!vars) => CloneInv'
<1>1. CloneInv /\ UNCHANGED Clone!vars => CloneInv'
  BY DEF CloneInv, Clone!vars, Clone!TypeOK, Clone!Quiet, Clone!CopyIsWhole, Clone!Nothing,
         BetweenClones, DuringClone
<1> QED
  BY <1>1, CloneRequest, CloneBeside DEF Clone!Next

LEMMA CloneInvIsTrue == CloneInv => Clone!WholeOrNothing
  BY DEF CloneInv, BetweenClones, Clone!WholeOrNothing

-----------------------------------------------------------------------------
(***************************************************************************)
(* The vacuum.  While a service is compacted its mark is there, and every  *)
(* wake-up that has passed the mark came before it or too late.            *)
(***************************************************************************)
VacuumInv ==
    /\ running \subseteq Services /\ wakeup \in [Services -> {"idle", "waits", "passed"}]
    /\ sweep = [at |-> sweep.at, services |-> sweep.services]
    /\ sweep.at = "vacuum" =>
        /\ Vacuum!Current \in vacuumingSet
        /\ ~late /\ Vacuum!Current \in Services =>
            Vacuum!Current \notin running /\ wakeup[Vacuum!Current] # "passed"

LEMMA VacuumInit == Vacuum!Init => VacuumInv
  BY DEF Vacuum!Init, Vacuum!NoSweep, VacuumInv

LEMMA VacuumStep == VacuumInv /\ [Vacuum!Next]_(Vacuum!vars) => VacuumInv'
<1> SUFFICES ASSUME VacuumInv, [Vacuum!Next]_(Vacuum!vars) PROVE VacuumInv'
  OBVIOUS
<1> USE ServerAssumption DEF VacuumInv, Vacuum!Current, Vacuum!BoundsAssumption
<1>1. CASE UNCHANGED Vacuum!vars
  BY <1>1 DEF Vacuum!vars
<1>2. CASE Vacuum!Clock
  BY <1>2 DEF Vacuum!Clock
(* The sweep is not at a service when it begins, goes on or ends.           *)
<1>3. CASE \/ Vacuum!RunVacuumSweep \/ Vacuum!SweepEnds \/ Vacuum!Looks \/ Vacuum!LooksAgain
           \/ Vacuum!markVacuumDone \/ Vacuum!VacuumFails
  <2>1. UNCHANGED <<running, wakeup>>
    BY <1>3 DEF Vacuum!RunVacuumSweep, Vacuum!SweepEnds, Vacuum!Looks, Vacuum!LooksAgain,
                Vacuum!markVacuumDone, Vacuum!VacuumFails
  <2>2. \/ \E at, services : at # "vacuum" /\ sweep' = [at |-> at, services |-> services]
        \/ \E at \in {"jitter", "mark"} : sweep' = [sweep EXCEPT !.at = at]
    BY <1>3 DEF Vacuum!RunVacuumSweep, Vacuum!SweepEnds, Vacuum!Looks, Vacuum!LooksAgain,
                Vacuum!markVacuumDone, Vacuum!VacuumFails, Vacuum!UnlockVacuum, Vacuum!GoOn,
                Vacuum!NoSweep
  <2>3. sweep' = [at |-> sweep'.at, services |-> sweep'.services] /\ sweep'.at # "vacuum"
    BY <2>2
  <2> QED
    BY <2>1, <2>3
<1>4. CASE Vacuum!LockVacuum
  <2>1. /\ vacuumingSet' = vacuumingSet \cup {Vacuum!Current}
        /\ sweep' = [sweep EXCEPT !.at = "vacuum"]
        /\ late' = (Vacuum!Current \in running \/ wakeup[Vacuum!Current] = "passed")
        /\ UNCHANGED <<running, wakeup>>
    BY <1>4 DEF Vacuum!LockVacuum, Vacuum!PassedBefore
  <2>2. /\ sweep' = [at |-> "vacuum", services |-> sweep.services]
        /\ Vacuum!Current' = Vacuum!Current
    BY <2>1
  <2> QED
    BY <2>1, <2>2
<1>5. ASSUME NEW s \in Requested, Vacuum!WakeupService(s) PROVE VacuumInv'
  BY <1>5 DEF Vacuum!WakeupService
<1>6. ASSUME NEW s \in Requested, Vacuum!StopsWaiting(s) PROVE VacuumInv'
  <2>1. /\ wakeup' = [wakeup EXCEPT ![s] = "passed"] /\ UNCHANGED <<running, sweep, vacuumingSet>>
        /\ (s \notin vacuumingSet /\ late' = late) \/ late' = TRUE
    BY <1>6 DEF Vacuum!StopsWaiting
  <2> QED
    BY <2>1
<1>7. ASSUME NEW s \in Requested, Vacuum!WakeupStarts(s) PROVE VacuumInv'
  BY <1>7 DEF Vacuum!WakeupStarts
<1>8. ASSUME NEW s \in Services, Vacuum!CommandStarts(s) PROVE VacuumInv'
  <2>1. /\ running' = running \cup {s} /\ late' = (late \/ s \in vacuumingSet)
        /\ UNCHANGED <<sweep, vacuumingSet, wakeup>>
    BY <1>8 DEF Vacuum!CommandStarts
  <2>2. ~late' => ~late /\ s \notin vacuumingSet
    BY <2>1
  <2> QED
    BY <2>1, <2>2
<1>9. ASSUME NEW s \in Services, Vacuum!Stops(s) PROVE VacuumInv'
  BY <1>9 DEF Vacuum!Stops
<1> QED
  BY <1>1, <1>2, <1>3, <1>4, <1>5, <1>6, <1>7, <1>8, <1>9 DEF Vacuum!Next

LEMMA VacuumInvIsTrue == VacuumInv => Vacuum!AloneUnlessLate
  BY DEF VacuumInv, Vacuum!AloneUnlessLate

-----------------------------------------------------------------------------
(***************************************************************************)
(* The order of the sweep.  sortByLastVacuum keeps the services it is      *)
(* given and puts them in the order of their dates; arguments over the     *)
(* length of a sequence are by the least counterexample.                   *)
(***************************************************************************)
NatLess == {p \in Nat \X Nat : p[1] < p[2]}

LEMMA LeastNumber ==
  ASSUME NEW T, T \subseteq Nat, T # {}
  PROVE  \E n \in T : \A m \in T : n <= m
<1>1. IsWellFoundedOn(NatLess, Nat)
  BY NatLessThanWellFounded DEF OpToRel, NatLess
<1>2. PICK n \in T : \A m \in T : <<m, n>> \notin NatLess
  BY <1>1, WFMin
<1>3. \A m \in T : m \in Nat /\ n \in Nat /\ ~(m < n)
  BY <1>2 DEF NatLess
<1> QED
  BY <1>3

\* q has each of its services once, and those compacted earlier first.
Once(q) == \A i, j \in 1..Len(q) : q[i] = q[j] => i = j
InOrderOfDates(q) == \A i, j \in 1..Len(q) : i < j => last_vacuum_at[q[i]] <= last_vacuum_at[q[j]]
Has(q, s) == \E i \in 1..Len(q) : q[i] = s

\* q is the services of r up to the n-th, sorted.
SortedUpto(q, r, n) ==
    /\ q \in Seq(Services)
    /\ Once(q) /\ InOrderOfDates(q)
    /\ \A s : Has(q, s) <=> \E j \in 1..n : r[j] = s

LEMMA InsertedAt ==
  ASSUME NEW q \in Seq(Services), NEW s \in Services, NEW k \in 0..Len(q)
  PROVE  LET h == Vacuum!InsertAt(q, k + 1, s)
         IN  /\ h \in Seq(Services) /\ Len(h) = Len(q) + 1
             /\ \A i \in 1..k : h[i] = q[i]
             /\ h[k + 1] = s
             /\ \A i \in (k + 2)..(Len(q) + 1) : h[i] = q[i - 1]
<1>1. Len(q) \in Nat /\ k \in Nat /\ k <= Len(q) /\ k + 1 - 1 = k
  OBVIOUS
<1> DEFINE a == SubSeq(q, 1, k)
           b == SubSeq(q, k + 1, Len(q))
<1>2. a \in Seq(Services) /\ Len(a) = k /\ \A i \in 1..k : a[i] = q[i]
  BY <1>1
<1>3. /\ b \in Seq(Services) /\ Len(b) = Len(q) - k
      /\ \A i \in 1..(Len(q) - k) : b[i] = q[k + i]
  BY <1>1
<1>4. Vacuum!InsertAt(q, k + 1, s) = (a \o <<s>>) \o b
  <2>1. Vacuum!InsertAt(q, k + 1, s) = (SubSeq(q, 1, (k + 1) - 1) \o <<s>>) \o b
    BY DEF Vacuum!InsertAt
  <2>2. (k + 1) - 1 = k
    BY <1>1
  <2> QED
    BY <2>1, <2>2
<1> HIDE DEF a, b
<1> DEFINE c == a \o <<s>>
           h == c \o b
<1>5. c \in Seq(Services) /\ Len(c) = k + 1 /\ (\A i \in 1..k : c[i] = q[i]) /\ c[k + 1] = s
  BY <1>1, <1>2
<1> HIDE DEF c
<1>6. h \in Seq(Services) /\ Len(h) = Len(q) + 1
  <2>0. c \in Seq(Services) /\ b \in Seq(Services)
    BY <1>3, <1>5
  <2>1. h \in Seq(Services) /\ Len(h) = Len(c) + Len(b)
    BY <2>0
  <2> QED
    BY <1>1, <1>3, <1>5, <2>1
<1>7. \A i \in 1..(k + 1) : h[i] = c[i]
  BY <1>1, <1>3, <1>5
<1>8. \A i \in (k + 2)..(Len(q) + 1) : h[i] = q[i - 1]
  <2> SUFFICES ASSUME NEW i \in (k + 2)..(Len(q) + 1) PROVE h[i] = q[i - 1]
    OBVIOUS
  <2>1. i \in Int /\ k + 2 <= i /\ i <= Len(q) + 1
    BY <1>1
  <2>2. i - (k + 1) \in 1..(Len(q) - k) /\ k + (i - (k + 1)) = i - 1
    BY <1>1, <2>1
  <2>3. h[i] = b[i - (k + 1)]
    BY <1>1, <1>3, <1>5, <2>1
  <2> QED
    BY <1>3, <2>2, <2>3
<1>9. (\A i \in 1..k : h[i] = q[i]) /\ h[k + 1] = s
  BY <1>1, <1>5, <1>7
<1> QED
  BY <1>4, <1>6, <1>8, <1>9 DEF c

\* The place that Insert finds is there.
LEMMA Place ==
  ASSUME NEW q \in Seq(Services), NEW Later
  PROVE  \E k \in 0..Len(q) :
            /\ k # 0 => q[k] \notin Later
            /\ \A j \in (k + 1)..Len(q) : q[j] \in Later
<1> DEFINE T == {n \in 0..Len(q) : \A j \in (n + 1)..Len(q) : q[j] \in Later}
<1>1. Len(q) \in Nat /\ Len(q) \in T /\ T \subseteq Nat
  OBVIOUS
<1>2. PICK k \in T : \A m \in T : k <= m
  BY <1>1, LeastNumber
<1>3. k \in 0..Len(q) /\ k \in Nat /\ \A j \in (k + 1)..Len(q) : q[j] \in Later
  BY <1>1, <1>2
<1>4. ASSUME k # 0, q[k] \in Later
      PROVE  FALSE
  <2>1. k - 1 \in 0..Len(q)
    BY <1>1, <1>3, <1>4
  <2>2. \A j \in ((k - 1) + 1)..Len(q) : j = k \/ j \in (k + 1)..Len(q)
    BY <1>1, <1>3
  <2>3. k - 1 \in T
    BY <1>3, <1>4, <2>1, <2>2
  <2> QED
    BY <1>2, <1>3, <2>3
<1> QED
  BY <1>3, <1>4

LEMMA InsertSorts ==
  ASSUME last_vacuum_at \in [Services -> Nat], NEW r, NEW n \in Nat \ {0}, NEW q,
         SortedUpto(q, r, n - 1), r[n] \in Services, \A j \in 1..(n - 1) : r[j] # r[n]
  PROVE  SortedUpto(Vacuum!Insert(q, r[n]), r, n)
<1> DEFINE s == r[n]
           h == Vacuum!Insert(q, s)
           Later(t) == last_vacuum_at[t] > last_vacuum_at[s]
<1>1. q \in Seq(Services) /\ Len(q) \in Nat /\ s \in Services /\ ~Has(q, s)
  BY DEF SortedUpto
<1> DEFINE Is(k) == /\ k # 0 => ~Later(q[k])
                    /\ \A j \in (k + 1)..Len(q) : Later(q[j])
           k == CHOOSE i \in 0..Len(q) : Is(i)
<1>2. k \in 0..Len(q) /\ Is(k)
  <2>1. \E i \in 0..Len(q) : Is(i)
    <3> DEFINE L == {t \in Services : Later(t)}
    <3>1. PICK i \in 0..Len(q) : /\ i # 0 => q[i] \notin L
                                 /\ \A j \in (i + 1)..Len(q) : q[j] \in L
      BY <1>1, Place
    <3>2. i # 0 => q[i] \in Services
      BY <1>1
    <3> QED
      BY <3>1, <3>2
  <2> QED
    BY <2>1
<1>3. h = Vacuum!InsertAt(q, k + 1, s)
  BY DEF Vacuum!Insert
<1> HIDE DEF k
<1>4. /\ h \in Seq(Services) /\ Len(h) = Len(q) + 1
      /\ \A i \in 1..k : h[i] = q[i]
      /\ h[k + 1] = s
      /\ \A i \in (k + 2)..(Len(q) + 1) : h[i] = q[i - 1]
  <2> DEFINE g == Vacuum!InsertAt(q, k + 1, s)
  <2>1. q \in Seq(Services) /\ s \in Services /\ k \in 0..Len(q)
    BY <1>1, <1>2
  <2> HIDE DEF h, s, Is, Later
  <2>2. /\ g \in Seq(Services) /\ Len(g) = Len(q) + 1
        /\ \A i \in 1..k : g[i] = q[i]
        /\ g[k + 1] = s
        /\ \A i \in (k + 2)..(Len(q) + 1) : g[i] = q[i - 1]
    BY <2>1, InsertedAt
  <2> QED
    BY <1>3, <2>2
<1> HIDE DEF h, s
<1>5. k \in Nat /\ k <= Len(q)
  BY <1>1, <1>2
\* What was where before.
<1> DEFINE Was(i) == IF i <= k THEN i ELSE i - 1
<1>6. ASSUME NEW i \in 1..Len(h), i # k + 1
      PROVE  Was(i) \in 1..Len(q) /\ h[i] = q[Was(i)]
  <2>1. i \in Int /\ 1 <= i /\ i <= Len(q) + 1
    BY <1>1, <1>4
  <2>2. CASE i <= k
    <3>1. i \in 1..k /\ i \in 1..Len(q)
      BY <1>1, <1>5, <2>1, <2>2
    <3> QED
      BY <1>4, <2>2, <3>1
  <2>3. CASE ~(i <= k)
    <3>1. i \in (k + 2)..(Len(q) + 1) /\ i - 1 \in 1..Len(q)
      BY <1>1, <1>5, <1>6, <2>1, <2>3
    <3> QED
      BY <1>4, <2>3, <3>1
  <2> QED
    BY <2>2, <2>3
<1>7. ASSUME NEW j \in 1..Len(q)
      PROVE  \E i \in 1..Len(h) : h[i] = q[j]
  <2>1. j \in Int /\ 1 <= j /\ j <= Len(q)
    BY <1>1
  <2>2. CASE j <= k
    <3>1. j \in 1..k /\ j \in 1..Len(h)
      BY <1>1, <1>4, <1>5, <2>1, <2>2
    <3> QED
      BY <1>4, <3>1
  <2>3. CASE ~(j <= k)
    <3>1. j + 1 \in (k + 2)..(Len(q) + 1) /\ j + 1 \in 1..Len(h) /\ (j + 1) - 1 = j
      BY <1>1, <1>4, <1>5, <2>1, <2>3
    <3> QED
      BY <1>4, <3>1
  <2> QED
    BY <2>2, <2>3
<1>8. k + 1 \in 1..Len(h)
  BY <1>1, <1>4, <1>5
<1>9. \A t : Has(h, t) <=> Has(q, t) \/ t = s
  <2>1. ASSUME NEW t, Has(h, t) PROVE Has(q, t) \/ t = s
    <3>1. PICK i \in 1..Len(h) : h[i] = t
      BY <2>1 DEF Has
    <3>2. i # k + 1 => Was(i) \in 1..Len(q) /\ q[Was(i)] = t
      BY <1>6, <3>1
    <3> HIDE DEF Was
    <3> QED
      BY <1>4, <3>1, <3>2 DEF Has
  <2>2. ASSUME NEW t, Has(q, t) PROVE Has(h, t)
    BY <1>7, <2>2 DEF Has
  <2>3. Has(h, s)
    BY <1>4, <1>8 DEF Has
  <2> QED
    BY <2>1, <2>2, <2>3
<1>10. \A i \in 1..Len(h) : h[i] = s => i = k + 1
  <2> SUFFICES ASSUME NEW i \in 1..Len(h), i # k + 1 PROVE h[i] # s
    OBVIOUS
  <2>1. Was(i) \in 1..Len(q) /\ h[i] = q[Was(i)]
    BY <1>6
  <2> HIDE DEF Was
  <2> QED
    BY <1>1, <2>1 DEF Has
<1>11. Once(h)
  <2> SUFFICES ASSUME NEW i \in 1..Len(h), NEW j \in 1..Len(h), h[i] = h[j] PROVE i = j
    BY DEF Once
  <2>1. CASE i = k + 1 \/ j = k + 1
    BY <1>4, <1>10, <2>1
  <2>2. CASE i # k + 1 /\ j # k + 1
    <3>1. /\ Was(i) \in 1..Len(q) /\ h[i] = q[Was(i)]
          /\ Was(j) \in 1..Len(q) /\ h[j] = q[Was(j)]
      BY <1>6, <2>2
    <3>2. Was(i) = Was(j)
      <4> HIDE DEF Was
      <4> QED
        BY <3>1 DEF SortedUpto, Once
    <3>3. i \in Int /\ j \in Int
      OBVIOUS
    <3> QED
      BY <1>5, <2>2, <3>2, <3>3
  <2> QED
    BY <2>1, <2>2
<1>12. \A t \in Services : last_vacuum_at[t] \in Nat
  OBVIOUS
<1>13. ASSUME NEW j \in 1..k
       PROVE  last_vacuum_at[q[j]] <= last_vacuum_at[s]
  <2>1. k \in 1..Len(q) /\ j \in 1..Len(q) /\ j <= k
    BY <1>1, <1>5
  <2>2. ~(last_vacuum_at[q[k]] > last_vacuum_at[s])
    BY <1>2, <2>1
  <2>3. q[k] \in Services /\ q[j] \in Services
    BY <1>1, <2>1
  <2>4. last_vacuum_at[q[j]] <= last_vacuum_at[q[k]]
    <3>1. j < k => last_vacuum_at[q[j]] <= last_vacuum_at[q[k]]
      BY <2>1 DEF SortedUpto, InOrderOfDates
    <3>2. j = k \/ j < k
      BY <2>1
    <3> QED
      BY <1>12, <2>3, <3>1, <3>2
  <2>5. last_vacuum_at[q[j]] \in Nat /\ last_vacuum_at[q[k]] \in Nat /\ last_vacuum_at[s] \in Nat
    BY <1>1, <1>12, <2>3
  <2> QED
    BY <2>2, <2>4, <2>5
<1>14. InOrderOfDates(h)
  <2> SUFFICES ASSUME NEW i \in 1..Len(h), NEW j \in 1..Len(h), i < j
               PROVE  last_vacuum_at[h[i]] <= last_vacuum_at[h[j]]
    BY DEF InOrderOfDates
  <2>1. i \in Int /\ j \in Int /\ 1 <= i /\ 1 <= j
    OBVIOUS
  <2>2. CASE i = k + 1
    <3>1. j # k + 1 /\ ~(j <= k)
      BY <1>5, <2>1, <2>2
    <3>2. Was(j) \in 1..Len(q) /\ h[j] = q[j - 1] /\ j - 1 \in (k + 1)..Len(q)
      BY <1>1, <1>5, <1>6, <2>1, <2>2, <3>1
    <3>3. last_vacuum_at[h[j]] > last_vacuum_at[s]
      BY <1>2, <3>2
    <3>4. h[j] \in Services
      BY <1>4
    <3> QED
      BY <1>1, <1>4, <1>12, <2>2, <3>3, <3>4
  <2>3. CASE j = k + 1
    <3>1. i \in 1..k
      BY <1>5, <2>1, <2>3
    <3> QED
      BY <1>4, <1>13, <2>3, <3>1
  <2>4. CASE i # k + 1 /\ j # k + 1
    <3>1. /\ Was(i) \in 1..Len(q) /\ h[i] = q[Was(i)]
          /\ Was(j) \in 1..Len(q) /\ h[j] = q[Was(j)]
      BY <1>6, <2>4
    <3>2. Was(i) < Was(j)
      BY <1>5, <2>1, <2>4
    <3> HIDE DEF Was
    <3> QED
      BY <3>1, <3>2 DEF SortedUpto, InOrderOfDates
  <2> QED
    BY <2>2, <2>3, <2>4
<1>15. \A t : Has(h, t) <=> \E j \in 1..n : r[j] = t
  <2>1. \A j \in 1..n : j = n \/ j \in 1..(n - 1)
    OBVIOUS
  <2>2. n \in 1..n /\ 1..(n - 1) \subseteq 1..n
    OBVIOUS
  <2>3. \A t : Has(q, t) <=> \E j \in 1..(n - 1) : r[j] = t
    BY DEF SortedUpto
  <2> QED
    BY <1>9, <2>1, <2>2, <2>3 DEF s
<1>16. SortedUpto(h, r, n)
  BY <1>4, <1>11, <1>14, <1>15 DEF SortedUpto
<1> QED
  BY <1>16 DEF h, s

\* A step of sortByLastVacuum.
Sorting(r, f, n) == IF n = 0 THEN <<>> ELSE Vacuum!Insert(f[n - 1], r[n])

LEMMA SortingExists ==
  ASSUME NEW r, NEW N \in Nat
  PROVE  \E f : f = [n \in 0..N |-> Sorting(r, f, n)]
<1> DEFINE Upto(k) == \E f : f = [n \in 0..k |-> Sorting(r, f, n)]
           Bad == {k \in Nat : ~Upto(k)}
<1>1. SUFFICES ASSUME Bad # {} PROVE FALSE
  OBVIOUS
<1>2. PICK k \in Bad : \A m \in Bad : k <= m
  BY <1>1, LeastNumber
<1>3. CASE k = 0
  <2> DEFINE f == [n \in 0..0 |-> <<>>]
  <2>1. f = [n \in 0..0 |-> Sorting(r, f, n)]
    BY DEF Sorting
  <2> QED
    BY <1>2, <1>3, <2>1
<1>4. CASE k # 0
  <2>1. k - 1 \in Nat /\ k - 1 \notin Bad
    BY <1>2, <1>4
  <2>2. PICK f : f = [n \in 0..(k - 1) |-> Sorting(r, f, n)]
    BY <2>1
  <2> DEFINE g == [n \in 0..k |-> IF n < k THEN f[n] ELSE Sorting(r, f, k)]
  <2>3. \A n \in 0..k : g[n] = Sorting(r, g, n)
    <3> SUFFICES ASSUME NEW n \in 0..k PROVE g[n] = Sorting(r, g, n)
      OBVIOUS
    <3>1. n # 0 => n - 1 \in 0..k /\ n - 1 < k
      BY <1>2
    <3>2. n # 0 => g[n - 1] = f[n - 1]
      BY <3>1
    <3>3. Sorting(r, g, n) = Sorting(r, f, n)
      BY <3>2 DEF Sorting
    <3>4. n < k => f[n] = Sorting(r, f, n)
      BY <2>1, <2>2
    <3> QED
      BY <1>2, <3>3, <3>4
  <2>4. g = [n \in 0..k |-> Sorting(r, g, n)]
    BY <2>3
  <2> QED
    BY <1>2, <2>4
<1> QED
  BY <1>2, <1>3, <1>4

LEMMA SortByLastVacuum ==
  ASSUME last_vacuum_at \in [Services -> Nat], NEW r \in Seq(Services), Once(r)
  PROVE  SortedUpto(Vacuum!sortByLastVacuum(r), r, Len(r))
<1> DEFINE f == CHOOSE f : f = [n \in 0..Len(r) |-> Sorting(r, f, n)]
<1>1. Len(r) \in Nat
  OBVIOUS
<1>2. f = [n \in 0..Len(r) |-> Sorting(r, f, n)]
  BY <1>1, SortingExists
<1>3. Vacuum!sortByLastVacuum(r) = f[Len(r)]
  BY DEF Vacuum!sortByLastVacuum, Sorting
<1> HIDE DEF f
<1>4. \A n \in 0..Len(r) : f[n] = Sorting(r, f, n)
  BY <1>2
<1> DEFINE Bad == {n \in 0..Len(r) : ~SortedUpto(f[n], r, n)}
<1>5. SUFFICES ASSUME Bad # {} PROVE FALSE
  BY <1>1, <1>3
<1>6. PICK n \in Bad : \A m \in Bad : n <= m
  <2>1. Bad \subseteq Nat
    BY <1>1
  <2> HIDE DEF Bad
  <2> QED
    BY <1>5, <2>1, LeastNumber
<1>7. n \in 0..Len(r) /\ n \in Nat /\ ~SortedUpto(f[n], r, n)
  BY <1>1, <1>6
<1>8. CASE n = 0
  <2>1. f[0] = <<>>
    BY <1>4, <1>7, <1>8 DEF Sorting
  <2>2. SortedUpto(<<>>, r, 0)
    BY DEF SortedUpto, Once, InOrderOfDates, Has
  <2> QED
    BY <1>7, <1>8, <2>1, <2>2
<1>9. CASE n # 0
  <2>1. n \in Nat \ {0} /\ n - 1 \in 0..Len(r) /\ n \in 1..Len(r)
    BY <1>1, <1>7, <1>9
  <2>2. n - 1 \notin Bad
    BY <1>6, <2>1
  <2>3. SortedUpto(f[n - 1], r, n - 1)
    BY <2>1, <2>2
  <2>4. r[n] \in Services /\ \A j \in 1..(n - 1) : r[j] # r[n]
    <3>1. \A j \in 1..(n - 1) : j \in 1..Len(r) /\ j # n
      BY <1>1, <2>1
    <3> QED
      BY <2>1, <3>1 DEF Once
  <2>5. SortedUpto(Vacuum!Insert(f[n - 1], r[n]), r, n)
    BY <2>1, <2>3, <2>4, InsertSorts
  <2>6. f[n] = Vacuum!Insert(f[n - 1], r[n])
    BY <1>4, <1>7, <1>9 DEF Sorting
  <2> QED
    BY <1>7, <2>5, <2>6
<1> QED
  BY <1>8, <1>9

\* What FindAllRecords answers.
LEMMA AllRecords ==
  LET r == Vacuum!SetToSeq(Services)
  IN  r \in Seq(Services) /\ Once(r) /\ \A s \in Services : Has(r, s)
<1> DEFINE N == Cardinality(Services)
<1>1. Vacuum!IsFiniteSet(Services)
  BY ServerAssumption DEF Vacuum!BoundsAssumption
<1>2. IsFiniteSet(Services) /\ Vacuum!Cardinality(Services) = N
  BY <1>1 DEF Vacuum!IsFiniteSet, IsFiniteSet, Vacuum!Cardinality, Cardinality
<1>3. N \in Nat /\ ExistsBijection(1..N, Services)
  BY <1>2, FS_CardinalityType
<1> DEFINE Fine(f) == f \in [1..N -> Services] /\ Vacuum!IsInjective(f)
<1>4. \E f \in [1..N -> Services] : Vacuum!IsInjective(f)
  BY <1>3 DEF ExistsBijection, Bijection, Injection, IsInjective, Vacuum!IsInjective
<1> DEFINE r == Vacuum!SetToSeq(Services)
<1>5. r \in [1..N -> Services] /\ Vacuum!IsInjective(r)
  BY <1>2, <1>4 DEF Vacuum!SetToSeq
<1> HIDE DEF r
<1>6. r \in Seq(Services) /\ Len(r) = N
  BY <1>3, <1>5
<1>7. Once(r)
  BY <1>5, <1>6 DEF Once, Vacuum!IsInjective
<1>8. \A s \in Services : Has(r, s)
  <2>1. r \in Injection(1..N, Services)
    BY <1>5 DEF Injection, IsInjective, Vacuum!IsInjective
  <2>2. r \in Surjection(1..N, Services)
    BY <1>2, <1>3, <2>1, FS_Injection, FS_Interval
  <2> QED
    BY <1>6, <2>2 DEF Surjection, Has
<1> QED
  BY <1>6, <1>7, <1>8 DEF r

-----------------------------------------------------------------------------
(***************************************************************************)
(* Debts of compaction.  What was done since t was looked at has a later   *)
(* date than t, and comes after t in what is left of a sweep: so what is   *)
(* done next was not done since any service was looked at.                 *)
(***************************************************************************)
SweepPoints == {"none", "next", "jitter", "vacuum", "mark"}

PaidLater == \A s, t \in Services : s \in passedOver[t] => last_vacuum_at[s] > last_vacuum_at[t]

OwedFirst(q, p) ==
    \A i \in 1..Len(q), t \in Services : q[i] \in p[t] => \E j \in 1..(i - 1) : q[j] = t

DebtTypes ==
    /\ last_vacuum_at \in [Services -> 0..MaxDates]
    /\ vacuumingSet \subseteq Services /\ enVentanaActiva \in BOOLEAN
    /\ sweep \in [at : SweepPoints, services : Seq(Services)]
    /\ passedOver \in [Services -> SUBSET Services]

DebtInv ==
    /\ DebtTypes
    /\ sweep.at \in {"jitter", "mark", "vacuum"} => sweep.services # <<>>
    /\ Once(sweep.services) /\ OwedFirst(sweep.services, passedOver)
    /\ PaidLater

LEMMA TailOf ==
  ASSUME NEW q \in Seq(Services), q # <<>>
  PROVE  /\ Head(q) = q[1] /\ Head(q) \in Services /\ Len(q) \in Nat \ {0}
         /\ Tail(q) \in Seq(Services) /\ Len(Tail(q)) = Len(q) - 1
         /\ \A i \in 1..Len(Tail(q)) : i + 1 \in 1..Len(q) /\ Tail(q)[i] = q[i + 1]
         /\ Once(q) => Once(Tail(q))
<1>1. /\ Head(q) = q[1] /\ Head(q) \in Services /\ Len(q) \in Nat \ {0}
      /\ Tail(q) \in Seq(Services) /\ Len(Tail(q)) = Len(q) - 1
  OBVIOUS
<1>2. \A i \in 1..Len(Tail(q)) : i + 1 \in 1..Len(q) /\ Tail(q)[i] = q[i + 1]
  BY <1>1
<1>3. ASSUME Once(q), NEW i \in 1..Len(Tail(q)), NEW j \in 1..Len(Tail(q)),
             Tail(q)[i] = Tail(q)[j]
      PROVE  i = j
  <2>1. i + 1 = j + 1
    BY <1>2, <1>3 DEF Once
  <2>2. i \in Int /\ j \in Int
    OBVIOUS
  <2> QED
    BY <2>1, <2>2
<1> QED
  BY <1>1, <1>2, <1>3 DEF Once

\* Nothing is owed to the first once it has been looked at.
LEMMA OwedStays ==
  ASSUME NEW q \in Seq(Services), q # <<>>, Once(q), NEW p, OwedFirst(q, p), NEW p2,
         p2[Head(q)] = {}, \A t \in Services \ {Head(q)} : p2[t] \subseteq p[t] \cup {Head(q)}
  PROVE  OwedFirst(Tail(q), p2)
<1>1. SUFFICES ASSUME NEW i \in 1..Len(Tail(q)), NEW t \in Services, Tail(q)[i] \in p2[t]
               PROVE  \E j \in 1..(i - 1) : Tail(q)[j] = t
  BY DEF OwedFirst
<1>2. /\ Head(q) = q[1] /\ Len(q) \in Nat \ {0} /\ Len(Tail(q)) = Len(q) - 1
      /\ \A j \in 1..Len(Tail(q)) : j + 1 \in 1..Len(q) /\ Tail(q)[j] = q[j + 1]
  BY TailOf
<1>3. i \in Int /\ 1 <= i /\ i <= Len(q) - 1 /\ i + 1 \in 1..Len(q) /\ Tail(q)[i] = q[i + 1]
  BY <1>2
<1>4. t # Head(q)
  BY <1>1
<1>5. q[i + 1] # Head(q)
  <2>1. 1 \in 1..Len(q) /\ i + 1 # 1
    BY <1>2, <1>3
  <2> QED
    BY <1>2, <1>3, <2>1 DEF Once
<1>6. q[i + 1] \in p[t]
  BY <1>1, <1>3, <1>4, <1>5
<1>7. PICK j \in 1..((i + 1) - 1) : q[j] = t
  BY <1>3, <1>6 DEF OwedFirst
<1>8. j \in Int /\ 1 <= j /\ j <= i /\ j # 1
  BY <1>2, <1>3, <1>4, <1>7
<1>9. j - 1 \in 1..(i - 1) /\ j - 1 \in 1..Len(Tail(q)) /\ (j - 1) + 1 = j
  BY <1>2, <1>3, <1>8
<1> QED
  BY <1>2, <1>7, <1>9

\* Now is later than every date.
LEMMA NowIsLater ==
  ASSUME last_vacuum_at \in [Services -> 0..MaxDates], Services # {}
  PROVE  Vacuum!Now \in Nat /\ \A s \in Services : last_vacuum_at[s] < Vacuum!Now
<1> DEFINE D == Vacuum!Dates
           T == {MaxDates - d : d \in D}
<1>1. MaxDates \in Nat
  BY ServerAssumption DEF Vacuum!BoundsAssumption
<1>2. D # {} /\ (\A d \in D : d \in 0..MaxDates) /\ \A s \in Services : last_vacuum_at[s] \in D
  BY DEF Vacuum!Dates
<1> HIDE DEF D
<1>3. T # {} /\ T \subseteq Nat
  BY <1>1, <1>2
<1>4. PICK n \in T : \A m \in T : n <= m
  <2> HIDE DEF T
  <2> QED
    BY <1>3, LeastNumber
<1>5. PICK d \in D : n = MaxDates - d
  BY <1>4
<1>6. \A e \in D : e <= d
  <2> SUFFICES ASSUME NEW e \in D PROVE e <= d
    OBVIOUS
  <2>1. MaxDates - d <= MaxDates - e
    BY <1>4, <1>5
  <2> QED
    BY <1>1, <1>2, <2>1
<1> DEFINE x == CHOOSE c \in D : \A e \in D : e <= c
<1>7. x \in D /\ \A e \in D : e <= x
  BY <1>6
<1>8. Vacuum!Now = 1 + x
  BY DEF Vacuum!Now, D
<1> HIDE DEF x
<1>9. x \in Nat
  BY <1>1, <1>2, <1>7
<1> QED
  <2>1. Vacuum!Now \in Nat
    BY <1>8, <1>9
  <2>2. ASSUME NEW s \in Services PROVE last_vacuum_at[s] < Vacuum!Now
    <3>1. last_vacuum_at[s] <= x /\ last_vacuum_at[s] \in 0..MaxDates
      BY <1>2, <1>7
    <3> QED
      BY <1>1, <1>8, <1>9, <3>1
  <2> QED
    BY <2>1, <2>2

LEMMA DebtInit == Vacuum!Init => DebtInv
<1> SUFFICES ASSUME Vacuum!Init PROVE DebtInv
  OBVIOUS
<1>1. MaxDates \in Nat
  BY ServerAssumption DEF Vacuum!BoundsAssumption
<1>2. sweep = [at |-> "none", services |-> <<>>] /\ passedOver = [s \in Services |-> {}]
  BY DEF Vacuum!Init, Vacuum!NoSweep
<1>3. DebtTypes
  <2>1. sweep \in [at : SweepPoints, services : Seq(Services)]
    BY <1>2 DEF SweepPoints
  <2>2. last_vacuum_at \in [Services -> 0..MaxDates]
    BY <1>1 DEF Vacuum!Init
  <2> QED
    BY <1>2, <2>1, <2>2 DEF DebtTypes, Vacuum!Init
<1>4. Once(sweep.services) /\ OwedFirst(sweep.services, passedOver)
  BY <1>2 DEF Once, OwedFirst
<1>5. PaidLater
  BY <1>2 DEF PaidLater
<1> QED
  BY <1>2, <1>3, <1>4, <1>5 DEF DebtInv

\* The sweep has looked at the first service and goes on.
GoesOn ==
    /\ sweep.services # <<>>
    /\ sweep' = Vacuum!GoOn
    /\ UNCHANGED <<last_vacuum_at, running, enVentanaActiva>>
    /\ vacuumingSet' \subseteq vacuumingSet
    /\ Vacuum!LookedAt(Vacuum!Current)

LEMMA SweepGoesOn ==
  ASSUME DebtInv, GoesOn
  PROVE  DebtInv'
<1> DEFINE q == sweep.services
<1>1. q \in Seq(Services) /\ q # <<>> /\ Once(q) /\ OwedFirst(q, passedOver)
  BY DEF DebtInv, DebtTypes, GoesOn
<1>2. sweep' = [at |-> "next", services |-> Tail(q)]
  BY DEF GoesOn, Vacuum!GoOn
<1> HIDE DEF q
<1>3. Head(q) \in Services /\ Tail(q) \in Seq(Services) /\ Once(Tail(q))
  BY <1>1, TailOf
<1>4. /\ passedOver \in [Services -> SUBSET Services]
      /\ passedOver' = [passedOver EXCEPT ![Head(q)] = {}]
  BY DEF DebtInv, DebtTypes, GoesOn, Vacuum!LookedAt, Vacuum!Current, q
<1>5. OwedFirst(Tail(q), passedOver')
  <2>1. /\ passedOver'[Head(q)] = {}
        /\ \A t \in Services \ {Head(q)} : passedOver'[t] \subseteq passedOver[t] \cup {Head(q)}
    BY <1>3, <1>4
  <2> QED
    BY <1>1, <2>1, OwedStays
<1>6. PaidLater'
  <2>1. \A s, t \in Services : s \in passedOver'[t] => s \in passedOver[t]
    BY <1>3, <1>4
  <2> QED
    BY <2>1 DEF DebtInv, PaidLater, GoesOn
<1>7. DebtTypes'
  <2>1. sweep' \in [at : SweepPoints, services : Seq(Services)]
    BY <1>2, <1>3 DEF SweepPoints
  <2>2. passedOver' \in [Services -> SUBSET Services]
    BY <1>3, <1>4
  <2> QED
    BY <2>1, <2>2 DEF DebtInv, DebtTypes, GoesOn
<1>8. sweep'.at = "next" /\ sweep'.services = Tail(q)
  BY <1>2
<1>9. Once(sweep.services)' /\ OwedFirst(sweep.services, passedOver)'
  BY <1>3, <1>5, <1>8 DEF Once, OwedFirst
<1> QED
  BY <1>6, <1>7, <1>8, <1>9 DEF DebtInv

\* The sweep stays at the same service.
SweepStays ==
    /\ \E at \in SweepPoints : sweep' = [at |-> at, services |-> sweep.services]
    /\ UNCHANGED <<last_vacuum_at, passedOver>>
    /\ vacuumingSet' \subseteq Services /\ enVentanaActiva' \in BOOLEAN
    /\ sweep'.at \in {"jitter", "mark", "vacuum"} => sweep.services # <<>>

LEMMA DebtStays ==
  ASSUME DebtInv, SweepStays
  PROVE  DebtInv'
<1>1. sweep'.services = sweep.services /\ sweep' \in [at : SweepPoints, services : Seq(Services)]
  BY DEF DebtInv, DebtTypes, SweepStays
<1>2. DebtTypes'
  BY <1>1 DEF DebtInv, DebtTypes, SweepStays
<1>3. Once(sweep.services)' /\ OwedFirst(sweep.services, passedOver)' /\ PaidLater'
  BY <1>1 DEF DebtInv, SweepStays, Once, OwedFirst, PaidLater
<1> QED
  BY <1>1, <1>2, <1>3 DEF DebtInv, SweepStays

LEMMA SweepBegins ==
  ASSUME DebtInv, Vacuum!RunVacuumSweep
  PROVE  DebtInv'
<1> DEFINE r == Vacuum!SetToSeq(Services)
           q == Vacuum!sortByLastVacuum(r)
<1>1. /\ last_vacuum_at \in [Services -> 0..MaxDates] /\ MaxDates \in Nat
      /\ last_vacuum_at \in [Services -> Nat]
  BY ServerAssumption DEF DebtInv, DebtTypes, Vacuum!BoundsAssumption
<1>2. r \in Seq(Services) /\ Once(r) /\ \A s \in Services : Has(r, s)
  BY AllRecords
<1>3. sweep' = [at |-> "next", services |-> q] /\ UNCHANGED <<last_vacuum_at, passedOver>>
  BY DEF Vacuum!RunVacuumSweep
<1> HIDE DEF r
<1>4. SortedUpto(q, r, Len(r))
  BY <1>1, <1>2, SortByLastVacuum
<1> HIDE DEF q
<1>5. /\ q \in Seq(Services) /\ Once(q) /\ InOrderOfDates(q)
      /\ \A s \in Services : Has(q, s)
  BY <1>2, <1>4 DEF SortedUpto, Has
<1>6. OwedFirst(q, passedOver)
  <2> SUFFICES ASSUME NEW i \in 1..Len(q), NEW t \in Services, q[i] \in passedOver[t]
               PROVE  \E j \in 1..(i - 1) : q[j] = t
    BY DEF OwedFirst
  <2>1. PICK j \in 1..Len(q) : q[j] = t
    BY <1>5 DEF Has
  <2>2. q[i] \in Services
    BY <1>5
  <2>3. last_vacuum_at[q[i]] > last_vacuum_at[q[j]]
    BY <2>1, <2>2 DEF DebtInv, PaidLater
  <2>4. last_vacuum_at[q[i]] \in Nat /\ last_vacuum_at[q[j]] \in Nat
    BY <1>1, <2>1, <2>2
  <2>5. ~(i < j) /\ i # j
    BY <1>5, <2>3, <2>4 DEF InOrderOfDates
  <2>6. j \in 1..(i - 1)
    BY <2>5
  <2> QED
    BY <2>1, <2>6
<1>7. sweep'.at = "next" /\ sweep'.services = q
  BY <1>3
<1>8. sweep' \in [at : SweepPoints, services : Seq(Services)]
  BY <1>3, <1>5 DEF SweepPoints
<1>9. DebtTypes'
  BY <1>3, <1>8 DEF DebtInv, DebtTypes, Vacuum!RunVacuumSweep
<1>10. Once(sweep.services)' /\ OwedFirst(sweep.services, passedOver)'
  BY <1>3, <1>5, <1>6, <1>7 DEF Once, OwedFirst
<1>11. PaidLater'
  BY <1>3 DEF DebtInv, PaidLater
<1> QED
  BY <1>7, <1>9, <1>10, <1>11 DEF DebtInv

LEMMA DebtIsPaid ==
  ASSUME DebtInv, Vacuum!markVacuumDone
  PROVE  DebtInv' /\ Vacuum!InOrder
<1> DEFINE q == sweep.services
           c == Head(q)
<1>1. q \in Seq(Services) /\ q # <<>> /\ Once(q) /\ OwedFirst(q, passedOver)
  BY DEF DebtInv, DebtTypes, Vacuum!markVacuumDone, Vacuum!UnlockVacuum
<1>2. /\ sweep' = [at |-> "next", services |-> Tail(q)]
      /\ last_vacuum_at' = [last_vacuum_at EXCEPT ![c] = Vacuum!Now]
      /\ passedOver' = [s \in Services |-> IF s = c THEN {} ELSE passedOver[s] \cup {c}]
      /\ vacuumingSet' = vacuumingSet \ {c} /\ UNCHANGED enVentanaActiva
      /\ Vacuum!Now <= MaxDates
  BY DEF Vacuum!markVacuumDone, Vacuum!UnlockVacuum, Vacuum!GoOn, Vacuum!Current
<1> HIDE DEF q
<1>3. c = q[1] /\ c \in Services /\ 1 \in 1..Len(q) /\ Tail(q) \in Seq(Services) /\ Once(Tail(q))
  BY <1>1, TailOf
<1> HIDE DEF c
<1>4. /\ last_vacuum_at \in [Services -> 0..MaxDates] /\ MaxDates \in Nat
      /\ passedOver \in [Services -> SUBSET Services]
  BY ServerAssumption DEF DebtInv, DebtTypes, Vacuum!BoundsAssumption
<1>5. Vacuum!Now \in Nat /\ \A s \in Services : last_vacuum_at[s] < Vacuum!Now
  BY <1>3, <1>4, NowIsLater
<1>6. /\ \A s \in Services : last_vacuum_at'[s] = IF s = c THEN Vacuum!Now ELSE last_vacuum_at[s]
      /\ last_vacuum_at' \in [Services -> 0..MaxDates]
  <2>1. Vacuum!Now \in 0..MaxDates
    BY <1>2, <1>4, <1>5
  <2> QED
    BY <1>2, <1>3, <1>4, <2>1
<1>7. OwedFirst(Tail(q), passedOver')
  <2>1. /\ passedOver'[c] = {}
        /\ \A t \in Services \ {c} : passedOver'[t] \subseteq passedOver[t] \cup {c}
    BY <1>2, <1>3
  <2> QED
    BY <1>1, <2>1, OwedStays DEF c
<1>8. PaidLater'
  <2> SUFFICES ASSUME NEW s \in Services, NEW t \in Services, s \in passedOver'[t]
               PROVE  last_vacuum_at'[s] > last_vacuum_at'[t]
    BY DEF PaidLater
  <2>1. t # c /\ (s = c \/ s \in passedOver[t])
    BY <1>2
  <2>2. last_vacuum_at'[t] = last_vacuum_at[t] /\ last_vacuum_at[t] < Vacuum!Now
    BY <1>5, <1>6, <2>1
  <2>3. last_vacuum_at[t] \in Nat
    BY <1>4
  <2>4. CASE s = c
    BY <1>5, <1>6, <2>2, <2>3, <2>4
  <2>5. CASE s # c
    <3>1. last_vacuum_at[s] > last_vacuum_at[t]
      BY <2>1, <2>5 DEF DebtInv, PaidLater
    <3> QED
      BY <1>6, <2>2, <2>5, <3>1
  <2> QED
    BY <2>4, <2>5
<1>9. sweep'.at = "next" /\ sweep'.services = Tail(q)
  BY <1>2
<1>10. DebtTypes'
  <2>1. sweep' \in [at : SweepPoints, services : Seq(Services)]
    BY <1>2, <1>3 DEF SweepPoints
  <2>2. passedOver' \in [Services -> SUBSET Services]
    BY <1>2, <1>3, <1>4
  <2> QED
    BY <1>2, <1>6, <2>1, <2>2 DEF DebtInv, DebtTypes
<1>11. Once(sweep.services)' /\ OwedFirst(sweep.services, passedOver)'
  <2>1. Once(sweep.services)'
    BY <1>3, <1>9 DEF Once
  <2> QED
    BY <1>7, <1>9, <2>1 DEF OwedFirst
<1>12. DebtInv'
  BY <1>8, <1>9, <1>10, <1>11 DEF DebtInv
<1>13. Vacuum!InOrder
  <2> SUFFICES ASSUME NEW s \in Services, last_vacuum_at'[s] # last_vacuum_at[s],
                      NEW t \in Services, s \in passedOver[t]
               PROVE  FALSE
    BY DEF Vacuum!InOrder
  <2>1. s = q[1]
    BY <1>3, <1>6
  <2>2. \E j \in 1..(1 - 1) : q[j] = t
    BY <1>1, <1>3, <2>1 DEF OwedFirst
  <2> QED
    BY <2>2
<1> QED
  BY <1>12, <1>13

LEMMA DebtStep ==
  DebtInv /\ [Vacuum!Next]_(Vacuum!vars) => DebtInv' /\ Vacuum!InOrder
<1> SUFFICES ASSUME DebtInv, [Vacuum!Next]_(Vacuum!vars) PROVE DebtInv' /\ Vacuum!InOrder
  OBVIOUS
<1>1. CASE Vacuum!markVacuumDone
  BY <1>1, DebtIsPaid
\* Nothing else writes a date.
<1>2. ASSUME UNCHANGED last_vacuum_at PROVE Vacuum!InOrder
  BY <1>2 DEF Vacuum!InOrder
<1>3. CASE Vacuum!RunVacuumSweep
  <2>1. UNCHANGED last_vacuum_at
    BY <1>3 DEF Vacuum!RunVacuumSweep
  <2> QED
    BY <1>2, <1>3, <2>1, SweepBegins
<1>4. CASE Vacuum!SweepEnds
  <2>1. /\ sweep' = [at |-> "none", services |-> <<>>]
        /\ UNCHANGED <<last_vacuum_at, vacuumingSet, enVentanaActiva, passedOver>>
    BY <1>4 DEF Vacuum!SweepEnds, Vacuum!NoSweep
  <2>2. sweep' \in [at : SweepPoints, services : Seq(Services)]
    BY <2>1 DEF SweepPoints
  <2>3. sweep'.services = <<>> /\ sweep'.at = "none"
    BY <2>1
  <2>4. DebtTypes' /\ PaidLater'
    BY <2>1, <2>2 DEF DebtInv, DebtTypes, PaidLater
  <2>5. Once(sweep.services)' /\ OwedFirst(sweep.services, passedOver)'
    BY <2>3 DEF Once, OwedFirst
  <2>6. DebtInv'
    BY <2>3, <2>4, <2>5 DEF DebtInv
  <2> QED
    BY <1>2, <2>1, <2>6
<1>5. sweep = [at |-> sweep.at, services |-> sweep.services]
  BY DEF DebtInv, DebtTypes
<1>6. CASE SweepStays
  <2>1. UNCHANGED last_vacuum_at
    BY <1>6 DEF SweepStays
  <2> QED
    BY <1>2, <1>6, <2>1, DebtStays
<1>7. CASE GoesOn
  <2>1. UNCHANGED last_vacuum_at
    BY <1>7 DEF GoesOn
  <2> QED
    BY <1>2, <1>7, <2>1, SweepGoesOn
<1>8. ASSUME UNCHANGED <<last_vacuum_at, sweep, passedOver, vacuumingSet>>,
             enVentanaActiva' \in BOOLEAN
      PROVE  SweepStays
  BY <1>5, <1>8 DEF DebtInv, DebtTypes, SweepStays
<1>9. CASE Vacuum!Looks \/ Vacuum!LooksAgain
  <2>1. sweep.services # <<>>
    BY <1>9 DEF Vacuum!Looks, Vacuum!LooksAgain, DebtInv
  <2>2. /\ UNCHANGED <<last_vacuum_at, running, vacuumingSet, enVentanaActiva>>
        /\ \/ sweep' = Vacuum!GoOn /\ Vacuum!LookedAt(Vacuum!Current)
           \/ \E at \in {"jitter", "mark"} :
                sweep' = [sweep EXCEPT !.at = at] /\ UNCHANGED passedOver
    BY <1>9 DEF Vacuum!Looks, Vacuum!LooksAgain
  <2>3. CASE sweep' = Vacuum!GoOn /\ Vacuum!LookedAt(Vacuum!Current)
    BY <1>7, <2>1, <2>2, <2>3 DEF GoesOn
  <2>4. CASE \E at \in {"jitter", "mark"} : sweep' = [sweep EXCEPT !.at = at] /\ UNCHANGED passedOver
    <3>1. PICK at \in {"jitter", "mark"} : sweep' = [sweep EXCEPT !.at = at] /\ UNCHANGED passedOver
      BY <2>4
    <3>2. sweep' = [at |-> at, services |-> sweep.services] /\ at \in SweepPoints
      BY <1>5, <3>1 DEF SweepPoints
    <3>3. SweepStays
      BY <2>1, <2>2, <3>1, <3>2 DEF DebtInv, DebtTypes, SweepStays
    <3> QED
      BY <1>6, <3>3
  <2> QED
    BY <2>2, <2>3, <2>4
<1>10. CASE Vacuum!LockVacuum
  <2>1. /\ sweep.services # <<>> /\ sweep' = [sweep EXCEPT !.at = "vacuum"]
        /\ vacuumingSet' = vacuumingSet \cup {Head(sweep.services)}
        /\ UNCHANGED <<last_vacuum_at, enVentanaActiva, passedOver>>
    BY <1>10 DEF Vacuum!LockVacuum, Vacuum!Current, DebtInv
  <2>2. sweep' = [at |-> "vacuum", services |-> sweep.services] /\ "vacuum" \in SweepPoints
    BY <1>5, <2>1 DEF SweepPoints
  <2>3. sweep.services \in Seq(Services)
    BY DEF DebtInv, DebtTypes
  <2>4. Head(sweep.services) \in Services
    BY <2>1, <2>3, TailOf
  <2>5. SweepStays
    BY <2>1, <2>2, <2>4 DEF DebtInv, DebtTypes, SweepStays
  <2> QED
    BY <1>6, <2>5
<1>11. CASE Vacuum!VacuumFails
  <2>1. GoesOn
    BY <1>11 DEF Vacuum!VacuumFails, Vacuum!UnlockVacuum, GoesOn, DebtInv
  <2> QED
    BY <1>7, <2>1
<1>12. CASE Vacuum!Clock
  <2>1. UNCHANGED <<last_vacuum_at, sweep, passedOver, vacuumingSet>> /\ enVentanaActiva' \in BOOLEAN
    BY <1>12 DEF Vacuum!Clock
  <2> QED
    BY <1>6, <1>8, <2>1
<1>13. ASSUME UNCHANGED <<last_vacuum_at, sweep, passedOver, vacuumingSet, enVentanaActiva>>
       PROVE  DebtInv' /\ Vacuum!InOrder
  <2>1. enVentanaActiva' \in BOOLEAN
    BY <1>13 DEF DebtInv, DebtTypes
  <2> QED
    BY <1>6, <1>8, <1>13, <2>1
<1>14. CASE UNCHANGED Vacuum!vars
  BY <1>13, <1>14 DEF Vacuum!vars
<1>15. ASSUME NEW s \in Requested,
              Vacuum!WakeupService(s) \/ Vacuum!StopsWaiting(s) \/ Vacuum!WakeupStarts(s)
       PROVE  UNCHANGED <<last_vacuum_at, sweep, passedOver, vacuumingSet, enVentanaActiva>>
  BY <1>15 DEF Vacuum!WakeupService, Vacuum!StopsWaiting, Vacuum!WakeupStarts
<1>16. ASSUME NEW s \in Services, Vacuum!CommandStarts(s) \/ Vacuum!Stops(s)
       PROVE  UNCHANGED <<last_vacuum_at, sweep, passedOver, vacuumingSet, enVentanaActiva>>
  BY <1>16 DEF Vacuum!CommandStarts, Vacuum!Stops
<1>17. Vacuum!Next =>
         \/ Vacuum!Clock
         \/ Vacuum!RunVacuumSweep \/ Vacuum!SweepEnds \/ Vacuum!Looks \/ Vacuum!LooksAgain
         \/ Vacuum!LockVacuum \/ Vacuum!markVacuumDone \/ Vacuum!VacuumFails
         \/ UNCHANGED <<last_vacuum_at, sweep, passedOver, vacuumingSet, enVentanaActiva>>
  BY <1>15, <1>16 DEF Vacuum!Next
<1> QED
  BY <1>1, <1>3, <1>4, <1>9, <1>10, <1>11, <1>12, <1>13, <1>14, <1>17

LEMMA VacuumTypes == VacuumInv /\ DebtInv => Vacuum!TypeOK
<1> SUFFICES ASSUME VacuumInv, DebtInv PROVE Vacuum!TypeOK
  OBVIOUS
<1>1. sweep.at \in SweepPoints /\ sweep.services \in Seq(Services)
  BY DEF DebtInv, DebtTypes
<1>2. Vacuum!Range(sweep.services) \subseteq Services
  BY <1>1 DEF Vacuum!Range
<1> QED
  BY <1>1, <1>2 DEF DebtInv, DebtTypes, VacuumInv, SweepPoints, Vacuum!TypeOK

-----------------------------------------------------------------------------
(***************************************************************************)
(* The release sync.  Whatever is missing of a version that has been begun *)
(* some worker is still to write, unless a download of it was broken off.  *)
(***************************************************************************)
Pieces == {"there", "head", "tail", "x"}
FilePoints == {"mkdir", "create", "head", "tail", "chmod"}

(* What a worker at a point of a file is still to put into it.              *)
Left(at) ==
    CASE at \in {"mkdir", "create"} -> Pieces
      [] at = "head" -> {"head", "tail", "x"}
      [] at = "tail" -> {"tail", "x"}
      [] at = "chmod" -> {"x"}
      [] OTHER -> {}

(* The worker is at the version, and not only about to begin.               *)
Saves(w, v) ==
    /\ work[w].version = v
    /\ work[w].at \in FilePoints
    /\ work[w].at = "mkdir" => work[w].file > 1

Owes(w, v, f, piece) ==
    /\ Saves(w, v)
    /\ work[w].file < f \/ (work[w].file = f /\ piece \in Left(work[w].at))

(* A worker that is at a file has created those before it.                  *)
Created ==
    \A w \in Releases!Workers, f \in 1..Files :
        (\/ work[w].at \in {"head", "tail", "chmod"} /\ f <= work[w].file
         \/ work[w].at \in {"mkdir", "create"} /\ f < work[w].file)
            => "there" \in content[work[w].version][f]

NothingForgotten ==
    \A v \in Versions \ cut : ~Releases!IsEmpty(v) =>
        \A f \in 1..Files : \A piece \in Releases!Whole(f) :
            piece \in content[v][f] \/ \E w \in Releases!Workers : Owes(w, v, f, piece)

(* Only recorded releases are downloaded, and only the last file is made    *)
(* executable.                                                              *)
WorkInv ==
    /\ \A e \in Ensurers : work[e].at \in {"clean", "list"} => work[e].version \in releases
    /\ \A w \in Releases!Workers :
        /\ work[w].at \in {"next"} \cup FilePoints => work[w].todo \subseteq releases
        /\ work[w].at = "chmod" => work[w].file = Files

ReleasesInv == Releases!TypeOK /\ WorkInv /\ Created /\ NothingForgotten

LEMMA ReleasesInit == Releases!Init => ReleasesInv
<1> SUFFICES ASSUME Releases!Init PROVE ReleasesInv
  OBVIOUS
<1>1. /\ releases = {} /\ downloads = {} /\ cut = {} /\ ensures = 0 /\ faults = 0
      /\ content = [v \in Versions |-> [f \in 1..Files |-> {}]]
      /\ work = [w \in Releases!Workers |->
                    [at |-> "idle", todo |-> {}, version |-> Releases!NoVersion, file |-> 0]]
  BY DEF Releases!Init, Releases!NoFile, Releases!Idle
<1>2. 0 \in 0..Files /\ 0 \in 0..MaxEnsures /\ 0 \in 0..MaxFaults
  BY ServerAssumption DEF Releases!ReleasesAssumption
<1>3. Releases!TypeOK
  BY <1>1, <1>2 DEF Releases!TypeOK, Releases!Points, Releases!IsEmpty, Releases!NoFile
<1>4. WorkInv /\ Created /\ NothingForgotten
  BY <1>1 DEF WorkInv, Created, NothingForgotten, FilePoints, Releases!IsEmpty, Releases!NoFile,
              Releases!Workers
<1> QED
  BY <1>3, <1>4 DEF ReleasesInv

WorkRecords ==
    [at : Releases!Points, todo : SUBSET Versions,
     version : Versions \cup {Releases!NoVersion}, file : 0..Files]

LEMMA ReleasesTypes ==
  ASSUME ReleasesInv
  PROVE  /\ work \in [Releases!Workers -> WorkRecords]
         /\ Sync \in Releases!Workers /\ Sync \notin Ensurers /\ Ensurers \subseteq Releases!Workers
         /\ Files \in Nat \ {0} /\ Releases!NoVersion \notin Versions
         /\ MaxEnsures \in Nat /\ MaxFaults \in Nat
         /\ Releases!Idle \in WorkRecords /\ Releases!Idle.at = "idle"
<1>1. Files \in Nat \ {0}
  BY ServerAssumption DEF Releases!ReleasesAssumption
<1> QED
  BY <1>1, ServerAssumption DEF ReleasesInv, Releases!TypeOK, Releases!ReleasesAssumption,
     Releases!Workers, Releases!Idle, Releases!Points, WorkRecords

(* Nothing is forgotten when a worker begins with a version, makes a        *)
(* directory, or leaves one that is empty, cut or not even begun.           *)
LEMMA NoFileWritten ==
  ASSUME ReleasesInv, NEW w \in Releases!Workers, UNCHANGED content, cut \subseteq cut',
         \A u \in Releases!Workers \ {w} : work'[u] = work[u],
         \/ /\ work'[w].at \notin FilePoints
            /\ Saves(w, work[w].version) =>
                  work[w].version \in cut' \/ Releases!IsEmpty(work[w].version)
         \/ work[w].at \notin FilePoints /\ work'[w].at = "mkdir" /\ work'[w].file = 1
         \/ work[w].at = "mkdir" /\ work'[w] = [work[w] EXCEPT !.at = "create"]
  PROVE  Created' /\ NothingForgotten'
<1> USE DEF ReleasesInv
<1>1. Created'
  <2> SUFFICES ASSUME NEW u \in Releases!Workers, NEW f \in 1..Files,
                      \/ work'[u].at \in {"head", "tail", "chmod"} /\ f <= work'[u].file
                      \/ work'[u].at \in {"mkdir", "create"} /\ f < work'[u].file
               PROVE  "there" \in content[work'[u].version][f]
    BY DEF Created
  <2>1. CASE u # w
    BY <2>1 DEF Created
  <2>2. CASE u = w
    BY <2>2 DEF Created, FilePoints, Releases!TypeOK
  <2> QED
    BY <2>1, <2>2
<1>2. NothingForgotten'
  <2> SUFFICES ASSUME NEW v \in Versions \ cut', ~Releases!IsEmpty(v),
                      NEW f \in 1..Files, NEW piece \in Releases!Whole(f), piece \notin content[v][f]
               PROVE  \E u \in Releases!Workers : Owes(u, v, f, piece)'
    BY DEF NothingForgotten, Releases!IsEmpty, Releases!NoFile, Releases!Whole
  <2>1. PICK u \in Releases!Workers : Owes(u, v, f, piece)
    BY DEF NothingForgotten
  <2>2. CASE u # w
    BY <2>1, <2>2 DEF Owes, Saves
  <2>3. CASE u = w
    BY <2>1, <2>3 DEF Owes, Saves, FilePoints, Left, Releases!TypeOK
  <2> QED
    BY <2>2, <2>3
<1> QED
  BY <1>1, <1>2
(* What a step that writes no file is, as far as the invariant goes: one    *)
(* worker moves, and what is recorded stays so.                             *)
LEMMA OneMoves ==
  ASSUME ReleasesInv, NEW w \in Releases!Workers, NEW r \in WorkRecords,
         work' = [work EXCEPT ![w] = r], UNCHANGED content,
         cut \subseteq cut', cut' \subseteq Versions,
         releases \subseteq releases', releases' \subseteq Versions,
         downloads' \subseteq Versions,
         \A v \in Versions \ downloads' : Releases!IsEmpty(v),
         ensures' \in 0..MaxEnsures, faults' \in 0..MaxFaults,
         w # Sync /\ r.at \in {"clean", "list"} => r.version \in releases',
         r.at = "next" => r.todo \subseteq releases',
         \/ /\ r.at \notin FilePoints
            /\ Saves(w, work[w].version) =>
                  work[w].version \in cut' \/ Releases!IsEmpty(work[w].version)
         \/ /\ work[w].at = "next" /\ r.at = "mkdir" /\ r.file = 1
            /\ r.version \in work[w].todo /\ r.todo \subseteq work[w].todo
         \/ work[w].at = "mkdir" /\ r = [work[w] EXCEPT !.at = "create"]
  PROVE  ReleasesInv'
<1>1. /\ work \in [Releases!Workers -> WorkRecords]
      /\ work'[w] = r /\ \A u \in Releases!Workers \ {w} : work'[u] = work[u]
      /\ Files \in Nat \ {0}
  BY ReleasesTypes
<1>2. Created' /\ NothingForgotten'
  BY <1>1, NoFileWritten DEF FilePoints
<1>3. /\ \A e \in Ensurers : work'[e].at \in {"clean", "list"} => work'[e].version \in releases'
      /\ \A u \in Releases!Workers :
            /\ work'[u].at \in {"next"} \cup FilePoints => work'[u].todo \subseteq releases'
            /\ work'[u].at = "chmod" => work'[u].file = Files
            /\ work'[u].at \in FilePoints =>
                  work'[u].version \in releases' /\ work'[u].file \in 1..Files
  <2>1. WorkInv /\ \A u \in Releases!Workers : work[u].at \in FilePoints =>
                        work[u].version \in releases /\ work[u].file \in 1..Files
    BY DEF ReleasesInv, Releases!TypeOK, FilePoints
  <2>2. Sync \notin Ensurers /\ Ensurers \subseteq Releases!Workers
    BY ReleasesTypes
  <2>3. ASSUME NEW u \in Releases!Workers, u # w
        PROVE  /\ u \in Ensurers /\ work'[u].at \in {"clean", "list"} => work'[u].version \in releases'
               /\ work'[u].at \in {"next"} \cup FilePoints => work'[u].todo \subseteq releases'
               /\ work'[u].at = "chmod" => work'[u].file = Files
               /\ work'[u].at \in FilePoints =>
                     work'[u].version \in releases' /\ work'[u].file \in 1..Files
    BY <1>1, <2>1, <2>3 DEF WorkInv
  <2>4. /\ w \in Ensurers /\ r.at \in {"clean", "list"} => r.version \in releases'
        /\ r.at \in {"next"} \cup FilePoints => r.todo \subseteq releases'
        /\ r.at = "chmod" => r.file = Files
        /\ r.at \in FilePoints => r.version \in releases' /\ r.file \in 1..Files
    <3>1. CASE r.at \notin FilePoints
      BY <2>2, <3>1 DEF FilePoints
    <3>2. CASE /\ work[w].at = "next" /\ r.at = "mkdir" /\ r.file = 1
               /\ r.version \in work[w].todo /\ r.todo \subseteq work[w].todo
      BY <1>1, <2>1, <3>2 DEF FilePoints, WorkInv
    <3>3. CASE work[w].at = "mkdir" /\ r = [work[w] EXCEPT !.at = "create"]
      BY <1>1, <2>1, <3>3 DEF FilePoints, WorkInv, WorkRecords
    <3> QED
      BY <3>1, <3>2, <3>3
  <2> QED
    BY <1>1, <2>2, <2>3, <2>4
<1>4. WorkInv'
  BY <1>3 DEF WorkInv, Releases!Workers, FilePoints
<1>5. work' \in [Releases!Workers -> WorkRecords]
  BY <1>1
<1>6. /\ content \in [Versions -> [1..Files -> SUBSET {"there", "head", "tail", "x"}]]
      /\ \A v \in Versions, f \in 1..Files : content[v][f] \subseteq Releases!Whole(f)
  BY DEF ReleasesInv, Releases!TypeOK
<1>7. Releases!TypeOK'
  BY <1>3, <1>5, <1>6 DEF Releases!TypeOK, Releases!IsEmpty, Releases!NoFile, Releases!Whole,
                          Releases!Workers, Releases!Points, WorkRecords, FilePoints
<1> QED
  BY <1>2, <1>4, <1>7 DEF ReleasesInv

LEMMA SyncKeeps ==
  ASSUME ReleasesInv, Releases!Run \/ Releases!SaveReleases
  PROVE  ReleasesInv'
<1>1. CASE Releases!Run
  <2>1. PICK available \in SUBSET Versions :
            work' = [work EXCEPT ![Sync].at = "record", ![Sync].todo = available \ releases]
    BY <1>1 DEF Releases!Run, Releases!DiffReleases
  <2> DEFINE r == [work[Sync] EXCEPT !.at = "record", !.todo = available \ releases]
  <2>2. r \in WorkRecords /\ work' = [work EXCEPT ![Sync] = r] /\ r.at = "record"
    BY <2>1, ReleasesTypes DEF WorkRecords, Releases!Points
  <2>3. work[Sync] = Releases!Idle /\ UNCHANGED <<releases, downloads, content, ensures, faults, cut>>
    BY <1>1, Zenon DEF Releases!Run
  <2> QED
    BY <2>2, <2>3, OneMoves, ReleasesTypes DEF FilePoints, Saves, ReleasesInv, Releases!TypeOK
<1>2. CASE Releases!SaveReleases
  <2>1. PICK r \in WorkRecords :
            work' = [work EXCEPT ![Sync] = r] /\ r.at \in {"record", "clean"}
    <3>1. CASE work' = [work EXCEPT ![Sync].at = "clean"]
      <4> DEFINE r == [work[Sync] EXCEPT !.at = "clean"]
      <4>1. r \in WorkRecords /\ work' = [work EXCEPT ![Sync] = r] /\ r.at = "clean"
        BY <3>1, ReleasesTypes DEF WorkRecords, Releases!Points
      <4> QED
        BY <4>1
    <3>2. ASSUME NEW v, work' = [work EXCEPT ![Sync].todo = @ \ {v}]
          PROVE  \E r \in WorkRecords :
                    work' = [work EXCEPT ![Sync] = r] /\ r.at \in {"record", "clean"}
      <4> DEFINE r == [work[Sync] EXCEPT !.todo = @ \ {v}]
      <4>1. r \in WorkRecords /\ work' = [work EXCEPT ![Sync] = r] /\ r.at = "record"
        BY <1>2, <3>2, ReleasesTypes DEF WorkRecords, Releases!Points, Releases!SaveReleases
      <4> QED
        BY <4>1
    <3> QED
      BY <1>2, <3>1, <3>2 DEF Releases!SaveReleases
  <2>2. /\ work[Sync].at = "record" /\ UNCHANGED <<downloads, content, ensures, faults, cut>>
        /\ releases \subseteq releases' /\ releases' \subseteq Versions
    BY <1>2, ReleasesTypes DEF Releases!SaveReleases, WorkRecords, ReleasesInv, Releases!TypeOK
  <2> QED
    BY <2>1, <2>2, OneMoves, ReleasesTypes DEF FilePoints, Saves, ReleasesInv, Releases!TypeOK
<1> QED
  BY <1>1, <1>2

LEMMA EnsureKeeps ==
  ASSUME ReleasesInv, NEW e \in Ensurers, NEW v \in Versions, Releases!EnsureReleaseDownloaded(e, v)
  PROVE  ReleasesInv'
<1> DEFINE r == [work[e] EXCEPT !.at = "clean", !.version = v]
<1>1. r \in WorkRecords /\ work' = [work EXCEPT ![e] = r] /\ r.at = "clean" /\ r.version = v
  BY ReleasesTypes DEF WorkRecords, Releases!Points, Releases!EnsureReleaseDownloaded
<1>2. /\ work[e] = Releases!Idle /\ UNCHANGED <<releases, downloads, content, faults, cut>>
      /\ v \in releases /\ ensures < MaxEnsures /\ ensures' = ensures + 1
  BY Zenon DEF Releases!EnsureReleaseDownloaded
<1>3. ensures' \in 0..MaxEnsures
  BY <1>2, ReleasesTypes DEF ReleasesInv, Releases!TypeOK
<1> HIDE DEF r
<1> QED
  BY <1>1, <1>2, <1>3, OneMoves, ReleasesTypes DEF FilePoints, Saves, ReleasesInv, Releases!TypeOK

(* Looking for what is missing.                                             *)
LEMMA LookKeeps ==
  ASSUME ReleasesInv, NEW w \in Releases!Workers,
         Releases!cleanEmptyDirs(w) \/ Releases!Lists(w) \/ Releases!processDownload(w) \/ Releases!Ends(w)
  PROVE  ReleasesInv'
<1>1. CASE Releases!cleanEmptyDirs(w)
  <2> DEFINE r == [work[w] EXCEPT !.at = "list"]
  <2>1. /\ r \in WorkRecords /\ work' = [work EXCEPT ![w] = r]
        /\ r.at = "list" /\ r.version = work[w].version
    BY <1>1, ReleasesTypes DEF WorkRecords, Releases!Points, Releases!cleanEmptyDirs
  <2>2. /\ work[w].at = "clean" /\ UNCHANGED <<releases, content, ensures, faults, cut>>
        /\ downloads' \subseteq downloads
        /\ \A v \in Versions \ downloads' : v \in downloads => Releases!IsEmpty(v)
    BY <1>1 DEF Releases!cleanEmptyDirs
  <2>3. w # Sync => r.version \in releases
    BY <2>1, <2>2 DEF ReleasesInv, WorkInv, Releases!Workers
  <2> QED
    BY <2>1, <2>2, <2>3, OneMoves, ReleasesTypes DEF FilePoints, Saves, ReleasesInv, Releases!TypeOK
<1>2. CASE Releases!Lists(w)
  <2> DEFINE r == [work[w] EXCEPT !.at = "next", !.todo = Releases!Missing(w)]
  <2>1. /\ work[w].at = "list" /\ UNCHANGED <<releases, downloads, content, ensures, faults, cut>>
        /\ work' = [work EXCEPT ![w] = r]
    BY <1>2, ReleasesTypes DEF Releases!Lists, WorkRecords
  <2>2. Releases!Missing(w) \subseteq releases /\ releases \subseteq Versions
    BY <2>1 DEF Releases!Missing, ReleasesInv, WorkInv, Releases!TypeOK, Releases!Workers
  <2>3. r \in WorkRecords /\ r.at = "next" /\ r.todo \subseteq releases
    BY <2>2, ReleasesTypes DEF WorkRecords, Releases!Points
  <2> QED
    BY <2>1, <2>3, OneMoves, ReleasesTypes DEF FilePoints, Saves, ReleasesInv, Releases!TypeOK
<1>3. CASE Releases!processDownload(w)
  <2>1. PICK v \in work[w].todo :
            work' = [work EXCEPT ![w] = [at |-> "mkdir", todo |-> @.todo \ {v},
                                         version |-> v, file |-> 1]]
    BY <1>3 DEF Releases!processDownload
  <2> DEFINE r == [at |-> "mkdir", todo |-> work[w].todo \ {v}, version |-> v, file |-> 1]
  <2>2. /\ r \in WorkRecords /\ work' = [work EXCEPT ![w] = r]
        /\ r.at = "mkdir" /\ r.file = 1 /\ r.version \in work[w].todo
        /\ r.todo \subseteq work[w].todo
    BY <2>1, ReleasesTypes DEF WorkRecords, Releases!Points
  <2>3. work[w].at = "next" /\ UNCHANGED <<releases, downloads, content, ensures, faults, cut>>
    BY <1>3 DEF Releases!processDownload
  <2> QED
    BY <2>2, <2>3, OneMoves, ReleasesTypes DEF FilePoints, Saves, ReleasesInv, Releases!TypeOK
<1>4. CASE Releases!Ends(w)
  <2>1. /\ work[w].at = "next" /\ UNCHANGED <<releases, downloads, content, ensures, faults, cut>>
        /\ work' = [work EXCEPT ![w] = Releases!Idle]
    BY <1>4 DEF Releases!Ends
  <2> QED
    BY <2>1, OneMoves, ReleasesTypes DEF FilePoints, Saves, ReleasesInv, Releases!TypeOK
<1> QED
  BY <1>1, <1>2, <1>3, <1>4

(* Directories, and steps that fail.                                        *)
LEMMA DirectoryKeeps ==
  ASSUME ReleasesInv, NEW w \in Releases!Workers,
         Releases!MkdirAll(w) \/ Releases!CreateFails(w) \/ Releases!Fails(w)
  PROVE  ReleasesInv'
<1>1. CASE Releases!MkdirAll(w)
  <2> DEFINE r == [work[w] EXCEPT !.at = "create"]
  <2>1. /\ r \in WorkRecords /\ work' = [work EXCEPT ![w] = r] /\ r.at = "create"
        /\ work[w].at = "mkdir" /\ UNCHANGED <<releases, content, ensures, faults, cut>>
        /\ downloads' = downloads \cup {work[w].version}
    BY <1>1, ReleasesTypes DEF WorkRecords, Releases!Points, Releases!MkdirAll
  <2>2. work[w].version \in Versions
    BY <2>1 DEF ReleasesInv, Releases!TypeOK
  <2> QED
    BY <2>1, <2>2, OneMoves, ReleasesTypes DEF FilePoints, Saves, ReleasesInv, Releases!TypeOK
<1>2. CASE Releases!CreateFails(w)
  <2>1. /\ work[w].at = "create" /\ work[w].version \notin downloads
        /\ UNCHANGED <<releases, downloads, content, ensures, faults, cut>>
        /\ work' = [work EXCEPT ![w] = Releases!Idle]
    BY <1>2 DEF Releases!CreateFails
  <2>2. Releases!IsEmpty(work[w].version)
    BY <2>1 DEF ReleasesInv, Releases!TypeOK
  <2> QED
    BY <2>1, <2>2, OneMoves, ReleasesTypes DEF FilePoints, Saves, ReleasesInv, Releases!TypeOK
<1>3. CASE Releases!Fails(w)
  <2>1. /\ UNCHANGED <<releases, downloads, content, ensures>>
        /\ cut' = cut \cup Releases!Cutting(w)
        /\ work' = [work EXCEPT ![w] = Releases!Idle]
        /\ faults < MaxFaults /\ faults' = faults + 1
    BY <1>3 DEF Releases!Fails, Releases!Fault
  <2>2. Releases!Cutting(w) \subseteq Versions
    BY DEF Releases!Cutting
  <2>3. Saves(w, work[w].version) => work[w].version \in Releases!Cutting(w)
    BY DEF Saves, FilePoints, Releases!Cutting, ReleasesInv, Releases!TypeOK
  <2>4. faults' \in 0..MaxFaults
    BY <2>1, ReleasesTypes DEF ReleasesInv, Releases!TypeOK
  <2> QED
    BY <2>1, <2>2, <2>3, <2>4, OneMoves, ReleasesTypes
       DEF FilePoints, Saves, ReleasesInv, Releases!TypeOK
<1> QED
  BY <1>1, <1>2, <1>3

(* What a step that writes a file is: what is missing of that file after it *)
(* somebody still owes, and whoever has written the file goes on to the     *)
(* next.                                                                    *)
LEMMA OneWrites ==
  ASSUME ReleasesInv, NEW w \in Releases!Workers, NEW p, NEW r \in WorkRecords,
         work[w].at \in {"create", "head", "tail", "chmod"}, work[w].version \in downloads,
         "there" \in p, p \subseteq Releases!Whole(work[w].file),
         content' = [content EXCEPT ![work[w].version][work[w].file] = p],
         work' = [work EXCEPT ![w] = r],
         UNCHANGED <<releases, downloads, ensures, faults, cut>>,
         r.version = work[w].version, r.todo = work[w].todo,
         \/ /\ r.file = work[w].file /\ r.at \in {"head", "tail", "chmod"}
            /\ r.at = "chmod" => r.file = Files
         \/ r.file = work[w].file + 1 /\ r.at = "mkdir" /\ r.file <= Files
         \/ r.file = work[w].file /\ r.at = "next" /\ r.file = Files,
         work[w].version \notin cut =>
            \A piece \in Releases!Whole(work[w].file) \ p :
                \/ r.file = work[w].file /\ piece \in Left(r.at)
                \/ \E u \in Releases!Workers \ {w} :
                        Owes(u, work[w].version, work[w].file, piece)
  PROVE  ReleasesInv'
<1> DEFINE v0 == work[w].version
           k == work[w].file
<1>1. /\ work \in [Releases!Workers -> WorkRecords]
      /\ work'[w] = r /\ \A u \in Releases!Workers \ {w} : work'[u] = work[u]
      /\ Files \in Nat \ {0}
  BY ReleasesTypes
<1>2. v0 \in releases /\ v0 \in Versions /\ k \in 1..Files
  BY DEF ReleasesInv, Releases!TypeOK
<1>3. /\ content \in [Versions -> [1..Files -> SUBSET {"there", "head", "tail", "x"}]]
      /\ \A v \in Versions, f \in 1..Files : content[v][f] \subseteq Releases!Whole(f)
  BY DEF ReleasesInv, Releases!TypeOK
<1>4. p \subseteq {"there", "head", "tail", "x"}
  BY DEF Releases!Whole
<1>5. /\ content' \in [Versions -> [1..Files -> SUBSET {"there", "head", "tail", "x"}]]
      /\ content'[v0][k] = p
      /\ \A v \in Versions, f \in 1..Files : v # v0 \/ f # k => content'[v][f] = content[v][f]
      /\ \A v \in Versions : v # v0 => content'[v] = content[v]
  BY <1>2, <1>3, <1>4
<1>6. work' \in [Releases!Workers -> WorkRecords]
  BY <1>1
<1> HIDE DEF v0, k
<1>7. /\ \A u \in Releases!Workers : work[u].at \in FilePoints =>
                        work[u].version \in releases /\ work[u].file \in 1..Files
      /\ WorkInv /\ Created /\ NothingForgotten
      /\ releases \subseteq Versions
  BY DEF ReleasesInv, Releases!TypeOK, FilePoints
<1>8. WorkInv'
  BY <1>1, <1>7 DEF WorkInv, FilePoints, Releases!Workers
<1>9. Releases!TypeOK'
  <2>1. \A u \in Releases!Workers : work'[u].at \in FilePoints =>
                        work'[u].version \in releases /\ work'[u].file \in 1..Files
    BY <1>1, <1>2, <1>7 DEF v0, k, FilePoints
  <2>2. \A v \in Versions, f \in 1..Files : content'[v][f] \subseteq Releases!Whole(f)
    BY <1>3, <1>5 DEF k
  <2>3. \A v \in Versions \ downloads : content'[v] = Releases!NoFile
    BY <1>5 DEF v0, ReleasesInv, Releases!TypeOK, Releases!IsEmpty
  <2> QED
    BY <1>5, <1>6, <2>1, <2>2, <2>3
       DEF ReleasesInv, Releases!TypeOK, Releases!IsEmpty, Releases!NoFile, Releases!Whole,
           Releases!Workers, Releases!Points, WorkRecords, FilePoints
<1>10. Created'
  <2> SUFFICES ASSUME NEW u \in Releases!Workers, NEW f \in 1..Files,
                      \/ work'[u].at \in {"head", "tail", "chmod"} /\ f <= work'[u].file
                      \/ work'[u].at \in {"mkdir", "create"} /\ f < work'[u].file
               PROVE  "there" \in content'[work'[u].version][f]
    BY DEF Created
  <2>1. work'[u].version \in Versions /\ work'[u].version \in releases
    BY <1>1, <1>2, <1>7 DEF FilePoints, v0
  <2>2. CASE work'[u].version = v0 /\ f = k
    BY <1>5, <2>2
  <2>3. CASE ~(work'[u].version = v0 /\ f = k)
    <3>1. content'[work'[u].version][f] = content[work'[u].version][f]
      BY <1>5, <2>1, <2>3
    <3>2. CASE u # w
      BY <1>1, <1>7, <3>1, <3>2 DEF Created
    <3>3. CASE u = w
      <4>0. f # k /\ k \in Nat /\ f \in Nat
        BY <1>1, <1>2, <2>3, <3>3 DEF v0
      <4>1. f < k
        <5>1. CASE r.file = k
          BY <1>1, <3>3, <4>0, <5>1
        <5>2. CASE r.file = k + 1 /\ r.at = "mkdir"
          BY <1>1, <3>3, <4>0, <5>2
        <5> QED
          BY <5>1, <5>2 DEF k
      <4>2. "there" \in content[v0][f]
        <5>1. /\ work[w].version = v0 /\ work[w].file = k
              /\ f < work[w].file /\ f <= work[w].file
          BY <1>2, <4>0, <4>1 DEF v0, k
        <5> QED
          BY <1>7, <5>1 DEF Created
      <4> QED
        BY <1>1, <3>1, <3>3, <4>2 DEF v0
    <3> QED
      BY <3>2, <3>3
  <2> QED
    BY <2>2, <2>3
<1>11. NothingForgotten'
  <2> SUFFICES ASSUME NEW v \in Versions \ cut, (~Releases!IsEmpty(v))',
                      NEW f \in 1..Files, NEW piece \in Releases!Whole(f), piece \notin content'[v][f]
               PROVE  \E u \in Releases!Workers : Owes(u, v, f, piece)'
    BY DEF NothingForgotten, Releases!Whole
  <2>1. ASSUME NEW u \in Releases!Workers \ {w}, Owes(u, v, f, piece)
        PROVE  Owes(u, v, f, piece)'
    BY <1>1, <2>1 DEF Owes, Saves
  <2>2. CASE v # v0
    <3>1. ~Releases!IsEmpty(v) /\ piece \notin content[v][f]
      BY <1>5, <2>2 DEF Releases!IsEmpty, Releases!NoFile
    <3>2. PICK u \in Releases!Workers : Owes(u, v, f, piece)
      BY <1>7, <3>1 DEF NothingForgotten
    <3>3. u # w
      BY <2>2, <3>2 DEF Owes, Saves, v0
    <3> QED
      BY <2>1, <3>2, <3>3
  <2>3. CASE v = v0 /\ f = k
    <3>1. piece \in Releases!Whole(k) \ p
      BY <1>5, <2>3
    <3>2. CASE r.file = k /\ piece \in Left(r.at)
      <4>1. r.at \in {"head", "tail", "chmod"}
        BY <1>1, <1>2, <3>2 DEF Left, k
      <4>2. r.version = v /\ r.file = f
        BY <2>3, <3>2 DEF v0
      <4>3. Saves(w, v)' /\ work'[w].file = f /\ piece \in Left(work'[w].at)
        BY <1>1, <3>2, <4>1, <4>2 DEF Saves, FilePoints
      <4>4. Owes(w, v, f, piece)'
        BY <4>3 DEF Owes
      <4> QED
        BY <4>4
    <3>3. CASE \E u \in Releases!Workers \ {w} : Owes(u, v0, k, piece)
      BY <2>1, <2>3, <3>3
    <3> QED
      BY <2>3, <3>1, <3>2, <3>3 DEF v0, k
  <2>4. CASE v = v0 /\ f > k
    <3>1. r.at \in FilePoints /\ r.file <= f /\ (r.at = "mkdir" => r.file > 1)
          /\ (r.file = f => r.at = "mkdir")
      BY <1>1, <1>2, <2>4 DEF FilePoints, WorkRecords, k
    <3>2. piece \in Left("mkdir")
      BY DEF Left, Pieces, Releases!Whole
    <3>3. Owes(w, v, f, piece)'
      BY <1>1, <1>2, <2>4, <3>1, <3>2 DEF Owes, Saves, v0, WorkRecords
    <3> QED
      BY <3>3
  <2>5. CASE v = v0 /\ f < k
    <3>1. "there" \in content[v0][f] /\ piece \notin content[v0][f]
      BY <1>2, <1>5, <1>7, <2>5 DEF Created, v0, k
    <3>2. ~Releases!IsEmpty(v0)
      BY <3>1 DEF Releases!IsEmpty, Releases!NoFile
    <3>3. PICK u \in Releases!Workers : Owes(u, v, f, piece)
      BY <1>7, <2>5, <3>1, <3>2 DEF NothingForgotten
    <3>4. u # w
      BY <1>2, <2>5, <3>3 DEF Owes, Saves, k
    <3> QED
      BY <2>1, <3>3, <3>4
  <2> QED
    BY <1>2, <2>2, <2>3, <2>4, <2>5
<1> QED
  BY <1>8, <1>9, <1>10, <1>11 DEF ReleasesInv

LEMMA CreateKeeps ==
  ASSUME ReleasesInv, NEW w \in Releases!Workers, Releases!Create(w)
  PROVE  ReleasesInv'
<1> DEFINE v0 == work[w].version
           k == work[w].file
           p == {"there"} \cup (content[v0][k] \cap {"x"})
           r == [work[w] EXCEPT !.at = "head"]
<1>1. /\ work[w].at = "create" /\ v0 \in downloads
      /\ UNCHANGED <<releases, downloads, ensures, faults, cut>>
      /\ content' = [content EXCEPT ![v0][k] = {"there"} \cup (@ \cap {"x"})]
      /\ work' = [work EXCEPT ![w].at = "head"]
  BY Zenon DEF Releases!Create
<1>2. v0 \in Versions /\ k \in 1..Files
  BY <1>1 DEF ReleasesInv, Releases!TypeOK
<1>3. /\ r \in WorkRecords /\ work' = [work EXCEPT ![w] = r]
      /\ r.at = "head" /\ r.version = v0 /\ r.file = k /\ r.todo = work[w].todo
  BY <1>1, ReleasesTypes DEF WorkRecords, Releases!Points
<1>4. content' = [content EXCEPT ![v0][k] = p]
  BY <1>1, <1>2 DEF ReleasesInv, Releases!TypeOK
<1>5. "there" \in p /\ p \subseteq Releases!Whole(k)
  BY <1>2 DEF ReleasesInv, Releases!TypeOK, Releases!Whole
<1>6. \A piece \in Releases!Whole(k) \ p : piece \in Left(r.at)
  BY <1>3 DEF Left, Releases!Whole
<1> HIDE DEF p, r
<1> QED
  BY <1>1, <1>3, <1>4, <1>5, <1>6, OneWrites

(* A file that has been created is there.                                   *)
LEMMA IsThere ==
  ASSUME ReleasesInv, NEW w \in Releases!Workers, work[w].at \in {"head", "tail", "chmod"}
  PROVE  /\ work[w].version \in Versions /\ work[w].file \in 1..Files
         /\ "there" \in content[work[w].version][work[w].file]
         /\ content[work[w].version][work[w].file] \subseteq Releases!Whole(work[w].file)
         /\ work[w].version \in downloads /\ ~Releases!IsEmpty(work[w].version)
<1>1. work[w].version \in Versions /\ work[w].file \in 1..Files
  BY DEF ReleasesInv, Releases!TypeOK
<1>2. "there" \in content[work[w].version][work[w].file]
  BY <1>1 DEF ReleasesInv, Created
<1>3. ~Releases!IsEmpty(work[w].version)
  BY <1>1, <1>2 DEF Releases!IsEmpty, Releases!NoFile
<1> QED
  BY <1>1, <1>2, <1>3 DEF ReleasesInv, Releases!TypeOK

LEMMA CopiesKeep ==
  ASSUME ReleasesInv, NEW w \in Releases!Workers, Releases!Copies(w)
  PROVE  ReleasesInv'
<1> DEFINE v0 == work[w].version
           k == work[w].file
           old == content[v0][k]
           Others(piece) == \E u \in Releases!Workers \ {w} : Owes(u, v0, k, piece)
<1>1. /\ work[w].at \in {"head", "tail", "chmod"}
      /\ UNCHANGED <<releases, downloads, ensures, faults, cut>>
  BY DEF Releases!Copies
<1>2. /\ v0 \in Versions /\ k \in 1..Files /\ "there" \in old
      /\ old \subseteq Releases!Whole(k) /\ v0 \in downloads /\ ~Releases!IsEmpty(v0)
  BY <1>1, IsThere
<1>3. Files \in Nat \ {0} /\ work[w] \in WorkRecords
  BY ReleasesTypes
<1>4. \A piece \in Releases!Whole(k) \ old :
          v0 \notin cut => piece \in Left(work[w].at) \/ Others(piece)
  BY <1>2, <1>3 DEF ReleasesInv, NothingForgotten, Owes, WorkRecords
<1>5. CASE work[w].at = "head"
  <2> DEFINE p == old \cup {"head"}
             r == [work[w] EXCEPT !.at = "tail"]
  <2>1. content' = [content EXCEPT ![v0][k] = @ \cup {"head"}] /\ work' = [work EXCEPT ![w].at = "tail"]
    BY <1>5, Zenon DEF Releases!Copies, Releases!Puts
  <2>2. content' = [content EXCEPT ![v0][k] = p]
    BY <1>2, <2>1 DEF ReleasesInv, Releases!TypeOK
  <2>3. /\ r \in WorkRecords /\ work' = [work EXCEPT ![w] = r]
        /\ r.at = "tail" /\ r.version = v0 /\ r.file = k /\ r.todo = work[w].todo
    BY <2>1, <1>3, ReleasesTypes DEF WorkRecords, Releases!Points
  <2>4. "there" \in p /\ p \subseteq Releases!Whole(k)
    BY <1>2 DEF Releases!Whole
  <2>5. v0 \notin cut => \A piece \in Releases!Whole(k) \ p : piece \in Left(r.at) \/ Others(piece)
    BY <1>4, <1>5, <2>3 DEF Left
  <2> HIDE DEF p, r
  <2> QED
    BY <1>1, <1>2, <2>2, <2>3, <2>4, <2>5, OneWrites
<1>6. CASE work[w].at = "tail"
  <2> DEFINE p == old \cup {"tail"}
             r == IF k = Files THEN [work[w] EXCEPT !.at = "chmod"] ELSE Releases!NextFile(w)
  <2>1. /\ content' = [content EXCEPT ![v0][k] = @ \cup {"tail"}]
        /\ work' = [work EXCEPT ![w] = r]
    <3>1. /\ content' = [content EXCEPT ![v0][k] = @ \cup {"tail"}]
          /\ work' = [work EXCEPT ![w] = IF @.file = Files THEN [@ EXCEPT !.at = "chmod"]
                                         ELSE Releases!NextFile(w)]
      BY <1>6, Zenon DEF Releases!Copies, Releases!Puts
    <3> QED
      BY <3>1, ReleasesTypes
  <2>2. content' = [content EXCEPT ![v0][k] = p]
    BY <1>2, <2>1 DEF ReleasesInv, Releases!TypeOK
  <2>3. /\ r \in WorkRecords /\ r.version = v0 /\ r.todo = work[w].todo
        /\ \/ k = Files /\ r.file = k /\ r.at = "chmod"
           \/ k # Files /\ r.file = k + 1 /\ r.at = "mkdir" /\ r.file <= Files
    <3>1. CASE k = Files
      BY <1>3, <3>1 DEF WorkRecords, Releases!Points
    <3>2. CASE k # Files
      <4>0. k < Files
        BY <1>2, <1>3, <3>2
      <4>1. r = [at |-> "mkdir", todo |-> work[w].todo, version |-> v0, file |-> k + 1]
        BY <1>3, <3>2, <4>0 DEF Releases!NextFile, WorkRecords
      <4>2. k + 1 \in 0..Files
        BY <1>2, <1>3, <3>2
      <4> HIDE DEF r
      <4> QED
        BY <1>3, <3>2, <4>1, <4>2 DEF WorkRecords, Releases!Points
    <3> QED
      BY <3>1, <3>2
  <2>4. "there" \in p /\ p \subseteq Releases!Whole(k)
    BY <1>2 DEF Releases!Whole
  <2>5. v0 \notin cut => \A piece \in Releases!Whole(k) \ p :
            (r.file = k /\ piece \in Left(r.at)) \/ Others(piece)
    <3> SUFFICES ASSUME v0 \notin cut, NEW piece \in Releases!Whole(k) \ p, ~Others(piece)
                 PROVE  r.file = k /\ piece \in Left(r.at)
      OBVIOUS
    <3>1. piece \in Left("tail") /\ piece # "tail"
      BY <1>4, <1>6
    <3>2. piece = "x" /\ k = Files
      BY <3>1 DEF Left, Releases!Whole
    <3> QED
      BY <2>3, <3>2 DEF Left
  <2> HIDE DEF p, r
  <2> QED
    BY <1>1, <1>2, <2>1, <2>2, <2>3, <2>4, <2>5, OneWrites
<1>7. CASE work[w].at = "chmod"
  <2> DEFINE p == IF Releases!LooksExecutable(w) THEN old \cup {"x"} ELSE old
             r == Releases!NextFile(w)
  <2>1. /\ content' = IF Releases!LooksExecutable(w)
                      THEN [content EXCEPT ![v0][k] = @ \cup {"x"}] ELSE content
        /\ work' = [work EXCEPT ![w] = r]
    BY <1>7, Zenon DEF Releases!Copies, Releases!Puts
  <2>2. content' = [content EXCEPT ![v0][k] = p]
    BY <1>2, <2>1 DEF ReleasesInv, Releases!TypeOK
  <2>3. k = Files
    BY <1>7 DEF ReleasesInv, WorkInv
  <2>4. /\ r \in WorkRecords /\ r.version = v0 /\ r.todo = work[w].todo
        /\ r.file = k /\ r.at = "next"
    BY <1>3, <2>3 DEF Releases!NextFile, WorkRecords, Releases!Points
  <2>5. "there" \in p /\ p \subseteq Releases!Whole(k)
    BY <1>2, <2>3 DEF Releases!Whole
  <2>6. v0 \notin cut => \A piece \in Releases!Whole(k) \ p : Others(piece)
    <3> SUFFICES ASSUME v0 \notin cut, NEW piece \in Releases!Whole(k) \ p, ~Others(piece)
                 PROVE  FALSE
      OBVIOUS
    <3>1. piece = "x" /\ ~Releases!LooksExecutable(w)
      BY <1>4, <1>7 DEF Left
    <3>2. "head" \in Releases!Whole(k) \ old
      BY <3>1 DEF Releases!LooksExecutable, Releases!Whole
    <3>3. PICK u \in Releases!Workers \ {w} : Owes(u, v0, k, "head")
      BY <1>4, <1>7, <3>2 DEF Left
    <3>4. Owes(u, v0, k, "x")
      BY <3>3 DEF Owes, Left, Pieces
    <3> QED
      BY <3>1, <3>3, <3>4
  <2> HIDE DEF p, r
  <2> QED
    BY <1>1, <1>2, <2>1, <2>2, <2>3, <2>4, <2>5, <2>6, OneWrites
<1> QED
  BY <1>1, <1>5, <1>6, <1>7

LEMMA CrashKeeps ==
  ASSUME ReleasesInv, Releases!Crash
  PROVE  ReleasesInv'
<1>1. /\ work' = [w \in Releases!Workers |-> Releases!Idle]
      /\ cut' = cut \cup UNION {Releases!Cutting(w) : w \in Releases!Workers}
      /\ faults < MaxFaults /\ faults' = faults + 1
      /\ UNCHANGED <<releases, downloads, content, ensures>>
  BY DEF Releases!Crash, Releases!Fault
<1>2. \A w \in Releases!Workers : work'[w] = Releases!Idle /\ work'[w].at = "idle"
  BY <1>1, ReleasesTypes
<1>3. cut \subseteq cut' /\ cut' \subseteq Versions
  BY <1>1 DEF Releases!Cutting, ReleasesInv, Releases!TypeOK
<1>4. Created' /\ WorkInv'
  BY <1>2, ReleasesTypes DEF Created, WorkInv, FilePoints
<1>5. NothingForgotten'
  <2> SUFFICES ASSUME NEW v \in Versions \ cut', ~Releases!IsEmpty(v),
                      NEW f \in 1..Files, NEW piece \in Releases!Whole(f), piece \notin content[v][f]
               PROVE  FALSE
    BY <1>1 DEF NothingForgotten, Releases!IsEmpty, Releases!NoFile, Releases!Whole
  <2>1. PICK u \in Releases!Workers : Owes(u, v, f, piece)
    BY <1>3 DEF ReleasesInv, NothingForgotten
  <2>2. v \in Releases!Cutting(u)
    BY <2>1 DEF Owes, Saves, FilePoints, Releases!Cutting
  <2> QED
    BY <1>1, <2>2
<1>6. work' \in [Releases!Workers -> WorkRecords]
  BY <1>1, ReleasesTypes
<1>7. faults' \in 0..MaxFaults
  BY <1>1, ReleasesTypes DEF ReleasesInv, Releases!TypeOK
<1>8. Releases!TypeOK'
  BY <1>1, <1>2, <1>3, <1>6, <1>7
     DEF ReleasesInv, Releases!TypeOK, Releases!IsEmpty, Releases!NoFile, Releases!Whole,
         Releases!Workers, Releases!Points, WorkRecords
<1> QED
  BY <1>4, <1>5, <1>8 DEF ReleasesInv

LEMMA ReleasesStep == ReleasesInv /\ [Releases!Next]_(Releases!vars) => ReleasesInv'
<1> SUFFICES ASSUME ReleasesInv, [Releases!Next]_(Releases!vars) PROVE ReleasesInv'
  OBVIOUS
<1>1. ASSUME NEW w \in Releases!Workers, Releases!Step(w) PROVE ReleasesInv'
  BY <1>1, LookKeeps, DirectoryKeeps, CreateKeeps, CopiesKeep DEF Releases!Step
<1>2. CASE UNCHANGED Releases!vars
  BY <1>2 DEF Releases!vars, ReleasesInv, Releases!TypeOK, Releases!IsEmpty, Releases!NoFile,
              Releases!Whole, Created, WorkInv, NothingForgotten, Owes, Saves
<1> QED
  BY <1>1, <1>2, SyncKeeps, EnsureKeeps, DirectoryKeeps, CrashKeeps DEF Releases!Next

LEMMA ReleasesInvIsTrue == ReleasesInv => Releases!CompleteUnlessCut
<1> SUFFICES ASSUME ReleasesInv, Releases!Quiet,
                    NEW v \in downloads \ cut, ~Releases!IsEmpty(v), NEW f \in 1..Files
             PROVE  content[v][f] = Releases!Whole(f)
  BY DEF Releases!CompleteUnlessCut, Releases!Complete
<1>1. v \in Versions \ cut /\ content[v][f] \subseteq Releases!Whole(f)
  BY DEF ReleasesInv, Releases!TypeOK
<1>2. \A w \in Releases!Workers : work[w].at = "idle"
  BY ReleasesTypes DEF Releases!Quiet
<1>3. ASSUME NEW w \in Releases!Workers, NEW piece PROVE ~Owes(w, v, f, piece)
  BY <1>2 DEF Owes, Saves, FilePoints
<1> QED
  BY <1>1, <1>3 DEF ReleasesInv, NothingForgotten

-----------------------------------------------------------------------------
(***************************************************************************)
(* The proxy's two caches.  Their proofs are about another instance of the *)
(* same module, which says the same.                                       *)
(***************************************************************************)
LEMMA SameDiscovery ==
  /\ Discovery!DiscoveryAssumption => DiscoveryP!DiscoveryAssumption
  /\ Discovery!Init => DiscoveryP!Init
  /\ [Discovery!Next]_(Discovery!vars) => [DiscoveryP!Next]_(DiscoveryP!vars)
  /\ DiscoveryP!TypeOK => Discovery!TypeOK
  /\ DiscoveryP!CachedIsTrue => Discovery!CachedIsTrue
  BY DEF Discovery!Keys, DiscoveryP!Keys, Discovery!None, DiscoveryP!None, Discovery!vars,
         DiscoveryP!vars, Discovery!Dto, DiscoveryP!Dto, Discovery!Idle, DiscoveryP!Idle,
         Discovery!Taken, DiscoveryP!Taken, Discovery!Found, DiscoveryP!Found, Discovery!Dtos,
         DiscoveryP!Dtos, Discovery!TypeOK, DiscoveryP!TypeOK, Discovery!Init, DiscoveryP!Init,
         Discovery!FindServiceByIDOrName, DiscoveryP!FindServiceByIDOrName, Discovery!Fills,
         DiscoveryP!Fills, Discovery!Without, DiscoveryP!Without, Discovery!Deactivated,
         DiscoveryP!Deactivated, Discovery!InvalidateServiceCache,
         DiscoveryP!InvalidateServiceCache, Discovery!Expires, DiscoveryP!Expires,
         Discovery!Changes, DiscoveryP!Changes, Discovery!Save, DiscoveryP!Save,
         Discovery!MarkService, DiscoveryP!MarkService, Discovery!Rename, DiscoveryP!Rename,
         Discovery!Delete, DiscoveryP!Delete, Discovery!Create, DiscoveryP!Create,
         Discovery!Next, DiscoveryP!Next, Discovery!CachedIsTrue, DiscoveryP!CachedIsTrue,
         Discovery!DiscoveryAssumption, DiscoveryP!DiscoveryAssumption

LEMMA SameGzip ==
  /\ Gzip!GzipAssumption => GzipP!GzipAssumption
  /\ Gzip!Init => GzipP!Init
  /\ [Gzip!Next]_(Gzip!vars) => [GzipP!Next]_(GzipP!vars)
  /\ GzipP!TypeOK => Gzip!TypeOK
  /\ GzipP!CopyIsTrueUnlessSpoilt => Gzip!CopyIsTrueUnlessSpoilt
<1>1. Gzip!GzipAssumption => GzipP!GzipAssumption
  BY DEF Gzip!GzipAssumption, GzipP!GzipAssumption, Gzip!Writers, GzipP!Writers,
         Gzip!IsFiniteSet, GzipP!IsFiniteSet, Gzip!Cardinality, GzipP!Cardinality
<1> QED
  BY <1>1 DEF Gzip!Writers, GzipP!Writers, Gzip!GzipAssumption, GzipP!GzipAssumption, Gzip!vars,
         GzipP!vars, Gzip!Empty, GzipP!Empty, Gzip!Idle, GzipP!Idle, Gzip!Quiet, GzipP!Quiet,
         Gzip!Unused, GzipP!Unused, Gzip!TypeOK, GzipP!TypeOK, Gzip!Init, GzipP!Init,
         Gzip!IsGzThere, GzipP!IsGzThere, Gzip!isGzValid, GzipP!isGzValid, Gzip!Answered,
         GzipP!Answered, Gzip!Reads, GzipP!Reads, Gzip!ReadsHead, GzipP!ReadsHead,
         Gzip!ReadsOther, GzipP!ReadsOther, Gzip!Creates, GzipP!Creates, Gzip!Writes, GzipP!Writes, Gzip!Disconnects,
         GzipP!Disconnects, Gzip!GivesUp, GzipP!GivesUp, Gzip!Publishes, GzipP!Publishes,
         Gzip!Cleans, GzipP!Cleans, Gzip!Edits, GzipP!Edits, Gzip!CopiesFresh,
         GzipP!CopiesFresh, Gzip!SaveFile, GzipP!SaveFile, Gzip!ExtractZip, GzipP!ExtractZip,
         Gzip!RenameFile, GzipP!RenameFile, Gzip!DeleteFile, GzipP!DeleteFile, Gzip!Next,
         GzipP!Next, Gzip!CopyIsTrue, GzipP!CopyIsTrue, Gzip!CopyIsTrueUnlessSpoilt,
         GzipP!CopyIsTrueUnlessSpoilt

-----------------------------------------------------------------------------
(***************************************************************************)
(* The server: whichever part is at work, its invariant holds.             *)
(***************************************************************************)
ServerInv ==
    /\ part \in {"gzip", "discovery", "hooks", "clone", "vacuum", "releases"}
    /\ part = "gzip" => GzipP!GzipInv
    /\ part = "discovery" => DiscoveryP!DiscoveryInv
    /\ part = "hooks" => HooksInv
    /\ part = "clone" => CloneInv
    /\ part = "vacuum" => VacuumInv /\ DebtInv
    /\ part = "releases" => ReleasesInv

LEMMA ServerInit == Init => ServerInv
<1>1. GzipP!GzipAssumption /\ DiscoveryP!DiscoveryAssumption
  BY ServerAssumption, SameGzip, SameDiscovery
<1>2. Gzip!Init => GzipP!GzipInv
  BY <1>1, SameGzip, GzipP!GzipInit
<1>3. Discovery!Init => DiscoveryP!DiscoveryInv
  BY <1>1, SameDiscovery, DiscoveryP!DiscoveryInit
<1> QED
  BY <1>2, <1>3, HooksInit, CloneInit, VacuumInit, DebtInit, ReleasesInit
     DEF Init, ServerInv

LEMMA ServerStep == ServerInv /\ [Next]_vars => ServerInv'
<1> SUFFICES ASSUME ServerInv, [Next]_vars PROVE ServerInv'
  OBVIOUS
<1>1. GzipP!GzipAssumption /\ DiscoveryP!DiscoveryAssumption
  BY ServerAssumption, SameGzip, SameDiscovery
<1>2. part' = part
  BY DEF Next, vars
<1>3. CASE part = "gzip"
  <2>1. [Gzip!Next]_(Gzip!vars)
    BY <1>3 DEF Next, vars, gzipVars, Gzip!vars
  <2>2. GzipP!GzipInv'
    BY <1>1, <1>3, <2>1, SameGzip, GzipP!GzipStep DEF ServerInv
  <2> QED
    BY <1>2, <1>3, <2>2 DEF ServerInv
<1>4. CASE part = "discovery"
  <2>1. [Discovery!Next]_(Discovery!vars)
    BY <1>4 DEF Next, vars, discoveryVars, Discovery!vars
  <2>2. DiscoveryP!DiscoveryInv'
    BY <1>1, <1>4, <2>1, SameDiscovery, DiscoveryP!DiscoveryStep DEF ServerInv
  <2> QED
    BY <1>2, <1>4, <2>2 DEF ServerInv
<1>5. CASE part = "hooks"
  <2>1. [Hooks!Next]_(Hooks!vars)
    BY <1>5 DEF Next, vars, recordVars, hooksVars, Hooks!vars
  <2> QED
    BY <1>2, <1>5, <2>1, HooksStep DEF ServerInv
<1>6. CASE part = "clone"
  <2>1. [Clone!Next]_(Clone!vars)
    BY <1>6 DEF Next, vars, recordVars, cloneVars, Clone!vars
  <2> QED
    BY <1>2, <1>6, <2>1, CloneStep DEF ServerInv
<1>7. CASE part = "vacuum"
  <2>1. [Vacuum!Next]_(Vacuum!vars)
    BY <1>7 DEF Next, vars, vacuumVars, Vacuum!vars
  <2> QED
    BY <1>2, <1>7, <2>1, VacuumStep, DebtStep DEF ServerInv
<1>8. CASE part = "releases"
  <2>1. [Releases!Next]_(Releases!vars)
    BY <1>8 DEF Next, vars, releasesVars, Releases!vars
  <2> QED
    BY <1>2, <1>8, <2>1, ReleasesStep DEF ServerInv
<1> QED
  BY <1>3, <1>4, <1>5, <1>6, <1>7, <1>8 DEF ServerInv

LEMMA ServerInvariant == Spec => []ServerInv
  BY ServerInit, ServerStep, PTL DEF Spec

(* What the proxy serves from <file>.gz once nobody writes to it is the     *)
(* whole file, unless a copy was spoilt: for any number of requests beside  *)
(* the file manager, although they share <file>.gz.tmp.                     *)
THEOREM GzipCopyIsWhole == Spec => []CopyIsTrueUnlessSpoilt
<1>1. ServerInv => CopyIsTrueUnlessSpoilt
  BY SameGzip, GzipP!GzipInvIsTrue DEF ServerInv, CopyIsTrueUnlessSpoilt
<1> QED
  BY <1>1, ServerInvariant, PTL

(* What FindServiceByIDOrName answers from its cache is what the database   *)
(* would answer, once the invalidations of the changes have run: but for    *)
(* ids of deleted services, names given up, and what a lookup caches that   *)
(* read before a change.                                                    *)
THEOREM DiscoveryCacheIsTrue == Spec => []CachedIsTrue
<1>1. ServerInv => CachedIsTrue
  BY SameDiscovery, DiscoveryP!DiscoveryInvIsTrue DEF ServerInv, CachedIsTrue
<1> QED
  BY <1>1, ServerInvariant, PTL

(* Renaming and deleting a service leave nothing behind, however they are   *)
(* ordered with starts, failures and an end of PBLauncher that do not       *)
(* disturb them.                                                            *)
THEOREM HooksAreTidy == Spec => []TidyUnlessDisturbed
<1>1. ServerInv => TidyUnlessDisturbed
  BY HooksInvIsTrue DEF ServerInv, TidyUnlessDisturbed
<1> QED
  BY <1>1, ServerInvariant, PTL

(* CloneService makes a service with a whole copy of the source's data or   *)
(* takes back what it has made, unless disturbed.                           *)
THEOREM ClonesAreWhole == Spec => []WholeOrNothing
<1>1. ServerInv => WholeOrNothing
  BY CloneInvIsTrue DEF ServerInv, WholeOrNothing
<1> QED
  BY <1>1, ServerInvariant, PTL

(* For any services and requests: no service runs while the sweep is        *)
(* compacting its database, but one whose start looked at IsVacuuming       *)
(* before LockVacuum.                                                       *)
THEOREM VacuumWorksAlone == Spec => []AloneUnlessLate
<1>1. ServerInv => AloneUnlessLate
  BY VacuumInvIsTrue DEF ServerInv, AloneUnlessLate
<1> QED
  BY <1>1, ServerInvariant, PTL

(* For any versions, archives and workers: once nobody downloads, what      *)
(* counts as downloaded is complete, unless a download was broken off,      *)
(* although workers truncate and write each other's files.                  *)
THEOREM DownloadsAreComplete == Spec => []CompleteUnlessCut
<1>1. ServerInv => CompleteUnlessCut
  BY ReleasesInvIsTrue DEF ServerInv, CompleteUnlessCut
<1> QED
  BY <1>1, ServerInvariant, PTL

(* A sweep compacts no service that was compacted since another was looked  *)
(* at: runVacuumSweep, of whatever services, which sortByLastVacuum sorts,  *)
(* begins where the last one was broken off.                                *)
THEOREM DebtsArePaidInOrder == Spec => NoneTwiceBeforeAll
<1>1. ServerInv /\ [Next]_vars => [part = "vacuum" => Vacuum!InOrder]_vars
  <2> SUFFICES ASSUME ServerInv, [Next]_vars, part = "vacuum" PROVE Vacuum!InOrder
    OBVIOUS
  <2>1. [Vacuum!Next]_(Vacuum!vars)
    BY DEF Next, vars, vacuumVars, Vacuum!vars
  <2> QED
    BY <2>1, DebtStep DEF ServerInv
<1>2. [](ServerInv) /\ [][Next]_vars => [][part = "vacuum" => Vacuum!InOrder]_vars
  BY <1>1, PTL
<1> QED
  BY <1>2, ServerInvariant, PTL DEF Spec, NoneTwiceBeforeAll

(* The variables of whichever part is at work keep their types.             *)
THEOREM TypeCorrect == Spec => []TypeOK
<1>1. ServerInv => TypeOK
  <2> SUFFICES ASSUME ServerInv PROVE TypeOK
    OBVIOUS
  <2>1. part = "gzip" => Gzip!TypeOK
    BY SameGzip DEF ServerInv, GzipP!GzipInv
  <2>2. part = "discovery" => Discovery!TypeOK
    BY SameDiscovery DEF ServerInv, DiscoveryP!DiscoveryInv
  <2>3. part = "hooks" => Hooks!TypeOK
    BY DEF ServerInv, HooksInv
  <2>4. part = "clone" => Clone!TypeOK
    BY DEF ServerInv, CloneInv
  <2>5. part = "vacuum" => Vacuum!TypeOK
    BY VacuumTypes DEF ServerInv
  <2>6. part = "releases" => Releases!TypeOK
    BY DEF ServerInv, ReleasesInv
  <2> QED
    BY <2>1, <2>2, <2>3, <2>4, <2>5, <2>6 DEF ServerInv, TypeOK
<1> QED
  BY <1>1, ServerInvariant, PTL
===============================================================================
