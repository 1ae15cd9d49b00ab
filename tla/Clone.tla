--------------------------------- MODULE Clone ---------------------------------
(***************************************************************************)
(* Cloning a service: the record of the new one is made, the directory     *)
(* copied, the record marked stopped and a start ordered, beside requests  *)
(* for the new name, which wake it, the user, who may take it away again,  *)
(* and whatever changes the source: a start, the file manager, a restore   *)
(* in place.  An import of a backup takes the same steps from an archive.  *)
(*                                                                         *)
(* A directory is copied in two pieces; data is the source's, counted by   *)
(* its changes from 1, and 0 stands for what is not there.  A start with   *)
(* the launcher's lock is one step.                                        *)
(***************************************************************************)
EXTENDS Naturals

CONSTANTS
    Events,     \* what may happen: "source", "edit", "replace", "remove", "fault", "crash"
    MaxWrites,  \* bound: changes of the source
    MaxClones   \* bound: clones begun

BoundsAssumption == MaxWrites \in Nat \ {0} /\ MaxClones \in Nat

VARIABLES
    source,     \* "stopped" or "running", or "replaced": stopped, and being restored
    data,       \* the source's data
    record,     \* the new service's status, or "none"
    dir,        \* whether it has a directory
    copy,       \* what the directory holds
    process,    \* whether it has a process
    clone,      \* where the request is
    start,      \* the status that a wake-up has read, or "idle"
    command,    \* a start is ordered
    clones,
    disturbed   \* history: something came in between, or cleaning up failed

vars == <<source, data, record, dir, copy, process, clone, start, command, clones, disturbed>>

Nothing == [head |-> 0, tail |-> 0]
Statuses == {"restoring", "stopped", "running"}
Quiet == clone = "idle"
CopyIsWhole == copy.head = copy.tail /\ copy.head # 0

TypeOK ==
    /\ source \in {"stopped", "running", "replaced"} /\ data \in 1..MaxWrites
    /\ record \in Statuses \cup {"none"}
    /\ dir \in BOOLEAN /\ process \in BOOLEAN /\ command \in BOOLEAN
    /\ copy \in [head : 0..MaxWrites, tail : 0..MaxWrites]
    /\ ~dir => copy = Nothing
    /\ clone \in {"idle", "checked", "head", "tail", "stop", "domain", "publish"}
    /\ start \in Statuses \cup {"idle"}
    /\ clones \in 0..MaxClones /\ disturbed \in BOOLEAN

Init ==
    /\ source \in {"stopped", "running"} /\ data = 1
    /\ record = "none" /\ dir = FALSE /\ copy = Nothing
    /\ process = FALSE
    /\ clone = "idle" /\ start = "idle" /\ command = FALSE
    /\ clones = 0 /\ disturbed = FALSE

-----------------------------------------------------------------------------
(***************************************************************************)
(* The request                                                             *)
(***************************************************************************)
\* Neither a record nor a directory has the name, and the source is stopped.
CloneBegins ==
    /\ Quiet /\ clones < MaxClones /\ clones' = clones + 1
    /\ record = "none" /\ ~dir
    /\ source # "running"
    /\ clone' = "checked"
    /\ disturbed' = (disturbed \/ start # "idle")
    /\ UNCHANGED <<source, data, record, dir, copy, process, start, command>>

SaveRestoring ==
    /\ clone = "checked"
    /\ record' = "restoring"
    /\ clone' = "head"
    /\ UNCHANGED <<source, data, dir, copy, process, start, command, clones, disturbed>>

copyDir ==
    /\ \/ /\ clone = "head" /\ clone' = "tail"
          /\ copy' = [copy EXCEPT !.head = data]
       \/ /\ clone = "tail" /\ clone' = "stop"
          /\ copy' = [copy EXCEPT !.tail = data]
    /\ dir' = TRUE
    /\ disturbed' = (disturbed \/ source = "replaced")
    /\ UNCHANGED <<source, data, record, process, start, command, clones>>

\* The record is saved as it was made, over what a start or the user has written
\* meanwhile; one that is gone stays so.
SaveStopped ==
    /\ clone = "stop"
    /\ record' = "stopped" \/ (record = "none" /\ record' = record)
    /\ clone' = "domain"
    /\ UNCHANGED <<source, data, dir, copy, process, start, command, clones, disturbed>>

CreateFriendlyDomain ==
    /\ clone = "domain"
    /\ clone' = "publish"
    /\ UNCHANGED <<source, data, record, dir, copy, process, start, command, clones, disturbed>>

PublishStartCommand ==
    /\ clone = "publish"
    /\ command' = TRUE
    /\ clone' = "idle"
    /\ UNCHANGED <<source, data, record, dir, copy, process, start, clones, disturbed>>

\* os.RemoveAll, whose error is ignored: it may leave the directory, or a part.
Removed == dir' = FALSE /\ copy' = Nothing
PartlyRemoved == dir' = TRUE /\ copy' \in {copy, [copy EXCEPT !.head = 0], Nothing}

\* Mutant of CopyOrDomainFails: the record stays.
FailsButRecord ==
    /\ clone \in {"head", "tail", "domain"}
    /\ Removed
    /\ UNCHANGED <<record, disturbed>>

\* The record is deleted, and its directory: no hook stops a process here.  An
\* error of either is ignored.
CopyOrDomainFails ==
    /\ clone \in {"head", "tail", "domain"}
    /\ record' \in {"none", record}
    /\ Removed \/ PartlyRemoved
    /\ disturbed' = (disturbed \/ record' # "none" \/ dir')

\* The directory is removed, but the record stays as it is.
SaveStoppedFails ==
    /\ clone = "stop"
    /\ Removed \/ PartlyRemoved
    /\ disturbed' = TRUE
    /\ UNCHANGED record

\* There is nothing to clean up: no record yet, or a service without a start.
EndsFail ==
    /\ clone \in {"checked", "publish"}
    /\ UNCHANGED <<record, dir, copy, disturbed>>

CloneFails ==
    /\ "fault" \in Events
    /\ CopyOrDomainFails \/ SaveStoppedFails \/ EndsFail
    /\ clone' = "idle"
    /\ UNCHANGED <<source, data, process, start, command, clones>>

-----------------------------------------------------------------------------
(***************************************************************************)
(* Beside it                                                               *)
(***************************************************************************)
\* A request for the new name wakes it, whatever its status but stopped.  An
\* order of the user to start it has the same effect.
WakeupReads ==
    /\ start = "idle"
    /\ record \notin {"none", "stopped"} /\ ~process
    /\ start' = record
    /\ disturbed' = (disturbed \/ ~Quiet)
    /\ UNCHANGED <<source, data, record, dir, copy, process, clone, command, clones>>

\* A missing directory is made; writing the status of a record that is gone fails.
Starts ==
    /\ process' = TRUE
    /\ dir' = TRUE
    /\ record' = IF record = "none" THEN record ELSE "running"

WakeupStarts ==
    /\ start # "idle" /\ start' = "idle"
    /\ IF process THEN UNCHANGED <<process, dir, record>> ELSE Starts
    /\ UNCHANGED <<source, data, copy, clone, command, clones, disturbed>>

CommandStarts ==
    /\ command /\ command' = FALSE
    /\ IF process \/ record = "none" THEN UNCHANGED <<process, dir, record>> ELSE Starts
    /\ UNCHANGED <<source, data, copy, clone, start, clones, disturbed>>

\* The user deletes the new service, or gives it another name.
UserRemoves ==
    /\ "remove" \in Events
    /\ record # "none" /\ record' = "none"
    /\ dir' = FALSE /\ copy' = Nothing
    /\ process' = FALSE /\ command' = FALSE
    /\ disturbed' = (disturbed \/ ~Quiet \/ start # "idle")
    /\ UNCHANGED <<source, data, clone, start, clones>>

\* Nothing refuses a start in the middle of a restore either.
SourceStarts ==
    /\ "source" \in Events
    /\ source # "running" /\ source' = "running"
    /\ disturbed' = (disturbed \/ source = "replaced")
    /\ UNCHANGED <<data, record, dir, copy, process, clone, start, command, clones>>

\* It stops, or a restore of it is over, done or given up.
SourceStops ==
    /\ source # "stopped" /\ source' = "stopped"
    /\ UNCHANGED <<data, record, dir, copy, process, clone, start, command, clones, disturbed>>

\* The source's data change, and nothing holds that up while they are copied.
SourceChanges ==
    /\ data < MaxWrites /\ data' = data + 1
    /\ disturbed' = (disturbed \/ clone \in {"head", "tail"})
    /\ UNCHANGED <<record, dir, copy, process, clone, start, command, clones>>

\* A running source writes; the file manager and the vacuum change a stopped one.
SourceWrites ==
    /\ source = "running" \/ "edit" \in Events
    /\ SourceChanges
    /\ UNCHANGED source

\* RestoreSnapshotInPlace removes the stopped source's directory to fill it again.
SourceReplaced ==
    /\ "replace" \in Events
    /\ source = "stopped" /\ source' = "replaced"
    /\ SourceChanges

\* PBLauncher ends; nothing takes the clone up again.
Crash ==
    /\ "crash" \in Events
    /\ ~Quiet
    /\ clone' = "idle" /\ start' = "idle"
    /\ source' = IF source = "replaced" THEN "stopped" ELSE source
    /\ disturbed' = TRUE
    /\ UNCHANGED <<data, record, dir, copy, process, command, clones>>

-----------------------------------------------------------------------------
Next ==
    \/ CloneBegins \/ SaveRestoring \/ copyDir \/ SaveStopped
    \/ CreateFriendlyDomain \/ PublishStartCommand \/ CloneFails
    \/ WakeupReads \/ WakeupStarts \/ CommandStarts \/ UserRemoves
    \/ SourceStarts \/ SourceStops \/ SourceWrites \/ SourceReplaced
    \/ Crash

Spec == Init /\ [][Next]_vars

-----------------------------------------------------------------------------
\* A clone that is over has left a whole copy with its record, or nothing at
\* all, wherever it failed, unless a wake-up or a removal came in between, the
\* source's data changed while they were copied, PBLauncher ended, the record could
\* not be marked, or what had been made could not be taken back.
WholeOrNothing ==
    Quiet /\ ~disturbed =>
        IF record = "none" THEN ~dir /\ ~process ELSE dir /\ CopyIsWhole
===============================================================================
