------------------------------ MODULE ServiceHooks ------------------------------
(***************************************************************************)
(* Renaming and deleting a service: the hooks of its record stop its       *)
(* process, move or remove its directory and change the record, beside     *)
(* starts that have read the record before.                                *)
(*                                                                         *)
(* A start with the launcher's lock is one step, and so is a stop; what    *)
(* happens within them is in Launcher.  A directory holds the service's    *)
(* data or, made anew by a start that does not find it, nothing.           *)
(***************************************************************************)
EXTENDS Naturals

CONSTANTS
    Names,      \* names a service may have, which are also its directories
    Starts,     \* starts that may be under way at a time
    Events,     \* what may go wrong: "fault", "exit"
    MaxHooks    \* bound: renames and deletions

NoName == "none"

HooksAssumption == {NoName, "idle"} \cap Names = {} /\ MaxHooks \in Nat

VARIABLES
    record,     \* the name in the service's record, or NoName once it is deleted
    dir,        \* dir[n]: "none", "data" or "fresh"
    process,    \* [name, on]: the process, started under a name, and its data
    start,      \* start[x]: "idle", or the name that a start has read
    hook,       \* the request on the record
    hooks,
    disturbed   \* history: a start was under way during a hook, or a hook failed

vars == <<record, dir, process, start, hook, hooks, disturbed>>

NoProcess == [name |-> NoName, on |-> "none"]
NoHook == [at |-> "none", to |-> NoName]
Contents == {"none", "data", "fresh"}

Exists == record # NoName
Runs == process # NoProcess
Quiet == hook = NoHook

TypeOK ==
    /\ record \in Names \cup {NoName}
    /\ dir \in [Names -> Contents]
    /\ process \in [name : Names \cup {NoName}, on : Contents \cup {"removed"}]
    /\ start \in [Starts -> Names \cup {"idle"}]
    /\ hook \in [at : {"none", "stopped", "moved", "named", "going", "gone"},
                 to : Names \cup {NoName}]
    /\ hooks \in 0..MaxHooks /\ disturbed \in BOOLEAN

Init ==
    /\ record \in Names
    /\ dir = [n \in Names |-> IF n = record THEN "data" ELSE "none"]
    /\ process \in {NoProcess, [name |-> record, on |-> "data"]}
    /\ start = [x \in Starts |-> "idle"]
    /\ hook = NoHook /\ hooks = 0
    /\ disturbed = FALSE

-----------------------------------------------------------------------------
(***************************************************************************)
(* Starts and stops                                                        *)
(***************************************************************************)
\* A wake-up or a command reads the record.
ReadsRecord(x) ==
    /\ start[x] = "idle" /\ Exists
    /\ start' = [start EXCEPT ![x] = record]
    /\ disturbed' = (disturbed \/ ~Quiet)
    /\ UNCHANGED <<record, dir, process, hook, hooks>>

\* The directory is made if it is missing.
StartServiceLocked(x) ==
    LET n == start[x]
        found == IF dir[n] = "none" THEN "fresh" ELSE dir[n]
    IN
    /\ n # "idle"
    /\ start' = [start EXCEPT ![x] = "idle"]
    /\ IF Runs
       THEN UNCHANGED <<dir, process>>
       ELSE /\ dir' = [dir EXCEPT ![n] = found]
            /\ process' = [name |-> n, on |-> found]
    /\ UNCHANGED <<record, hook, hooks, disturbed>>

\* It is not started: no binary, or the record said that it is stopped.
StartFails(x) ==
    /\ start[x] # "idle"
    /\ start' = [start EXCEPT ![x] = "idle"]
    /\ UNCHANGED <<record, dir, process, hook, hooks, disturbed>>

\* A stop, a suspension or an exit.
Ends ==
    /\ "exit" \in Events
    /\ Runs
    /\ process' = NoProcess
    /\ UNCHANGED <<record, dir, start, hook, hooks, disturbed>>

-----------------------------------------------------------------------------
(***************************************************************************)
(* The hooks                                                               *)
(***************************************************************************)
\* Mutant of HookBegins: the process is stopped for a deletion only.
HookBeginsRunning(at, to) ==
    /\ Quiet /\ Exists
    /\ hooks < MaxHooks /\ hooks' = hooks + 1
    /\ hook' = [at |-> at, to |-> to]
    /\ process' = IF at = "going" THEN NoProcess ELSE process
    /\ disturbed' = (disturbed \/ \E x \in Starts : start[x] # "idle")
    /\ UNCHANGED <<record, dir, start>>

\* StopServiceIfRunning; that it could not stop the process is only logged.
HookBegins(at, to) ==
    /\ Quiet /\ Exists
    /\ hooks < MaxHooks /\ hooks' = hooks + 1
    /\ hook' = [at |-> at, to |-> to]
    /\ process' \in {NoProcess} \cup (IF "fault" \in Events THEN {process} ELSE {})
    /\ disturbed' = (disturbed \/ process' # NoProcess \/ \E x \in Starts : start[x] # "idle")
    /\ UNCHANGED <<record, dir, start>>

\* A rename needs a name of which there is no directory.
RenameStops(n) ==
    /\ Exists /\ n # record
    /\ dir[n] = "none"
    /\ HookBegins("stopped", n)

RenameMoves ==
    /\ hook.at = "stopped"
    /\ dir' = IF dir[record] = "none" THEN dir
              ELSE [dir EXCEPT ![hook.to] = dir[record], ![record] = "none"]
    /\ hook' = [hook EXCEPT !.at = "moved"]
    /\ UNCHANGED <<record, process, start, hooks, disturbed>>

RenameSavesDomain ==
    /\ hook.at = "moved"
    /\ hook' = [hook EXCEPT !.at = "named"]
    /\ UNCHANGED <<record, dir, process, start, hooks, disturbed>>

RenameSaves ==
    /\ hook.at = "named"
    /\ record' = hook.to
    /\ hook' = NoHook
    /\ UNCHANGED <<dir, process, start, hooks, disturbed>>

DeleteStops == HookBegins("going", NoName)

DeleteRecord ==
    /\ hook.at = "going"
    /\ record' = NoName
    /\ hook' = [at |-> "gone", to |-> record]
    /\ UNCHANGED <<dir, process, start, hooks, disturbed>>

DeleteDirectory ==
    /\ hook.at = "gone"
    /\ dir' = [dir EXCEPT ![hook.to] = "none"]
    /\ process' = IF process.name = hook.to THEN [process EXCEPT !.on = "removed"] ELSE process
    /\ hook' = NoHook
    /\ UNCHANGED <<record, start, hooks, disturbed>>

\* A step fails, and the hook ends there; nothing is taken back.
HookFails ==
    /\ "fault" \in Events
    /\ ~Quiet
    /\ hook' = NoHook
    /\ disturbed' = (disturbed \/ hook.at \in {"moved", "named", "gone"})
    /\ UNCHANGED <<record, dir, process, start, hooks>>

-----------------------------------------------------------------------------
Next ==
    \/ \E x \in Starts : ReadsRecord(x) \/ StartServiceLocked(x) \/ StartFails(x)
    \/ Ends
    \/ \E n \in Names : RenameStops(n)
    \/ RenameMoves \/ RenameSavesDomain \/ RenameSaves
    \/ DeleteStops \/ DeleteRecord \/ DeleteDirectory
    \/ HookFails

Spec == Init /\ [][Next]_vars

-----------------------------------------------------------------------------
\* Once a service is deleted, neither a process of it is left nor a directory.
DeletedIsGone == Quiet /\ ~Exists => ~Runs /\ \A n \in Names : dir[n] = "none"

\* The name of a service leads to its data, and its process was started under
\* that name and works on them.
NameLeadsToData ==
    Quiet /\ Exists =>
        /\ dir[record] = "data"
        /\ Runs => process = [name |-> record, on |-> "data"]

\* Both hold unless a start had read the record when a hook began or while it
\* went on, the process could not be stopped, a rename failed after it had
\* moved the directory, or the directory could not be removed.
TidyUnlessDisturbed == ~disturbed => DeletedIsGone /\ NameLeadsToData
===============================================================================
