------------------------------ MODULE FileServer ------------------------------
(***************************************************************************)
(* The file API of a service as the panel meets it: what a request does to *)
(* the files, and that it may be refused, fail, or be done and still be    *)
(* answered with an error.  The launcher is there only as the one that     *)
(* obeys start and stop orders.                                            *)
(*                                                                         *)
(* A text is the file it was read from and the number of edits made to it  *)
(* since, so that a text in the wrong file can be told.                    *)
(***************************************************************************)
EXTENDS Naturals, Sequences, FiniteSets

CONSTANTS
    Services,   \* the services
    Files,      \* paths, those of files still to be created included
    NoFile,     \* no path
    ServiceOf,  \* [Files -> Services]
    Kind,       \* [Files -> {"text", "image", "zip", "dir"}]
    Above,      \* [Files -> SUBSET Files]: the directories a path lies in
    Packed      \* [Files -> SUBSET Files]: what a zip holds

\* Directories lie above what they hold, all the way down.
PathsAssumption ==
    /\ NoFile \notin Files
    /\ ServiceOf \in [Files -> Services]
    /\ Kind \in [Files -> {"text", "image", "zip", "dir"}]
    /\ Above \in [Files -> SUBSET Files] /\ Packed \in [Files -> SUBSET Files]
    /\ \A f \in Files : \A g \in Above[f] :
        Kind[g] = "dir" /\ g # f /\ Above[g] \subseteq Above[f]

VARIABLES
    status,     \* status[s]: the status in the database
    orders,     \* orders[s]: the pending commands, in their order
    disk,       \* disk[f]: the text of a file, or Absent
    call        \* call[m]: the state of the panel's mutation m

server == <<status, orders, disk>>

Absent == [absent |-> TRUE]
Blank == [of |-> NoFile, edits |-> 0]
Fresh(f) == [of |-> f, edits |-> 0]

Present(s) == {f \in Files : ServiceOf[f] = s /\ disk[f] # Absent}

IsDir(f) == Kind[f] = "dir"
IsImageFile(f) == Kind[f] = "image"
IsBinary(f) == Kind[f] \in {"image", "zip"}

\* What fetchAllServices reports.
Reported(s) == IF orders[s] = <<>> THEN status[s] ELSE "pending"

(***************************************************************************)
(* The effect of each request on the files.  c is the call's record.       *)
(***************************************************************************)
\* MkdirAll: the directories on the way to f exist.
WithParents(f, d) ==
    [g \in Files |-> IF g \in Above[f] /\ d[g] = Absent THEN Blank ELSE d[g]]

\* cleanEmptyParents: directories above f that hold nothing else go with it.
WithoutEmptyParents(f, d) ==
    [g \in Files |->
        IF /\ g \in Above[f]
           /\ \A h \in Files : g \in Above[h] /\ d[h] # Absent => h \in Above[f]
        THEN Absent ELSE d[g]]

saveFile(c) == WithParents(c.file, [disk EXCEPT ![c.file] = c.text])

deleteFile(c) ==
    IF disk[c.file] = Absent THEN disk
    ELSE WithoutEmptyParents(c.file,
            [f \in Files |-> IF f = c.file \/ c.file \in Above[f] THEN Absent ELSE disk[f]])

\* os.Rename: what has the new name is replaced.
renameFile(c) ==
    WithoutEmptyParents(c.file,
        [WithParents(c.to, disk) EXCEPT ![c.to] = disk[c.file], ![c.file] = Absent])

extractZip(c) ==
    [f \in Files |-> IF f \in Packed[c.file] THEN Fresh(f) ELSE disk[f]]

createFolder(c) == WithParents(c.file, [disk EXCEPT ![c.file] = Blank])

uploadFiles(c) ==
    WithParents(c.file, [disk EXCEPT ![c.file] = Fresh(c.file)])

-----------------------------------------------------------------------------
Idle == [at |-> "idle"]

Pending(m) == call[m].at # "idle"

\* The mutations whose request changes files, with its effect.
FileEffect(m, c) ==
    CASE m \in {"save", "create"} -> saveFile(c)
      [] m = "delete" -> deleteFile(c)
      [] m = "rename" -> renameFile(c)
      [] m = "unzip" -> extractZip(c)
      [] m = "folder" -> createFolder(c)
      [] m = "upload" -> uploadFiles(c)

\* The manager changes files of a stopped service only; a file that is to be
\* renamed or unpacked has to be there.
MayWrite(m, c) ==
    /\ status[ServiceOf[c.file]] = "stopped"
    /\ m \in {"rename", "unzip"} => disk[c.file] # Absent

Answer(m, how) == call' = [call EXCEPT ![m].at = how]

\* A request that changes files is done if the service is stopped.
Done(m) ==
    /\ m # "command" /\ m # "bulk"
    /\ call[m].at = "sent"
    /\ MayWrite(m, call[m])
    /\ disk' = FileEffect(m, call[m])
    /\ \E how \in {"ok", "error"} : Answer(m, how)
    /\ UNCHANGED <<status, orders>>

\* It is refused, or fails.
Failed(m) ==
    /\ call[m].at = "sent"
    /\ Answer(m, "error")
    /\ UNCHANGED server

\* bulkDeleteMutation deletes one file after the other and stops at an error.
BulkStep ==
    /\ call["bulk"].at = "sent"
    /\ IF call["bulk"].left = {}
       THEN Answer("bulk", "ok") /\ UNCHANGED disk
       ELSE \E f \in call["bulk"].left :
                /\ status[ServiceOf[f]] = "stopped"
                /\ disk' = deleteFile([file |-> f])
                /\ call' = [call EXCEPT !["bulk"].left = @ \ {f}]
    /\ UNCHANGED <<status, orders>>

\* A command is published, whatever is pending.
executeServiceCommand ==
    /\ call["command"].at = "sent"
    /\ orders' = [orders EXCEPT ![call["command"].service] =
                    Append(@, call["command"].action)]
    /\ Answer("command", "ok")
    /\ UNCHANGED <<status, disk>>

\* The launcher executes commands one by one.
Obeyed(s) ==
    /\ orders[s] # <<>>
    /\ status' = [status EXCEPT ![s] =
                    IF Head(orders[s]) = "stop" THEN "stopped" ELSE "running"]
    /\ orders' = [orders EXCEPT ![s] = Tail(@)]
    /\ UNCHANGED <<disk, call>>

Mutations == {"save", "create", "delete", "rename", "unzip", "folder", "upload",
              "bulk", "command"}

ServerNext ==
    \/ \E m \in Mutations : Done(m) \/ Failed(m)
    \/ BulkStep
    \/ executeServiceCommand
    \/ \E s \in Services : Obeyed(s)
===============================================================================
