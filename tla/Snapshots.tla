------------------------------- MODULE Snapshots -------------------------------
(***************************************************************************)
(* The snapshots of one service: the launcher's Manager, and the section   *)
(* of the panel that shows and orders them.                                *)
(*                                                                         *)
(* A request of the Manager takes its steps one by one; between two of     *)
(* them files are edited, the service is started and writes its database,  *)
(* and the other requests take theirs.  The data of the service is a       *)
(* number, fresh after every change.  A restore asks for a backup first    *)
(* unless the data are those of the current snapshot, which it judges by   *)
(* current_snapshot_id and the age of data.db.                             *)
(*                                                                         *)
(* At first there is one snapshot, the current one, or none.  The state is *)
(* in five records: db (the launcher's), net (requests under way), cache   *)
(* (what the panel has fetched), ui, and past (history).                   *)
(***************************************************************************)
EXTENDS Naturals, Sequences

CONSTANTS
    Ids,        \* snapshots there may be
    None,       \* no snapshot
    Edits,      \* the ways data change
    MaxEdits,   \* bound: changes of the data
    MaxClicks   \* bound: what the user does

SnapshotsAssumption == MaxEdits \in Nat /\ None \notin Ids

VARIABLES db, net, cache, ui, past

vars == <<db, net, cache, ui, past>>

Gone == 0       \* no data: the directory is being replaced
Idle == [at |-> "idle"]
NoSnapshot == [type |-> "none", data |-> Gone]
Requests == {"create", "restore", "delete", "command"}

Stored == {i \in Ids : db.saved[i] # NoSnapshot}
IsSaved(d) == \E i \in Stored : db.saved[i].data = d

TypeOK ==
    /\ db.status \in {"stopped", "running"}
    /\ db.orders \in Seq({"start", "stop", "restart"})
    /\ db.data \in 0..(MaxEdits + 1) /\ db.edits \in 0..MaxEdits
    /\ db.head \in Ids \cup {None} /\ db.late \in BOOLEAN
    /\ \A i \in Ids : db.saved[i].type \in {"none", "manual", "pre-restore"}
    /\ cache.list \subseteq Ids

Init ==
    /\ \E i \in Ids \cup {None} :
        /\ db = [status |-> "stopped", orders |-> <<>>, data |-> 1, edits |-> 0,
                 head |-> i, late |-> FALSE,
                 saved |-> [j \in Ids |-> IF j = i THEN [type |-> "manual", data |-> 1]
                                         ELSE NoSnapshot]]
        /\ cache = [status |-> "stopped", list |-> {i} \ {None}, fetching |-> FALSE]
    /\ net = [m \in Requests |-> Idle]
    /\ ui = [modal |-> "none", dialog |-> [kind |-> "none"], clicks |-> 0]
    /\ past = [disturbed |-> FALSE, failed |-> FALSE]

At(m, step) == net[m].at = step
Busy(m) == net[m].at # "idle"
Goto(m, c) == net' = [net EXCEPT ![m] = c]

\* Something else happens to the service while a snapshot is made or applied.
Disturbance == past' = [past EXCEPT !.disturbed = @ \/ Busy("create") \/ Busy("restore")]

-----------------------------------------------------------------------------
(***************************************************************************)
(* What changes the data.  The file manager clears current_snapshot_id     *)
(* after it has saved or deleted a file, and only then; the clearing may   *)
(* fail.  The database of the service shows by its age, if it is written   *)
(* more than two seconds after the snapshot was applied.                   *)
(***************************************************************************)
Changed == [db EXCEPT !.data = db.edits + 2, !.edits = @ + 1]

MayChange(how) ==
    /\ how \in Edits /\ db.edits < MaxEdits
    /\ db.data # Gone

\* Mutant of SaveFile: current_snapshot_id is not cleared.
SaveFileUnmarked ==
    /\ MayChange("save")
    /\ db.status = "stopped"
    /\ db' = Changed /\ Disturbance
    /\ UNCHANGED <<net, cache, ui>>

SaveFile ==
    /\ MayChange("save")
    /\ db.status = "stopped"
    /\ \/ db' = [Changed EXCEPT !.head = None] /\ Disturbance
       \/ db' = Changed /\ past' = [past EXCEPT !.disturbed = TRUE]
    /\ UNCHANGED <<net, cache, ui>>

RenameFile ==
    /\ MayChange("rename")
    /\ db.status = "stopped"
    /\ db' = Changed
    /\ past' = [past EXCEPT !.disturbed = TRUE]
    /\ UNCHANGED <<net, cache, ui>>

WriteDatabase ==
    /\ MayChange("db")
    /\ db.status = "running"
    /\ \/ db' = [Changed EXCEPT !.late = TRUE] /\ Disturbance
       \/ db' = Changed /\ past' = [past EXCEPT !.disturbed = TRUE]
    /\ UNCHANGED <<net, cache, ui>>

\* The launcher executes a command.
Obey ==
    /\ db.orders # <<>>
    /\ db' = [db EXCEPT !.orders = Tail(@),
                        !.status = IF Head(db.orders) = "stop" THEN "stopped" ELSE "running"]
    /\ Disturbance
    /\ UNCHANGED <<net, cache, ui>>

executeServiceCommand ==
    /\ At("command", "sent")
    /\ db' = [db EXCEPT !.orders = Append(@, net["command"].action)]
    /\ Goto("command", [at |-> "ok"])
    /\ UNCHANGED <<cache, ui, past>>

-----------------------------------------------------------------------------
(***************************************************************************)
(* The Manager's requests.  c.then is where a snapshot is made for: the    *)
(* answer of a create, the rest of a restore.                              *)
(***************************************************************************)
\* What says that the data are not those of a snapshot; a database that is not
\* there is not either.
isDirty == db.head = None \/ db.late \/ db.data = Gone

\* current_snapshot_id and the time it was set.  A failure is ignored, and what
\* was the current snapshot stays so, of other data after a restore.
setCurrentSnapshotID(i) ==
    \/ /\ db' = [db EXCEPT !.head = i, !.late = FALSE]
       /\ past' = [past EXCEPT !.disturbed = db.data # db.saved[i].data]
    \/ /\ UNCHANGED db
       /\ past' = [past EXCEPT !.disturbed =
                        @ \/ (~isDirty /\ db.data # db.saved[db.head].data)]

CreateBegins ==
    /\ At("create", "sent") /\ db.status = "stopped"
    /\ Goto("create", [at |-> "zip", type |-> "manual", then |-> [at |-> "ok"]])
    /\ UNCHANGED <<db, cache, ui, past>>

RestoreBegins ==
    /\ At("restore", "sent") /\ db.status = "stopped"
    /\ net["restore"].id \in Stored
    /\ LET next == [at |-> "remove", id |-> net["restore"].id]
           manual == db.saved[net["restore"].id].type = "manual"
       IN Goto("restore", IF manual /\ isDirty
                          THEN [at |-> "zip", type |-> "pre-restore", then |-> next]
                          ELSE next)
    /\ past' = [past EXCEPT !.disturbed = @ \/ Busy("delete") \/ Busy("create")]
    /\ UNCHANGED <<db, cache, ui>>

\* The ZIP of the directory as it is now.
Zip(m) ==
    /\ At(m, "zip") /\ db.data # Gone
    /\ Goto(m, [at |-> "record", type |-> net[m].type, then |-> net[m].then, data |-> db.data])
    /\ UNCHANGED <<db, cache, ui, past>>

SaveRecord(m, i) ==
    /\ At(m, "record") /\ i \in Ids \ Stored
    /\ db' = [db EXCEPT !.saved[i] = [type |-> net[m].type, data |-> net[m].data]]
    /\ Goto(m, [at |-> "head", made |-> i, then |-> net[m].then])
    /\ UNCHANGED <<cache, ui, past>>

MarkCurrent(m) ==
    /\ At(m, "head") /\ net[m].made \in Stored
    /\ setCurrentSnapshotID(net[m].made)
    /\ Goto(m, net[m].then)
    /\ UNCHANGED <<cache, ui>>

\* The snapshot has been fetched and unpacked; the directory is removed.
RemoveData ==
    /\ At("restore", "remove") /\ net["restore"].id \in Stored
    /\ db' = [db EXCEPT !.data = Gone]
    /\ Goto("restore", [at |-> "copy", id |-> net["restore"].id,
                        data |-> db.saved[net["restore"].id].data])
    /\ UNCHANGED <<cache, ui, past>>

CopyData ==
    /\ At("restore", "copy")
    /\ db' = [db EXCEPT !.data = net["restore"].data]
    /\ Goto("restore", [at |-> "head", made |-> net["restore"].id, then |-> [at |-> "ok"]])
    /\ UNCHANGED <<cache, ui, past>>

DeleteSnapshot ==
    /\ At("delete", "sent") /\ net["delete"].id \in Stored
    /\ db' = [db EXCEPT !.saved[net["delete"].id] = NoSnapshot]
    /\ Goto("delete", [at |-> "clear", id |-> net["delete"].id])
    /\ Disturbance
    /\ UNCHANGED <<cache, ui>>

ClearCurrent ==
    /\ At("delete", "clear")
    /\ \/ db' = [db EXCEPT !.head = IF @ = net["delete"].id THEN None ELSE @] /\ UNCHANGED past
       \/ UNCHANGED db /\ past' = [past EXCEPT !.disturbed = TRUE]
    /\ Goto("delete", [at |-> "ok"])
    /\ UNCHANGED <<cache, ui>>

\* Any step may fail, and a check refuse.
Fails(m) ==
    /\ net[m].at \in {"sent", "zip", "record", "remove", "copy"}
    /\ Goto(m, [at |-> "error"])
    /\ UNCHANGED <<db, cache, ui, past>>

\* A snapshot that is deleted before it is marked: its record is set all the same.
MarkDeleted(m) ==
    /\ At(m, "head") /\ net[m].made \notin Stored
    /\ db' = [db EXCEPT !.head = net[m].made, !.late = FALSE]
    /\ Goto(m, net[m].then)
    /\ past' = [past EXCEPT !.disturbed = TRUE]
    /\ UNCHANGED <<cache, ui>>

Manager ==
    \/ CreateBegins \/ RestoreBegins \/ RemoveData \/ CopyData
    \/ \E m \in {"create", "restore"} :
        \/ Zip(m) \/ MarkCurrent(m) \/ MarkDeleted(m)
        \/ \E i \in Ids : SaveRecord(m, i)
    \/ DeleteSnapshot \/ ClearCurrent
    \/ \E m \in Requests : Fails(m)

-----------------------------------------------------------------------------
(***************************************************************************)
(* SnapshotsSection                                                        *)
(***************************************************************************)
\* The page above polls the service.
serviceQuery ==
    /\ cache' = [cache EXCEPT !.status = IF db.orders = <<>> THEN db.status ELSE "pending"]
    /\ cache' # cache
    /\ UNCHANGED <<db, net, ui, past>>

snapshotsQuery ==
    /\ cache.fetching
    /\ cache' = [cache EXCEPT !.list = Stored, !.fetching = FALSE]
    /\ UNCHANGED <<db, net, ui, past>>

canCreate == cache.status = "stopped"

Click ==
    /\ ui.dialog.kind = "none" /\ ui.modal = "none"
    /\ ui.clicks < MaxClicks

Clicked == [ui EXCEPT !.clicks = @ + 1]

\* Of the two buttons that stop the service, one looks at no more than this.
CanCommand(action) ==
    /\ ~Busy("command")
    /\ CASE action = "start" -> canCreate
         [] action = "stop" -> ~canCreate
         [] action = "restart" -> cache.status = "running"

handleCommand(action) ==
    /\ Click /\ CanCommand(action)
    /\ Goto("command", [at |-> "sent", action |-> action])
    /\ ui' = Clicked
    /\ UNCHANGED <<db, cache, past>>

createSnapshot ==
    /\ Click /\ canCreate /\ ~Busy("create")
    /\ ui' = [Clicked EXCEPT !.modal = "create"]
    /\ UNCHANGED <<db, net, cache, past>>

handleSubmit ==
    /\ ui.modal = "create" /\ ~Busy("create")
    /\ Goto("create", [at |-> "sent"])
    /\ UNCHANGED <<db, cache, ui, past>>

\* The cross of the dialog; the request goes on.
closeModal ==
    /\ ui.modal # "none"
    /\ ui' = [ui EXCEPT !.modal = "none"]
    /\ UNCHANGED <<db, net, cache, past>>

\* The row of a snapshot and its buttons.
CanRestore(i) == i \in cache.list /\ ~Busy("restore") /\ canCreate
CanDelete(i) == i \in cache.list /\ ~Busy("delete")

restoreSnapshot(i) ==
    /\ Click /\ CanRestore(i)
    /\ ui' = [Clicked EXCEPT !.dialog = [kind |-> "restore", id |-> i]]
    /\ UNCHANGED <<db, net, cache, past>>

deleteSnapshot(i) ==
    /\ Click /\ CanDelete(i)
    /\ ui' = [Clicked EXCEPT !.dialog = [kind |-> "delete", id |-> i]]
    /\ UNCHANGED <<db, net, cache, past>>

confirm(ok) ==
    /\ ui.dialog.kind # "none"
    /\ ui' = [ui EXCEPT !.dialog = [kind |-> "none"]]
    /\ IF ok THEN Goto(ui.dialog.kind, [at |-> "sent", id |-> ui.dialog.id]) ELSE UNCHANGED net
    /\ UNCHANGED <<db, cache, past>>

-----------------------------------------------------------------------------
(***************************************************************************)
(* Answers.  Every success fetches the list again, no failure does.        *)
(***************************************************************************)
refetch == cache' = [cache EXCEPT !.fetching = TRUE]

\* onSuccess of the mutation, then the dialog's own closeModal.
createSucceeds ==
    /\ At("create", "ok")
    /\ Goto("create", Idle)
    /\ ui' = [ui EXCEPT !.modal = "none"]
    /\ refetch
    /\ UNCHANGED <<db, past>>

\* Mutant of restoreSucceeds: the list is not fetched again.
restoreSucceedsSilently ==
    /\ At("restore", "ok")
    /\ Goto("restore", Idle)
    /\ UNCHANGED <<db, cache, ui, past>>

restoreSucceeds ==
    /\ At("restore", "ok")
    /\ Goto("restore", Idle)
    /\ refetch
    /\ UNCHANGED <<db, ui, past>>

deleteSucceeds ==
    /\ At("delete", "ok")
    /\ Goto("delete", Idle)
    /\ refetch
    /\ UNCHANGED <<db, ui, past>>

\* The key it invalidates is not the key of the page's query.
commandSucceeds ==
    /\ At("command", "ok")
    /\ Goto("command", Idle)
    /\ UNCHANGED <<db, cache, ui, past>>

MutationFails(m) ==
    /\ At(m, "error")
    /\ Goto(m, Idle)
    /\ past' = [past EXCEPT !.failed = TRUE]
    /\ UNCHANGED <<db, cache, ui>>

Panel ==
    \/ serviceQuery \/ snapshotsQuery
    \/ \E action \in {"start", "stop", "restart"} : handleCommand(action)
    \/ createSnapshot \/ handleSubmit \/ closeModal
    \/ \E i \in Ids : restoreSnapshot(i) \/ deleteSnapshot(i)
    \/ \E ok \in BOOLEAN : confirm(ok)
    \/ createSucceeds \/ restoreSucceeds \/ deleteSucceeds \/ commandSucceeds
    \/ \E m \in Requests : MutationFails(m)

Next ==
    \/ SaveFile \/ RenameFile \/ WriteDatabase
    \/ Obey \/ executeServiceCommand
    \/ Manager \/ Panel

Spec == Init /\ [][Next]_vars

-----------------------------------------------------------------------------
(***************************************************************************)
(* Properties                                                              *)
(***************************************************************************)
Removes == db.data # Gone /\ db'.data = Gone
OfManual == db.saved[net["restore"].id].type = "manual"

\* What the restore of a manual snapshot removes is in some snapshot.
RemovesSaved == Removes /\ OfManual => IsSaved(db.data)

\* A restore can be undone: the data it removes are in some snapshot, unless it
\* undoes a restore itself.  This holds unless the data were changed in a way that
\* leaves no trace (a rename, a write within two seconds, a mark that could not
\* be cleared or, after a restore, set), or something else happened to the
\* service during the request.
KeptUnlessDisturbed == [][RemovesSaved \/ past.disturbed]_vars

\* Nothing under way and nothing failed: the list shows what there is.
SnapshotListIsTrue ==
    (\A m \in Requests : ~Busy(m)) /\ ~cache.fetching /\ ~past.failed => cache.list = Stored
=============================================================================
