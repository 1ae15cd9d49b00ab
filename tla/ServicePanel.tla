------------------------------ MODULE ServicePanel ------------------------------
(***************************************************************************)
(* The services in the panel: the dashboard with its cards and dialogs,    *)
(* the detail page with its buttons and form, and the polling that keeps   *)
(* both up to date.  The launcher's side is what the requests set off.     *)
(*                                                                         *)
(* A page polls with two reads, the services and the pending commands, and *)
(* anything may happen between them.  A question covers the page, yet the  *)
(* browser's own buttons do not go through it: the user may leave a page   *)
(* with a question open or a request under way.  Bound: one request of a   *)
(* kind at a time.                                                         *)
(***************************************************************************)
EXTENDS Naturals, Sequences

CONSTANTS
    Services,   \* records, those still to be made included
    Names,      \* names of services, which are also the detail pages
    None,       \* no name, no service
    MaxClicks   \* bound: what the user does

ServicesAssumption == Services # {} /\ Names # {}

VARIABLES db, net, cache, ui, past

vars == <<db, net, cache, ui, past>>

Idle == [at |-> "idle"]
Absent == "absent"
Statuses == {"idle", "restoring", "stopped", "running", "sleeping", "failure"}
Requests == {"command", "delete", "save", "create", "clone"}

Exists(s) == db.name[s] # None
Free(n) == \A s \in Services : db.name[s] # n
Named(n) == CHOOSE s \in Services : db.name[s] = n

\* What the panel is to show of a service.
Reported(s) ==
    IF ~Exists(s) THEN Absent ELSE IF db.orders[s] # <<>> THEN "pending" ELSE db.status[s]

TypeOK ==
    /\ db.name \in [Services -> Names \cup {None}]
    /\ db.status \in [Services -> Statuses]
    /\ \A s, t \in Services : Exists(s) /\ db.name[s] = db.name[t] => s = t
    /\ cache.list \in [Services -> Statuses \cup {"pending", Absent}]
    /\ ui.page \in Names \cup {"/"}

\* The panel is opened at the list or at the page of a service.
Init ==
    /\ \E s \in {CHOOSE t \in Services : TRUE}, n \in {CHOOSE m \in Names : TRUE},
          st \in {"stopped", "sleeping"} :
        /\ db = [name |-> [t \in Services |-> IF t = s THEN n ELSE None],
                 status |-> [t \in Services |-> IF t = s THEN st ELSE "idle"],
                 orders |-> [t \in Services |-> <<>>]]
        /\ cache = [list |-> [t \in Services |-> IF t = s THEN st ELSE Absent],
                    detail |-> [m \in Names |-> [service |-> None]],
                    fetch |-> Idle]
        /\ ui \in [page : {"/", n}, dialog : {[kind |-> "none"]}, modal : {[kind |-> "none"]},
                  clicks : {0}]
    /\ net = [m \in Requests |-> Idle]
    /\ past = [lost |-> FALSE, undone |-> FALSE, overtaken |-> FALSE]

At(m, step) == net[m].at = step
Busy(m) == net[m].at # "idle"
Goto(m, c) == net' = [net EXCEPT ![m] = c]

-----------------------------------------------------------------------------
(***************************************************************************)
(* The launcher                                                            *)
(***************************************************************************)
Obey(s) ==
    /\ db.orders[s] # <<>>
    /\ \E st \in (IF Head(db.orders[s]) = "stop" THEN {"stopped"} ELSE {"running", "failure"}) :
        db' = [db EXCEPT !.orders[s] = Tail(@), !.status[s] = st]
    /\ UNCHANGED <<net, cache, ui, past>>

executeServiceCommand ==
    /\ At("command", "sent")
    /\ LET c == net["command"] IN
        /\ Exists(c.service)
        /\ db' = [db EXCEPT !.orders[c.service] = Append(@, c.action)]
    /\ Goto("command", [at |-> "ok"])
    /\ UNCHANGED <<cache, ui, past>>

\* The answer may be lost.
Deleted(s) ==
    [db EXCEPT !.name[s] = None, !.status[s] = "idle", !.orders[s] = <<>>]

deleteServiceInstance ==
    /\ At("delete", "sent")
    /\ Exists(net["delete"].service)
    /\ db' = Deleted(net["delete"].service)
    /\ \/ Goto("delete", [at |-> "ok"]) /\ UNCHANGED past
       \/ Goto("delete", [at |-> "error"]) /\ past' = [past EXCEPT !.lost = TRUE]
    /\ UNCHANGED <<cache, ui>>

\* The hook takes name, policy and limits from the request; the release stays.
updateServiceInstance ==
    /\ At("save", "sent")
    /\ LET c == net["save"] IN
        /\ Exists(c.service)
        /\ Free(c.name) \/ db.name[c.service] = c.name
        /\ db' = [db EXCEPT !.name[c.service] = c.name]
        /\ \/ Goto("save", [c EXCEPT !.at = "ok"]) /\ UNCHANGED past
           \/ Goto("save", [at |-> "error"]) /\ past' = [past EXCEPT !.lost = TRUE]
    /\ UNCHANGED <<cache, ui>>

\* Mutant of createServiceInstance: names need not be unique.
createServiceInstanceAnyName(s) ==
    /\ At("create", "sent")
    /\ ~Exists(s)
    /\ db' = [db EXCEPT !.name[s] = net["create"].name, !.orders[s] = <<"start">>]
    /\ Goto("create", [at |-> "password"])
    /\ UNCHANGED <<cache, ui, past>>

\* The record is made and a start ordered; the password is a second request.
createServiceInstance(s) ==
    /\ At("create", "sent")
    /\ ~Exists(s) /\ Free(net["create"].name)
    /\ db' = [db EXCEPT !.name[s] = net["create"].name, !.orders[s] = <<"start">>]
    /\ Goto("create", [at |-> "password"])
    /\ UNCHANGED <<cache, ui, past>>

upsertSuperuser ==
    /\ At("create", "password")
    /\ Goto("create", [at |-> "ok"])
    /\ UNCHANGED <<db, cache, ui, past>>

\* The record of a copy is made as restoring, then filled.
CopyBegins(s) ==
    /\ At("clone", "sent")
    /\ ~Exists(s) /\ Free(net["clone"].name)
    /\ db' = [db EXCEPT !.name[s] = net["clone"].name, !.status[s] = "restoring"]
    /\ Goto("clone", [at |-> "copy", service |-> s])
    /\ UNCHANGED <<cache, ui, past>>

cloneService(s) ==
    /\ CopyBegins(s)
    /\ net["clone"].source # None
    /\ db.status[net["clone"].source] = "stopped"

\* An imported snapshot has no source.
restoreBackup(s) == CopyBegins(s) /\ net["clone"].source = None

\* A failed copy takes the record back; a record that cannot be saved as stopped
\* stays, and so does one whose start cannot be ordered.
CopyEnds ==
    /\ At("clone", "copy")
    /\ LET s == net["clone"].service IN
        \/ /\ db' = [db EXCEPT !.status[s] = "stopped", !.orders[s] = Append(@, "start")]
           /\ Goto("clone", [at |-> "ok"])
        \/ db' = Deleted(s) /\ Goto("clone", [at |-> "error"])
        \/ /\ db' \in {db, [db EXCEPT !.status[s] = "stopped"]}
           /\ Goto("clone", [at |-> "error"])
    /\ past' = [past EXCEPT !.undone = @ \/ db'.name[net["clone"].service] = None]
    /\ UNCHANGED <<cache, ui>>

Fails(m) ==
    /\ net[m].at \in {"sent", "password"}
    /\ Goto(m, [at |-> "error"])
    /\ UNCHANGED <<db, cache, ui, past>>

Launcher ==
    \/ executeServiceCommand \/ deleteServiceInstance \/ updateServiceInstance
    \/ \E s \in Services : createServiceInstance(s) \/ cloneService(s) \/ restoreBackup(s)
    \/ upsertSuperuser \/ CopyEnds
    \/ \E m \in Requests : Fails(m)

-----------------------------------------------------------------------------
(***************************************************************************)
(* Queries.  The list reads services and commands in any order; the detail *)
(* page reads the service first and then its commands.                     *)
(***************************************************************************)
Rows == [s \in Services |-> IF Exists(s) THEN db.status[s] ELSE Absent]
PendingCommands == {s \in Services : db.orders[s] # <<>>}

Merged(rows, commands) ==
    [s \in Services |-> IF rows[s] # Absent /\ s \in commands THEN "pending" ELSE rows[s]]


FetchBegins ==
    /\ cache.fetch = Idle /\ ui.page = "/"
    /\ \/ cache' = [cache EXCEPT !.fetch = [at |-> "rows", rows |-> Rows]]
       \/ cache' = [cache EXCEPT !.fetch = [at |-> "commands", commands |-> PendingCommands]]
    /\ UNCHANGED <<db, net, ui, past>>

fetchAllServices ==
    /\ cache.fetch.at \in {"rows", "commands"}
    /\ cache' = [cache EXCEPT
                    !.list = IF cache.fetch.at = "rows"
                             THEN Merged(cache.fetch.rows, PendingCommands)
                             ELSE Merged(Rows, cache.fetch.commands),
                    !.fetch = Idle]
    /\ UNCHANGED <<db, net, ui, past>>

\* A name that no service has is an error, and what was read before stays.
DetailBegins ==
    /\ cache.fetch = Idle /\ ui.page # "/" /\ ~Free(ui.page)
    /\ cache' = [cache EXCEPT !.fetch = [at |-> "detail", name |-> ui.page,
                                         service |-> Named(ui.page), rows |-> Rows]]
    /\ UNCHANGED <<db, net, ui, past>>

fetchServiceByName ==
    /\ cache.fetch.at = "detail"
    /\ LET f == cache.fetch IN
        cache' = [cache EXCEPT
                    !.detail[f.name] = [service |-> f.service,
                                        status |-> Merged(f.rows, PendingCommands)[f.service]],
                    !.fetch = Idle]
    /\ UNCHANGED <<db, net, ui, past>>

-----------------------------------------------------------------------------
(***************************************************************************)
(* The user                                                                *)
(***************************************************************************)
Click == ui.clicks < MaxClicks
Clicked == [ui EXCEPT !.clicks = @ + 1]
Uncovered == ui.dialog.kind = "none" /\ ui.modal.kind = "none"

navigate(p) ==
    /\ Click /\ ui.page # p
    /\ p # "/" => \E s \in Services : Exists(s) /\ db.name[s] = p
    /\ ui' = [Clicked EXCEPT !.page = p]
    /\ UNCHANGED <<db, net, cache, past>>

\* What is on display of a service, and the buttons there are for it.
OnCard(s, statuses) == ui.page = "/" /\ cache.list[s] \in statuses
OnDetail(s, statuses) ==
    /\ ui.page # "/" /\ cache.detail[ui.page].service = s
    /\ cache.detail[ui.page].status \in statuses

isStopped(s) ==
    OnCard(s, {"stopped", "idle"}) \/ OnDetail(s, {"stopped", "idle", "failure"})
isRunning(s) == OnCard(s, {"running", "sleeping"}) \/ OnDetail(s, {"running", "sleeping"})

handleStart(s) ==
    /\ Click /\ Uncovered /\ isStopped(s) /\ ~Busy("command")
    /\ Goto("command", [at |-> "sent", service |-> s, action |-> "start"])
    /\ ui' = Clicked
    /\ UNCHANGED <<db, cache, past>>

handleStop(s) ==
    /\ Click /\ Uncovered /\ isRunning(s) /\ ~Busy("command")
    /\ ui' = [Clicked EXCEPT !.dialog = [kind |-> "command", service |-> s, action |-> "stop"]]
    /\ UNCHANGED <<db, net, cache, past>>

\* The detail page has two more buttons.
CanRestart(s) == ui.page # "/" /\ isRunning(s) /\ ~Busy("command")

handleRestart(s) ==
    /\ Click /\ Uncovered /\ CanRestart(s)
    /\ ui' = [Clicked EXCEPT !.dialog = [kind |-> "command", service |-> s,
                                         action |-> "restart"]]
    /\ UNCHANGED <<db, net, cache, past>>

CanDelete(s) == ui.page # "/" /\ isStopped(s)

handleDelete(s) ==
    /\ Click /\ Uncovered /\ CanDelete(s) /\ ~Busy("delete")
    /\ ui' = [Clicked EXCEPT !.dialog = [kind |-> "delete", service |-> s, action |-> "none"]]
    /\ UNCHANGED <<db, net, cache, past>>

\* The answer resolves the question on display: the one asked last.
handleConfirm ==
    /\ ui.dialog.kind # "none" /\ ~Busy(ui.dialog.kind)
    /\ Goto(ui.dialog.kind, [at |-> "sent", service |-> ui.dialog.service,
                             action |-> ui.dialog.action])
    /\ ui' = [ui EXCEPT !.dialog = [kind |-> "none"]]
    /\ UNCHANGED <<db, cache, past>>

handleCancel ==
    /\ ui.dialog.kind # "none"
    /\ ui' = [ui EXCEPT !.dialog = [kind |-> "none"]]
    /\ UNCHANGED <<db, net, cache, past>>

\* The form of the detail page, open while the service is shown as stopped.
CanEdit(s) == OnDetail(s, {"stopped", "idle", "failure"}) /\ ~Busy("save")

handleFormSubmit(s, n) ==
    /\ Click /\ Uncovered /\ CanEdit(s)
    /\ Goto("save", [at |-> "sent", service |-> s, name |-> n, seen |-> ui.page])
    /\ ui' = Clicked
    /\ UNCHANGED <<db, cache, past>>

\* New instance and import, and the clone of a stopped service.
CanOpen(kind, s) ==
    \/ ui.page = "/" /\ s = None
    \/ kind = "clone" /\ s # None /\ isStopped(s)

openModal(kind, s) ==
    /\ Click /\ Uncovered /\ CanOpen(kind, s)
    /\ ui' = [Clicked EXCEPT !.modal = [kind |-> kind, source |-> s]]
    /\ UNCHANGED <<db, net, cache, past>>

handleSubmit(n) ==
    /\ ~Busy(ui.modal.kind)
    /\ Goto(ui.modal.kind, [at |-> "sent", name |-> n, source |-> ui.modal.source])
    /\ UNCHANGED <<db, cache, ui, past>>

SubmitCreate(n) == ui.modal.kind = "create" /\ handleSubmit(n)
SubmitClone(n) == ui.modal.kind = "clone" /\ ui.modal.source # None /\ handleSubmit(n)
SubmitImport(n) == ui.modal.kind = "clone" /\ ui.modal.source = None /\ handleSubmit(n)

closeModal ==
    /\ ui.modal.kind # "none"
    /\ ui' = [ui EXCEPT !.modal = [kind |-> "none"]]
    /\ UNCHANGED <<db, net, cache, past>>

-----------------------------------------------------------------------------
(***************************************************************************)
(* Answers.  The list is invalidated, which the polling covers.            *)
(***************************************************************************)
commandSucceeds ==
    /\ At("command", "ok")
    /\ Goto("command", Idle)
    /\ UNCHANGED <<db, cache, ui, past>>

deleteSucceeds ==
    /\ At("delete", "ok")
    /\ Goto("delete", Idle)
    /\ ui' = [ui EXCEPT !.page = "/"]
    /\ UNCHANGED <<db, cache, past>>

\* handleSaveRecord goes to the page of the new name, even if the service has been
\* deleted since.
saveSucceeds ==
    /\ At("save", "ok")
    /\ Goto("save", Idle)
    /\ ui' = IF net["save"].name = net["save"].seen THEN ui
             ELSE [ui EXCEPT !.page = net["save"].name]
    /\ past' = [past EXCEPT !.overtaken = @ \/ Free(net["save"].name)]
    /\ UNCHANGED <<db, cache>>

\* closeModal takes whatever dialog is open by now.
createSucceeds(m) ==
    /\ m \in {"create", "clone"} /\ At(m, "ok")
    /\ Goto(m, Idle)
    /\ ui' = [ui EXCEPT !.modal = [kind |-> "none"]]
    /\ UNCHANGED <<db, cache, past>>

MutationFails(m) ==
    /\ At(m, "error")
    /\ Goto(m, Idle)
    /\ UNCHANGED <<db, cache, ui, past>>

Completion ==
    \/ commandSucceeds \/ deleteSucceeds \/ saveSucceeds
    \/ \E m \in Requests : createSucceeds(m) \/ MutationFails(m)

Polling == FetchBegins \/ fetchAllServices \/ DetailBegins \/ fetchServiceByName

User ==
    \/ \E p \in Names \cup {"/"} : navigate(p)
    \/ \E s \in Services :
        \/ handleStart(s) \/ handleStop(s) \/ handleRestart(s) \/ handleDelete(s)
        \/ \E n \in Names : handleFormSubmit(s, n)
    \/ \E kind \in {"create", "clone"}, s \in Services \cup {None} : openModal(kind, s)
    \/ \E n \in Names : SubmitCreate(n) \/ SubmitClone(n) \/ SubmitImport(n)
    \/ handleConfirm \/ handleCancel \/ closeModal

Next ==
    \/ \E s \in Services : Obey(s)
    \/ Launcher \/ Completion \/ Polling \/ User

\* The answer to one request is handled; answers do not wait for each other.
Completed(m) == Completion /\ net'[m] # net[m]

\* The browser polls, answers are handled, the launcher answers and obeys.
Fairness ==
    /\ WF_vars(Polling) /\ WF_vars(Launcher) /\ WF_vars(\E s \in Services : Obey(s))
    /\ \A m \in Requests : WF_vars(Completed(m))

Spec == Init /\ [][Next]_vars /\ Fairness

-----------------------------------------------------------------------------
(***************************************************************************)
(* Properties                                                              *)
(***************************************************************************)
\* What a page shows of s is what there is of it, or the page is not open.
ListCorrected(s) == ui.page # "/" \/ cache.list[s] = Reported(s)

\* The page of a name that no service has is left when the answer arrives that the
\* service was deleted or renamed.  It is not after a lost answer, after a copy is
\* taken back, or when the answer to the rename comes after that to the deletion:
\* what the page has read stays on display.
Stranded ==
    /\ ui.page # "/" /\ Free(ui.page)
    /\ past.lost \/ past.undone \/ past.overtaken

Displayed(s) == OnDetail(s, Statuses \cup {"pending"})
PageCorrected(s) ==
    Displayed(s) => Reported(s) = Absent \/ OnDetail(s, {Reported(s)}) \/ Stranded

\* The page that is open is that of a service there is.
LivePage == ui.page = "/" \/ ~Free(ui.page) \/ Stranded

===============================================================================
