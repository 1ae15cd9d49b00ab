-------------------------- MODULE FileManagerSection --------------------------
(***************************************************************************)
(* The files of one service, on its detail page.  It is a sibling of       *)
(* FilesPage and not a copy: one list, which every success fetches again,  *)
(* a selection that follows the list after a rename or a new file, a       *)
(* status polled under another key, and every button that writes closed    *)
(* unless the service is shown as stopped.                                 *)
(***************************************************************************)
EXTENDS FileModals

CONSTANTS
    service_id,
    Existing,           \* the files there at first
    Start,              \* files one of which may be in the editor at first
    MaxEdits,           \* bound: edits of one text
    MaxClicks           \* bound: what the user does, typing and answering dialogs aside

VARIABLES
    shown,              \* the status of the service prop
    listed, listing,    \* the data of filesQuery, and whether it is fetching
    follow,             \* the file to select when the list has come, or NoFile
    cached, reading, broken,
    expandedPaths,
    selectedPath,
    editorContent,
    originalContent,
    imagePreviewUrl,
    imageCalls,
    selectedFilePaths,
    isDownloading,
    dialog,
    confirmed,          \* history: files whose deletion has been confirmed
    failures,           \* history: a request has failed
    clicks

texts == <<cached, reading, broken>>
list == <<listed, listing, follow>>
tree == <<expandedPaths, selectedFilePaths>>
editor == <<selectedPath, editorContent, originalContent, imagePreviewUrl, imageCalls>>
asked == <<dialog, confirmed, failures>>
modals == <<modal, named>>
vars == <<server, call, modals, shown, list, texts, tree, editor, isDownloading, asked, clicks>>

NoDialog == [kind |-> "none", files |-> {}]

IsSelected == selectedPath # NoFile
isStopped == shown = "stopped"
hasChanges == editorContent # originalContent

TypeOK ==
    /\ status[service_id] \in {"stopped", "running"}
    /\ shown \in {"stopped", "running", "pending"}
    /\ listed \subseteq Files /\ listing \in BOOLEAN
    /\ selectedPath \in Files \cup {NoFile} /\ follow \in Files \cup {NoFile}
    /\ selectedFilePaths \subseteq Files
    /\ editorContent.edits \in 0..MaxEdits

Init ==
    /\ status \in [Services -> {"stopped", "running"}]
    /\ orders = [s \in Services |-> <<>>]
    /\ disk = [f \in Files |-> IF f \in Existing THEN Fresh(f) ELSE Absent]
    /\ call = [m \in Mutations |-> Idle]
    /\ modal = NoModal /\ named = NoFile
    /\ shown = status[service_id]
    /\ listed = Present(service_id) /\ listing = FALSE /\ follow = NoFile
    /\ reading = [f \in Files |-> Idle] /\ broken = {}
    /\ expandedPaths = {} /\ selectedFilePaths = {}
    /\ selectedPath \in Start \cup {NoFile}
    /\ editorContent = IF IsSelected THEN disk[selectedPath] ELSE Blank
    /\ cached = [f \in Files |-> IF f = selectedPath THEN disk[f] ELSE Absent]
    /\ originalContent = editorContent
    /\ imagePreviewUrl = NoFile /\ imageCalls = {}
    /\ isDownloading = FALSE
    /\ dialog = NoDialog /\ confirmed = {} /\ failures = FALSE
    /\ clicks = 0

Click ==
    /\ dialog = NoDialog /\ modal = NoModal
    /\ clicks < MaxClicks /\ clicks' = clicks + 1

-----------------------------------------------------------------------------
(***************************************************************************)
(* Selection and the effects that follow it                                *)
(***************************************************************************)
setSelectedPath(f) ==
    /\ selectedPath' = f
    /\ IF f = selectedPath
       THEN UNCHANGED <<editorContent, originalContent, imagePreviewUrl, imageCalls, reading>>
       ELSE /\ IF f # NoFile /\ IsImageFile(f)
               THEN imageCalls' = imageCalls \cup {f} /\ UNCHANGED imagePreviewUrl
               ELSE imagePreviewUrl' = NoFile /\ UNCHANGED imageCalls
            /\ IF f = NoFile \/ Kind[f] # "text"
               THEN /\ editorContent' = Blank /\ originalContent' = Blank
                    /\ UNCHANGED reading
               ELSE /\ reading' = IF reading[f] = Idle
                                  THEN [reading EXCEPT ![f] = [at |-> "sent"]] ELSE reading
                    /\ editorContent' = IF cached[f] = Absent THEN editorContent ELSE cached[f]
                    /\ originalContent' = IF cached[f] = Absent THEN originalContent
                                          ELSE cached[f]

togglePath(f) ==
    expandedPaths' = IF f \in expandedPaths
                     THEN {g \in expandedPaths \ {f} : f \notin Above[g]}
                     ELSE expandedPaths \cup {f}

isPathVisible(f) == Above[f] \subseteq expandedPaths

visibleFiles == {f \in listed : isPathVisible(f)}

SelectFile(f) ==
    /\ Click
    /\ f \in visibleFiles
    /\ setSelectedPath(f)
    /\ IF IsDir(f) THEN togglePath(f) ELSE UNCHANGED expandedPaths
    /\ UNCHANGED <<server, call, modals, shown, list, cached, broken, selectedFilePaths,
                   isDownloading, asked>>

CanMark(f) == f \in visibleFiles /\ isStopped

setSelectedFilePaths(f) ==
    /\ Click
    /\ CanMark(f)
    /\ selectedFilePaths' = IF f \in selectedFilePaths THEN selectedFilePaths \ {f}
                            ELSE selectedFilePaths \cup {f}
    /\ UNCHANGED <<server, call, modals, shown, list, texts, expandedPaths, editor,
                   isDownloading, asked>>

-----------------------------------------------------------------------------
(***************************************************************************)
(* Queries                                                                 *)
(***************************************************************************)
\* The page above polls the service.
serviceQuery ==
    /\ shown' = Reported(service_id)
    /\ shown' # shown
    /\ UNCHANGED <<server, call, modals, list, texts, tree, editor, isDownloading, asked,
                   clicks>>

\* The list arrives, and what waits for it.
filesQuery ==
    /\ listing
    /\ listed' = Present(service_id)
    /\ listing' = FALSE /\ follow' = NoFile
    /\ IF follow = NoFile THEN UNCHANGED <<editor, reading>> ELSE setSelectedPath(follow)
    /\ UNCHANGED <<server, call, modals, shown, cached, broken, tree, isDownloading, asked,
                   clicks>>

ContentRead(f) ==
    /\ reading[f].at = "sent"
    /\ reading' = [reading EXCEPT ![f] = [at |-> "read", text |-> disk[f]]]
    /\ UNCHANGED <<server, call, modals, shown, list, cached, broken, tree, editor,
                   isDownloading, asked, clicks>>

fileContentQuery(f) ==
    /\ reading[f].at = "read"
    /\ reading' = [reading EXCEPT ![f] = Idle]
    /\ IF reading[f].text = Absent
       THEN /\ broken' = broken \cup {f}
            /\ UNCHANGED <<cached, editorContent, originalContent>>
       ELSE /\ broken' = broken \ {f}
            /\ cached' = [cached EXCEPT ![f] = reading[f].text]
            /\ IF f = selectedPath /\ cached'[f] # cached[f]
               THEN editorContent' = cached'[f] /\ originalContent' = cached'[f]
               ELSE UNCHANGED <<editorContent, originalContent>>
    /\ UNCHANGED <<server, call, modals, shown, list, tree, selectedPath, imagePreviewUrl,
                   imageCalls, isDownloading, asked, clicks>>

ImageAnswer(f) ==
    /\ f \in imageCalls
    /\ imageCalls' = imageCalls \ {f}
    /\ imagePreviewUrl' = IF disk[f] = Absent THEN NoFile ELSE f
    /\ UNCHANGED <<server, call, modals, shown, list, texts, tree, selectedPath,
                   editorContent, originalContent, isDownloading, asked, clicks>>

-----------------------------------------------------------------------------
(***************************************************************************)
(* The editor and its toolbar                                              *)
(***************************************************************************)
EditorShown ==
    /\ IsSelected /\ Kind[selectedPath] = "text"
    /\ imagePreviewUrl = NoFile
    /\ cached[selectedPath] # Absent /\ selectedPath \notin broken

setEditorContent ==
    /\ dialog = NoDialog /\ modal = NoModal
    /\ EditorShown /\ isStopped
    /\ editorContent.edits < MaxEdits
    /\ editorContent' = [editorContent EXCEPT !.edits = @ + 1]
    /\ UNCHANGED <<server, call, modals, shown, list, texts, tree, selectedPath,
                   originalContent, imagePreviewUrl, imageCalls, isDownloading, asked, clicks>>

Send(m, c) == call' = [call EXCEPT ![m] = c]

\* The buttons, and when each is there and not disabled.  Marked files take the
\* place of the selected one.
CanSave ==
    /\ IsSelected /\ Kind[selectedPath] = "text"
    /\ isStopped /\ hasChanges /\ ~Pending("save")

CanExtract ==
    /\ IsSelected /\ Kind[selectedPath] = "zip"
    /\ isStopped /\ ~Pending("unzip") /\ ~isDownloading

CanRename == IsSelected /\ isStopped /\ ~isDownloading

CanDelete ==
    /\ IsSelected /\ selectedFilePaths = {}
    /\ isStopped /\ ~Pending("delete") /\ ~isDownloading

CanBulkDelete ==
    /\ selectedFilePaths # {}
    /\ isStopped /\ ~Pending("bulk") /\ ~isDownloading

CanBulkDownload == selectedFilePaths # {} /\ ~isDownloading

CanCreate == isStopped

handleSave ==
    /\ Click
    /\ CanSave
    /\ Send("save", [at |-> "sent", file |-> selectedPath, text |-> editorContent])
    /\ UNCHANGED <<server, modals, shown, list, texts, tree, editor, isDownloading, asked>>

handleExtractZip ==
    /\ Click
    /\ CanExtract
    /\ Send("unzip", [at |-> "sent", file |-> selectedPath])
    /\ UNCHANGED <<server, modals, shown, list, texts, tree, editor, isDownloading, asked>>

\* Start and restart look at the status; of the two buttons that stop the
\* service, the one in the warning (CanStop) does not look whether a command is
\* pending already.
CanStop == IsSelected /\ ~isStopped /\ ~Pending("command")

CanCommand(action) ==
    \/ action = "stop" /\ CanStop
    \/ /\ IsSelected /\ ~Pending("command")
       /\ \/ action = "start" /\ isStopped
          \/ action = "restart" /\ shown = "running"

handleCommand(action) ==
    /\ Click
    /\ CanCommand(action)
    /\ Send("command", [at |-> "sent", service |-> service_id, action |-> action])
    /\ UNCHANGED <<server, modals, shown, list, texts, tree, editor, isDownloading, asked>>

handleDelete ==
    /\ Click
    /\ CanDelete
    /\ dialog' = [kind |-> "delete", files |-> {selectedPath}]
    /\ UNCHANGED <<server, call, modals, shown, list, texts, tree, editor, isDownloading,
                   confirmed, failures>>

handleBulkDelete ==
    /\ Click
    /\ CanBulkDelete
    /\ dialog' = [kind |-> "bulk", files |-> selectedFilePaths]
    /\ UNCHANGED <<server, call, modals, shown, list, texts, tree, editor, isDownloading,
                   confirmed, failures>>

\* Confirm sends what the handler had in hand, Cancel nothing.
AnswerDialog(yes) ==
    /\ dialog # NoDialog
    /\ dialog' = NoDialog
    /\ IF yes
       THEN /\ Send(dialog.kind,
                    IF dialog.kind = "delete"
                    THEN [at |-> "sent", file |-> CHOOSE f \in dialog.files : TRUE]
                    ELSE [at |-> "sent", left |-> dialog.files])
            /\ confirmed' = confirmed \cup dialog.files
       ELSE UNCHANGED <<call, confirmed>>
    /\ UNCHANGED <<server, modals, shown, list, texts, tree, editor, isDownloading, failures,
                   clicks>>

\* Only files in the list are downloaded.
handleBulkDownload ==
    /\ Click
    /\ CanBulkDownload
    /\ isDownloading' = (\E f \in selectedFilePaths \cap listed : ~IsDir(f))
    /\ UNCHANGED <<server, call, modals, shown, list, texts, tree, editor, asked>>

DownloadEnds ==
    /\ isDownloading
    /\ isDownloading' = FALSE
    /\ UNCHANGED <<server, call, modals, shown, list, texts, tree, editor, asked, clicks>>

\* Recargar.
Refresh ==
    /\ Click
    /\ IsSelected
    /\ listing' = TRUE
    /\ UNCHANGED <<server, call, modals, shown, listed, follow, texts, tree, editor,
                   isDownloading, asked>>

-----------------------------------------------------------------------------
(***************************************************************************)
(* Dialogs: each is told the status shown when it is opened.               *)
(***************************************************************************)
openRenameModal ==
    /\ Click
    /\ CanRename /\ ~IsDir(selectedPath) /\ ~Pending("rename")
    /\ openModal("rename", service_id, selectedPath, TRUE)
    /\ UNCHANGED <<server, call, named, shown, list, texts, tree, editor, isDownloading,
                   asked>>

openCreateModal(kind) ==
    /\ Click
    /\ CanCreate /\ ~Pending(kind)
    /\ openModal(kind, service_id, NoFile, TRUE)
    /\ UNCHANGED <<server, call, named, shown, list, texts, tree, editor, isDownloading,
                   asked>>

ModalStep ==
    /\ \/ (Cancel /\ UNCHANGED <<call, named>>)
       \/ \E f \in Files :
            /\ UNCHANGED modal
            /\ \/ (TypeName(f) /\ UNCHANGED call)
               \/ SubmitRename(f)
               \/ SubmitNewFile(f)
               \/ SubmitNewFolder(f)
               \/ SubmitUpload(f)
    /\ UNCHANGED <<server, shown, list, texts, tree, editor, isDownloading, asked, clicks>>

-----------------------------------------------------------------------------
(***************************************************************************)
(* What the mutations do when they succeed, with the state of that moment. *)
(***************************************************************************)
Succeeds(m) == call[m].at = "ok" /\ call' = [call EXCEPT ![m] = Idle]

refetch == listing' = TRUE /\ UNCHANGED listed

saveSucceeds ==
    /\ Succeeds("save")
    /\ originalContent' = editorContent
    /\ refetch /\ UNCHANGED follow
    /\ UNCHANGED <<server, modals, shown, texts, tree, selectedPath, editorContent,
                   imagePreviewUrl, imageCalls, isDownloading, asked, clicks>>

deleteSucceeds ==
    /\ Succeeds("delete")
    /\ setSelectedPath(NoFile)
    /\ refetch /\ UNCHANGED follow
    /\ UNCHANGED <<server, modals, shown, cached, broken, tree, isDownloading, asked, clicks>>

bulkDeleteSucceeds ==
    /\ Succeeds("bulk")
    /\ selectedFilePaths' = {}
    /\ setSelectedPath(NoFile)
    /\ refetch /\ UNCHANGED follow
    /\ UNCHANGED <<server, modals, shown, cached, broken, expandedPaths, isDownloading,
                   asked, clicks>>

\* Mutant of unzipSucceeds: only the toast.
unzipSucceedsSilently ==
    /\ Succeeds("unzip")
    /\ UNCHANGED <<server, modals, shown, list, texts, tree, editor, isDownloading, asked,
                   clicks>>

unzipSucceeds ==
    /\ Succeeds("unzip")
    /\ refetch /\ UNCHANGED follow
    /\ UNCHANGED <<server, modals, shown, texts, tree, editor, isDownloading, asked, clicks>>

\* The key it invalidates is not the key of the page's query: nothing happens.
commandSucceeds ==
    /\ Succeeds("command")
    /\ UNCHANGED <<server, modals, shown, list, texts, tree, editor, isDownloading, asked,
                   clicks>>

\* onRenamed and onCreated select the file when the list has been fetched.
renameSucceeds ==
    /\ Succeeds("rename")
    /\ refetch /\ follow' = named
    /\ closeModal /\ UNCHANGED named
    /\ UNCHANGED <<server, shown, texts, tree, editor, isDownloading, asked, clicks>>

createSucceeds(m) ==
    /\ m \in {"create", "folder", "upload"}
    /\ Succeeds(m)
    /\ refetch
    /\ follow' = IF m = "create" THEN call[m].file ELSE follow
    /\ closeModal /\ UNCHANGED named
    /\ UNCHANGED <<server, shown, texts, tree, editor, isDownloading, asked, clicks>>

MutationFails(m) ==
    /\ call[m].at = "error"
    /\ call' = [call EXCEPT ![m] = Idle]
    /\ failures' = TRUE
    /\ UNCHANGED <<server, modals, shown, list, texts, tree, editor, isDownloading, dialog,
                   confirmed, clicks>>

Completion ==
    \/ saveSucceeds \/ deleteSucceeds \/ bulkDeleteSucceeds \/ unzipSucceeds
    \/ commandSucceeds \/ renameSucceeds
    \/ \E m \in Mutations : createSucceeds(m) \/ MutationFails(m)

Network ==
    /\ ServerNext
    /\ UNCHANGED <<modals, shown, list, texts, tree, editor, isDownloading, asked, clicks>>

Next ==
    \/ serviceQuery \/ filesQuery
    \/ \E kind \in {"create", "folder", "upload"} : openCreateModal(kind)
    \/ \E action \in {"start", "stop", "restart"} : handleCommand(action)
    \/ \E f \in Files :
        \/ ContentRead(f) \/ fileContentQuery(f) \/ ImageAnswer(f)
        \/ SelectFile(f) \/ setSelectedFilePaths(f)
    \/ setEditorContent \/ handleSave \/ handleExtractZip
    \/ handleDelete \/ handleBulkDelete \/ \E yes \in BOOLEAN : AnswerDialog(yes)
    \/ handleBulkDownload \/ DownloadEnds \/ Refresh
    \/ openRenameModal \/ ModalStep
    \/ Completion \/ Network

Spec == Init /\ [][Next]_vars

-----------------------------------------------------------------------------
(***************************************************************************)
(* Properties                                                              *)
(***************************************************************************)
\* Nothing is left in a directory.
Emptied(f) == IsDir(f) /\ \A g \in Files : f \in Above[g] => disk'[g] = Absent

\* A file goes, and no confirmed deletion or rename is the cause.
Unconfirmed(f) ==
    /\ disk[f] # Absent /\ disk'[f] = Absent
    /\ ({f} \cup Above[f]) \cap confirmed = {}
    /\ call["rename"] # Idle => call["rename"].file # f
    /\ ~Emptied(f)

\* A file goes only if the user has confirmed that it, or a directory it lies in,
\* is to be deleted, whatever is selected when the question is answered; or if it
\* is renamed; a directory also when nothing is left in it.
OnlyConfirmedDisappear == [][~\E f \in Files : Unconfirmed(f)]_vars

\* Nothing under way and nothing failed: the list shows the files there are,
\* whatever else the user has done since the request was sent.
QuietListIsTrue ==
    (\A m \in Mutations : ~Pending(m)) /\ ~listing /\ ~failures
        => listed = Present(service_id)
===============================================================================
