------------------------------- MODULE FilesPage -------------------------------
(***************************************************************************)
(* The page with the files of all services: trees, one editor, selection   *)
(* of several files, and the orders to start and stop a service.           *)
(*                                                                         *)
(* A handler is one action.  React runs the effects of a render before the *)
(* next event, so they are part of the action that set the state.  Queries *)
(* and mutations take two steps or more, and anything may happen between   *)
(* them; a mutation's onSuccess sees the state of the moment it runs in.   *)
(* The dialogs cover the page: the user acts on the top one only.  What    *)
(* only changes the screen (search, a download of one file) is left out,   *)
(* and so are renames of directories.                                      *)
(***************************************************************************)
EXTENDS FileModals

CONSTANTS
    Existing,           \* the files there at first
    Opened,             \* the services whose trees are open at first
    Start,              \* files one of which may be in the editor at first
    MaxEdits,           \* bound: edits of one text
    MaxClicks           \* bound: what the user does, typing and answering dialogs aside

VARIABLES
    shown,              \* the cached status of the services, polled
    listed,             \* listed[s]: the cached list of files
    listing,            \* the services whose list is being fetched
    cached,             \* cached[f]: the cached text of a file, or Absent
    reading,            \* reading[f]: the request for its text
    broken,             \* the files that could not be opened
    expandedServices,
    expandedPaths,
    selectedFile,       \* [file, seen]: seen is the status when it was selected
    editorContent,
    originalContent,
    imagePreviewUrl,    \* the image on display, or NoFile
    imageCalls,         \* the images being downloaded
    selectedFilePaths,
    isDownloading,
    dialog,             \* the question being asked and the files it names
    confirmed,          \* history: files whose deletion has been confirmed
    clicks

queries == <<shown, listed, listing>>
texts == <<cached, reading, broken>>
tree == <<expandedServices, expandedPaths, selectedFilePaths>>
editor == <<selectedFile, editorContent, originalContent, imagePreviewUrl, imageCalls>>
asked == <<dialog, confirmed>>
modals == <<modal, named>>
vars == <<server, call, modals, queries, texts, tree, editor, isDownloading, asked, clicks>>

NoSelection == [file |-> NoFile, seen |-> "none"]
NoDialog == [kind |-> "none", files |-> {}]

Selected == selectedFile.file
IsSelected == Selected # NoFile
isStopped == IsSelected /\ shown[ServiceOf[Selected]] = "stopped"
isDirSelected == IsSelected /\ IsDir(Selected)
hasChanges == editorContent # originalContent

TypeOK ==
    /\ status \in [Services -> {"stopped", "running"}]
    /\ shown \in [Services -> {"stopped", "running", "pending"}]
    /\ \A s \in Services : listed[s] \subseteq {f \in Files : ServiceOf[f] = s}
    /\ broken \subseteq Files /\ imageCalls \subseteq {f \in Files : IsImageFile(f)}
    /\ Selected \in Files \cup {NoFile}
    /\ selectedFilePaths \subseteq Files
    /\ editorContent.edits \in 0..MaxEdits
    /\ dialog.files \subseteq Files

Init ==
    /\ status \in [Services -> {"stopped", "running"}]
    /\ orders = [s \in Services |-> <<>>]
    /\ disk = [f \in Files |-> IF f \in Existing THEN Fresh(f) ELSE Absent]
    /\ call = [m \in Mutations |-> Idle]
    /\ modal = NoModal /\ named = NoFile
    /\ shown = status
    /\ expandedServices = Opened /\ expandedPaths = {} /\ selectedFilePaths = {}
    /\ listed = [s \in Services |-> IF s \in expandedServices THEN Present(s) ELSE {}]
    /\ listing = {}
    /\ reading = [f \in Files |-> Idle] /\ broken = {}
    /\ \E f \in Start \cup {NoFile} :
        /\ selectedFile = IF f = NoFile THEN NoSelection
                          ELSE [file |-> f, seen |-> status[ServiceOf[f]]]
        /\ editorContent = IF f = NoFile THEN Blank ELSE disk[f]
        /\ cached = [g \in Files |-> IF g = f THEN disk[f] ELSE Absent]
    /\ originalContent = editorContent
    /\ imagePreviewUrl = NoFile /\ imageCalls = {}
    /\ isDownloading = FALSE
    /\ dialog = NoDialog /\ confirmed = {}
    /\ clicks = 0

\* The page itself is within reach.
Free == dialog = NoDialog /\ modal = NoModal

Click == Free /\ clicks < MaxClicks /\ clicks' = clicks + 1

-----------------------------------------------------------------------------
(***************************************************************************)
(* Queries                                                                 *)
(***************************************************************************)
\* The services are fetched every 3 s.
servicesQuery ==
    /\ shown' = [s \in Services |-> Reported(s)]
    /\ shown' # shown
    /\ UNCHANGED <<server, call, modals, listed, listing, texts, tree, editor,
                   isDownloading, asked, clicks>>

filesQuery(s) ==
    /\ s \in listing
    /\ listed' = [listed EXCEPT ![s] = Present(s)]
    /\ listing' = listing \ {s}
    /\ UNCHANGED <<server, call, modals, shown, texts, tree, editor, isDownloading,
                   asked, clicks>>

\* The server reads a text.
ContentRead(f) ==
    /\ reading[f].at = "sent"
    /\ reading' = [reading EXCEPT ![f] = [at |-> "read", text |-> disk[f]]]
    /\ UNCHANGED <<server, call, modals, queries, cached, broken, tree, editor,
                   isDownloading, asked, clicks>>

\* Mutant of fileContentQuery: the answer sets the editor, whatever is selected.
fileContentQueryAnyFile(f) ==
    /\ reading[f].at = "read" /\ reading[f].text # Absent
    /\ reading' = [reading EXCEPT ![f] = Idle]
    /\ broken' = broken \ {f}
    /\ cached' = [cached EXCEPT ![f] = reading[f].text]
    /\ editorContent' = cached'[f] /\ originalContent' = cached'[f]
    /\ UNCHANGED <<server, call, modals, queries, tree, selectedFile, imagePreviewUrl,
                   imageCalls, isDownloading, asked, clicks>>

\* The answer arrives.  Data that differs from the data before it sets the
\* editor, if the file is the selected one.
fileContentQuery(f) ==
    /\ reading[f].at = "read"
    /\ reading' = [reading EXCEPT ![f] = Idle]
    /\ IF reading[f].text = Absent
       THEN /\ broken' = broken \cup {f}
            /\ UNCHANGED <<cached, editorContent, originalContent>>
       ELSE /\ broken' = broken \ {f}
            /\ cached' = [cached EXCEPT ![f] = reading[f].text]
            /\ IF f = Selected /\ cached'[f] # cached[f]
               THEN editorContent' = cached'[f] /\ originalContent' = cached'[f]
               ELSE UNCHANGED <<editorContent, originalContent>>
    /\ UNCHANGED <<server, call, modals, queries, tree, selectedFile, imagePreviewUrl,
                   imageCalls, isDownloading, asked, clicks>>

\* A download sets the preview, whatever has been selected since.
ImageAnswer(f) ==
    /\ f \in imageCalls
    /\ imageCalls' = imageCalls \ {f}
    /\ imagePreviewUrl' = IF disk[f] = Absent THEN NoFile ELSE f
    /\ UNCHANGED <<server, call, modals, queries, texts, tree, selectedFile,
                   editorContent, originalContent, isDownloading, asked, clicks>>

-----------------------------------------------------------------------------
(***************************************************************************)
(* Selection.  Select(sel) is the new state and the effects that follow:   *)
(* the editor is emptied for what has no text, set from the cache for a    *)
(* file read before, and left as it is until the text of another arrives.  *)
(***************************************************************************)
Reading(f) ==
    IF reading[f] = Idle THEN [reading EXCEPT ![f] = [at |-> "sent"]] ELSE reading

\* Mutant of Preview: every file is downloaded to be shown as an image.
PreviewOfAnything(f) ==
    IF f # NoFile
    THEN imageCalls' = imageCalls \cup {f} /\ UNCHANGED imagePreviewUrl
    ELSE imagePreviewUrl' = NoFile /\ UNCHANGED imageCalls

Preview(f) ==
    IF f # NoFile /\ IsImageFile(f)
    THEN imageCalls' = imageCalls \cup {f} /\ UNCHANGED imagePreviewUrl
    ELSE imagePreviewUrl' = NoFile /\ UNCHANGED imageCalls

setSelectedFile(sel) ==
    /\ selectedFile' = sel
    /\ Preview(sel.file)
    /\ IF sel.file = NoFile \/ Kind[sel.file] # "text"
       THEN editorContent' = Blank /\ originalContent' = Blank /\ UNCHANGED reading
       ELSE IF sel.file = Selected
       THEN UNCHANGED <<editorContent, originalContent, reading>>
       ELSE /\ reading' = Reading(sel.file)
            /\ IF cached[sel.file] = Absent
               THEN UNCHANGED <<editorContent, originalContent>>
               ELSE editorContent' = cached[sel.file] /\ originalContent' = cached[sel.file]

KeepSelection == UNCHANGED <<editor, reading>>

toggleServiceExpand(s) ==
    /\ Click
    /\ IF s \in expandedServices
       THEN expandedServices' = expandedServices \ {s} /\ UNCHANGED listing
       ELSE expandedServices' = expandedServices \cup {s} /\ listing' = listing \cup {s}
    /\ UNCHANGED <<server, call, modals, shown, listed, texts, expandedPaths,
                   selectedFilePaths, editor, isDownloading, asked>>

\* A directory is closed with all that is open inside.
togglePath(f) ==
    expandedPaths' = IF f \in expandedPaths
                     THEN {g \in expandedPaths \ {f} : f \notin Above[g]}
                     ELSE expandedPaths \cup {f}

isPathVisible(f) == Above[f] \subseteq expandedPaths

showFiles(s) == s \in expandedServices

visibleFiles ==
    {f \in Files : /\ showFiles(ServiceOf[f])
                   /\ f \in listed[ServiceOf[f]]
                   /\ isPathVisible(f)}

onSelectFile(f) ==
    /\ Click
    /\ f \in visibleFiles
    /\ setSelectedFile([file |-> f, seen |-> shown[ServiceOf[f]]])
    /\ IF IsDir(f) THEN togglePath(f) ELSE UNCHANGED expandedPaths
    /\ UNCHANGED <<server, call, modals, queries, cached, broken, expandedServices,
                   selectedFilePaths, isDownloading, asked>>

\* Its checkbox.
CanMark(f) == f \in visibleFiles /\ shown[ServiceOf[f]] = "stopped"

setSelectedFilePaths(f) ==
    /\ Click
    /\ CanMark(f)
    /\ selectedFilePaths' = IF f \in selectedFilePaths THEN selectedFilePaths \ {f}
                            ELSE selectedFilePaths \cup {f}
    /\ UNCHANGED <<server, call, modals, queries, texts, expandedServices, expandedPaths,
                   editor, isDownloading, asked>>

-----------------------------------------------------------------------------
(***************************************************************************)
(* The editor and its toolbar                                              *)
(***************************************************************************)
EditorShown ==
    /\ IsSelected /\ Kind[Selected] = "text"
    /\ imagePreviewUrl = NoFile
    /\ cached[Selected] # Absent /\ Selected \notin broken

setEditorContent ==
    /\ Free /\ EditorShown /\ isStopped
    /\ editorContent.edits < MaxEdits
    /\ editorContent' = [editorContent EXCEPT !.edits = @ + 1]
    /\ UNCHANGED <<server, call, modals, queries, texts, tree, selectedFile,
                   originalContent, imagePreviewUrl, imageCalls, isDownloading, asked, clicks>>

Send(m, c) == call' = [call EXCEPT ![m] = c]

\* The buttons, and when each is there and not disabled.  Marked files take the
\* place of the selected one; deleting them looks at no status.
CanSave ==
    /\ IsSelected /\ Kind[Selected] = "text"
    /\ isStopped /\ hasChanges /\ ~Pending("save")

CanExtract ==
    /\ IsSelected /\ Kind[Selected] = "zip"
    /\ isStopped /\ ~Pending("unzip") /\ ~isDownloading

CanRename == IsSelected /\ isStopped /\ ~isDownloading

CanDelete ==
    /\ IsSelected /\ selectedFilePaths = {}
    /\ isStopped /\ ~Pending("delete") /\ ~isDownloading

CanBulkDelete == selectedFilePaths # {} /\ ~Pending("bulk") /\ ~isDownloading

CanBulkDownload == selectedFilePaths # {} /\ ~isDownloading

CanStartStop ==
    /\ IsSelected /\ ~Pending("command")
    /\ shown[ServiceOf[Selected]] # "pending"

CanCreate(s) == s \in expandedServices /\ shown[s] = "stopped"

\* It looks neither at the query nor at the file the text is from.
handleSave ==
    /\ Click
    /\ CanSave
    /\ Send("save", [at |-> "sent", file |-> Selected, text |-> editorContent])
    /\ UNCHANGED <<server, modals, queries, texts, tree, editor, isDownloading, asked>>

handleExtractZip ==
    /\ Click
    /\ CanExtract
    /\ Send("unzip", [at |-> "sent", file |-> Selected])
    /\ UNCHANGED <<server, modals, queries, texts, tree, editor, isDownloading, asked>>

\* The service of the selection is started or stopped, as it is shown.
handleStartStop ==
    /\ Click
    /\ CanStartStop
    /\ Send("command", [at |-> "sent", service |-> ServiceOf[Selected],
                        action |-> IF isStopped THEN "start" ELSE "stop"])
    /\ UNCHANGED <<server, modals, queries, texts, tree, editor, isDownloading, asked>>

\* The question names the selected file; what is deleted is what it named.
handleDelete ==
    /\ Click
    /\ CanDelete
    /\ dialog' = [kind |-> "delete", files |-> {Selected}]
    /\ UNCHANGED <<server, call, modals, queries, texts, tree, editor, isDownloading,
                   confirmed>>

handleBulkDelete ==
    /\ Click
    /\ CanBulkDelete
    /\ dialog' = [kind |-> "bulk", files |-> selectedFilePaths]
    /\ UNCHANGED <<server, call, modals, queries, texts, tree, editor, isDownloading,
                   confirmed>>

\* Mutant of handleConfirm: what is deleted is what is selected by now.
handleConfirmSelected ==
    /\ dialog # NoDialog
    /\ dialog.kind = "delete" => IsSelected
    /\ Send(dialog.kind,
            IF dialog.kind = "delete" THEN [at |-> "sent", file |-> Selected]
            ELSE [at |-> "sent", left |-> dialog.files])
    /\ confirmed' = confirmed \cup dialog.files
    /\ dialog' = NoDialog
    /\ UNCHANGED <<server, modals, queries, texts, tree, editor, isDownloading, clicks>>

\* The user confirms: the mutation is sent with what the handler had in hand.
handleConfirm ==
    /\ dialog # NoDialog
    /\ Send(dialog.kind,
            IF dialog.kind = "delete"
            THEN [at |-> "sent", file |-> CHOOSE f \in dialog.files : TRUE]
            ELSE [at |-> "sent", left |-> dialog.files])
    /\ confirmed' = confirmed \cup dialog.files
    /\ dialog' = NoDialog
    /\ UNCHANGED <<server, modals, queries, texts, tree, editor, isDownloading, clicks>>

handleCancel ==
    /\ dialog # NoDialog
    /\ dialog' = NoDialog
    /\ UNCHANGED <<server, call, modals, queries, texts, tree, editor, isDownloading,
                   confirmed, clicks>>

\* Directories are not downloaded; with nothing else marked it ends at once.
handleBulkDownload ==
    /\ Click
    /\ CanBulkDownload
    /\ isDownloading' = (\E f \in selectedFilePaths : ~IsDir(f))
    /\ UNCHANGED <<server, call, modals, queries, texts, tree, editor, asked>>

DownloadEnds ==
    /\ isDownloading
    /\ isDownloading' = FALSE
    /\ UNCHANGED <<server, call, modals, queries, texts, tree, editor, asked, clicks>>

\* Recargar, and the button that refreshes everything.
Refresh ==
    /\ Click
    /\ IsSelected
    /\ shown' = [s \in Services |-> Reported(s)]
    /\ listing' = listing \cup {ServiceOf[Selected]}
    /\ UNCHANGED <<server, call, modals, listed, texts, tree, editor, isDownloading, asked>>

-----------------------------------------------------------------------------
(***************************************************************************)
(* Dialogs.  Rename is told the status the service had when the file was   *)
(* selected, the others the status shown now.                              *)
(***************************************************************************)
Unchanged == UNCHANGED <<server, call, named, queries, texts, tree, editor, isDownloading,
                         asked>>

openRenameModal ==
    /\ Click
    /\ CanRename /\ ~IsDir(Selected) /\ ~Pending("rename")
    /\ openModal("rename", ServiceOf[Selected], Selected, selectedFile.seen = "stopped")
    /\ Unchanged

openCreateModal(kind, s) ==
    /\ Click
    /\ CanCreate(s) /\ ~Pending(kind)
    /\ openModal(kind, s, NoFile, TRUE)
    /\ Unchanged

ModalStep ==
    /\ \/ (Cancel /\ UNCHANGED <<call, named>>)
       \/ \E f \in Files :
            /\ UNCHANGED modal
            /\ \/ (TypeName(f) /\ UNCHANGED call)
               \/ SubmitRename(f)
               \/ SubmitNewFile(f)
               \/ SubmitNewFolder(f)
               \/ SubmitUpload(f)
    /\ UNCHANGED <<server, queries, texts, tree, editor, isDownloading, asked, clicks>>

-----------------------------------------------------------------------------
(***************************************************************************)
(* What the mutations do when they succeed, with the state of that moment. *)
(***************************************************************************)
Succeeds(m) == call[m].at = "ok" /\ call' = [call EXCEPT ![m] = Idle]

InvalidateSelected ==
    listing' = IF IsSelected THEN listing \cup {ServiceOf[Selected]} ELSE listing

\* What is in the editor now counts as saved.
saveSucceeds ==
    /\ Succeeds("save")
    /\ originalContent' = editorContent
    /\ InvalidateSelected
    /\ UNCHANGED <<server, modals, shown, listed, texts, tree, selectedFile, editorContent,
                   imagePreviewUrl, imageCalls, isDownloading, asked, clicks>>

deleteSucceeds ==
    /\ Succeeds("delete")
    /\ InvalidateSelected
    /\ setSelectedFile(NoSelection)
    /\ UNCHANGED <<server, modals, shown, listed, cached, broken, tree, isDownloading,
                   asked, clicks>>

\* The services of what is marked now are fetched again.
bulkDeleteSucceeds ==
    /\ Succeeds("bulk")
    /\ listing' = listing \cup {ServiceOf[f] : f \in selectedFilePaths}
    /\ selectedFilePaths' = {}
    /\ setSelectedFile(NoSelection)
    /\ UNCHANGED <<server, modals, shown, listed, cached, broken, expandedServices,
                   expandedPaths, isDownloading, asked, clicks>>

unzipSucceeds ==
    /\ Succeeds("unzip")
    /\ InvalidateSelected
    /\ UNCHANGED <<server, modals, shown, listed, texts, tree, editor, isDownloading,
                   asked, clicks>>

commandSucceeds ==
    /\ Succeeds("command")
    /\ shown' = [s \in Services |-> Reported(s)]
    /\ UNCHANGED <<server, modals, listed, listing, texts, tree, editor, isDownloading,
                   asked, clicks>>

\* onRenamed selects what is in the dialog's field by now.
renameSucceeds ==
    /\ Succeeds("rename")
    /\ listing' = listing \cup {call["rename"].service}
    /\ setSelectedFile([file |-> named, seen |-> "stopped"])
    /\ closeModal /\ UNCHANGED named
    /\ UNCHANGED <<server, shown, listed, cached, broken, tree, isDownloading, asked, clicks>>

\* onCreated and onUploaded; a new file is selected.
createSucceeds(m) ==
    /\ m \in {"create", "folder", "upload"}
    /\ Succeeds(m)
    /\ listing' = listing \cup {call[m].service}
    /\ IF m = "create"
       THEN setSelectedFile([file |-> call[m].file, seen |-> "stopped"])
       ELSE KeepSelection
    /\ closeModal /\ UNCHANGED named
    /\ UNCHANGED <<server, shown, listed, cached, broken, tree, isDownloading, asked, clicks>>

\* An error is only told.
MutationFails(m) ==
    /\ call[m].at = "error"
    /\ call' = [call EXCEPT ![m] = Idle]
    /\ UNCHANGED <<server, modals, queries, texts, tree, editor, isDownloading, asked, clicks>>

Completion ==
    \/ saveSucceeds \/ deleteSucceeds \/ bulkDeleteSucceeds \/ unzipSucceeds
    \/ commandSucceeds \/ renameSucceeds
    \/ \E m \in Mutations : createSucceeds(m) \/ MutationFails(m)

Network ==
    /\ ServerNext
    /\ UNCHANGED <<modals, queries, texts, tree, editor, isDownloading, asked, clicks>>

Next ==
    \/ servicesQuery
    \/ \E s \in Services :
        \/ filesQuery(s) \/ toggleServiceExpand(s)
        \/ \E kind \in {"create", "folder", "upload"} : openCreateModal(kind, s)
    \/ \E f \in Files :
        \/ ContentRead(f) \/ fileContentQuery(f) \/ ImageAnswer(f)
        \/ onSelectFile(f) \/ setSelectedFilePaths(f)
    \/ setEditorContent \/ handleSave \/ handleExtractZip \/ handleStartStop
    \/ handleDelete \/ handleBulkDelete \/ handleConfirm \/ handleCancel
    \/ handleBulkDownload \/ DownloadEnds \/ Refresh
    \/ openRenameModal \/ ModalStep
    \/ Completion \/ Network

Spec == Init /\ [][Next]_vars

-----------------------------------------------------------------------------
(***************************************************************************)
(* Properties                                                              *)
(***************************************************************************)
\* Nothing is left in a directory.
Emptied(f) == IsDir(f) /\ \A g \in Files : f \in Above[g] => disk'[g] = Absent

\* A file goes, and no confirmed deletion or rename is the cause.
Unconfirmed(f) ==
    /\ disk[f] # Absent /\ disk'[f] = Absent
    /\ ({f} \cup Above[f]) \cap confirmed = {}
    /\ call["rename"] # Idle => call["rename"].file # f
    /\ ~Emptied(f)

\* A file goes only if the user has confirmed that it, or a directory it lies in,
\* is to be deleted, whatever is selected when the question is answered; or if it
\* is renamed; a directory also when nothing is left in it.
OnlyConfirmedDisappear == [][~\E f \in Files : Unconfirmed(f)]_vars

\* The text that can be edited is that of the selected file, in whatever order
\* selections are made and the texts of the files arrive.
TextBelongsToFile == EditorShown => editorContent.of = cached[Selected].of
===============================================================================
