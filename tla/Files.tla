--------------------------------- MODULE Files ---------------------------------
(***************************************************************************)
(* The two views of a service's files, one of them open: the page of all   *)
(* services, or the section of one.  What only the other view has stays as *)
(* it is.                                                                  *)
(***************************************************************************)
EXTENDS Naturals

CONSTANTS
    Services, Files, NoFile, ServiceOf, Kind, Above, Packed,    \* FileServer
    Existing, Start, MaxEdits,                                  \* both views
    Opened, PageClicks,                                         \* FilesPage
    service_id, SectionClicks                                   \* FileManagerSection

VARIABLES
    view, status, orders, disk, call, modal, named, shown, listed, listing, cached, reading,
    broken, expandedServices, expandedPaths, selectedFile, selectedPath, follow,
    editorContent, originalContent, imagePreviewUrl, imageCalls, selectedFilePaths,
    isDownloading, dialog, confirmed, failures, clicks

Page == INSTANCE FilesPage WITH MaxClicks <- PageClicks
Section == INSTANCE FileManagerSection WITH MaxClicks <- SectionClicks

\* A text is in the editor at first, if any.
ASSUME FilesAssumption ==
    /\ Page!PathsAssumption
    /\ MaxEdits \in Nat /\ service_id \in Services
    /\ Existing \subseteq Files
    /\ Start \subseteq {f \in Existing : Kind[f] = "text"}

onlyPage == <<selectedFile, expandedServices>>
onlySection == <<selectedPath, follow, failures>>
vars == <<view, Page!vars, onlySection>>

Init ==
    \/ /\ view = "page" /\ Page!Init
       /\ selectedPath = NoFile /\ follow = NoFile /\ failures = FALSE
    \/ /\ view = "section" /\ Section!Init
       /\ \A s \in Services \ {service_id} : status[s] = "stopped"
       /\ selectedFile = Page!NoSelection /\ expandedServices = {}

Next ==
    /\ UNCHANGED view
    /\ \/ view = "page" /\ Page!Next /\ UNCHANGED onlySection
       \/ view = "section" /\ Section!Next /\ UNCHANGED onlyPage

Spec == Init /\ [][Next]_vars

\* Type correctness of both views.
TypeOK == IF view = "page" THEN Page!TypeOK ELSE Section!TypeOK

\* In both views, only files whose deletion was confirmed disappear
\* (handleDelete, handleBulkDelete).
OnlyConfirmedDisappear ==
    [][~\E f \in Files : \/ view = "page" /\ Page!Unconfirmed(f)
                         \/ view = "section" /\ Section!Unconfirmed(f)]_vars

\* On the page the editor shows the text of the selected file (fileContentQuery).
TextBelongsToFile == view = "page" => Page!TextBelongsToFile

\* In the section a list that nothing is about to change is true (filesQuery).
QuietListIsTrue == view = "section" => Section!QuietListIsTrue
===============================================================================
