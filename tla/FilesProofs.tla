------------------------------ MODULE FilesProofs ------------------------------
(***************************************************************************)
(* Proofs about the two views of a service's files, for any services, any  *)
(* files in any directories, and any edits and clicks.                     *)
(***************************************************************************)
EXTENDS Files, TLAPS

-----------------------------------------------------------------------------
(***************************************************************************)
(* What the two views share: the files, the requests under way, and the    *)
(* dialogs.                                                                *)
(***************************************************************************)
Text == [of : Files \cup {NoFile}, edits : 0..MaxEdits]
TextOrNone == Text \cup {Page!Absent}
Sent == {"sent", "ok", "error"}

DiskInv ==
    /\ status \in [Services -> {"stopped", "running"}]
    /\ disk \in [Files -> TextOrNone]

(* What each request holds.                                                 *)
CallsInv ==
    /\ call = [m \in Page!Mutations |-> call[m]]
    /\ call["save"] \in {Page!Idle} \cup [at : Sent, file : Files, text : Text]
    /\ call["create"] \in {Page!Idle} \cup
            [at : Sent, file : Files, text : Text, service : Services]
    /\ call["delete"] \in {Page!Idle} \cup [at : Sent, file : Files]
    /\ call["rename"] \in {Page!Idle} \cup
            [at : Sent, file : Files, to : Files, service : Services]
    /\ call["unzip"] \in {Page!Idle} \cup [at : Sent, file : Files]
    /\ \A m \in {"folder", "upload"} :
        call[m] \in {Page!Idle} \cup [at : Sent, file : Files, service : Services]
    /\ call["bulk"] \in {Page!Idle} \cup [at : Sent, left : SUBSET Files]
    /\ call["command"] \in {Page!Idle} \cup
            [at : Sent, service : Services, action : {"start", "stop", "restart"}]

(* What is being deleted has been confirmed.                                *)
ConfirmedInv ==
    /\ call["delete"] # Page!Idle => call["delete"].file \in confirmed
    /\ call["bulk"] # Page!Idle => call["bulk"].left \subseteq confirmed

ServerInv == DiskInv /\ CallsInv /\ ConfirmedInv

(* What is asked, and what it is about.                                     *)
DialogsInv ==
    /\ modal.kind = "rename" => modal.file \in Files
    /\ named \in Files \cup {NoFile}
    /\ selectedFilePaths \subseteq Files
    /\ \/ dialog = Page!NoDialog
       \/ dialog \in [kind : {"delete", "bulk"}, files : (SUBSET Files) \ {{}}]

(* The texts that have been fetched, and the editor.                        *)
EditorInv ==
    /\ cached \in [Files -> TextOrNone]
    /\ reading = [f \in Files |-> reading[f]]
    /\ \A f \in Files : reading[f].at = "read" => reading[f].text \in TextOrNone
    /\ broken \subseteq Files
    /\ imageCalls \subseteq {f \in Files : Kind[f] = "image"}
    /\ editorContent \in Text /\ originalContent \in Text

(* The page, and the text in its editor.                                    *)
PageQueriesInv ==
    /\ shown \in [Services -> {"stopped", "running", "pending"}]
    /\ listed \in [Services -> SUBSET Files]
    /\ \A s \in Services : \A f \in listed[s] : ServiceOf[f] = s

SelectionInv ==
    /\ selectedFile = [file |-> selectedFile.file, seen |-> selectedFile.seen]
    /\ selectedFile.file \in Files \cup {NoFile}
    /\ /\ selectedFile.file \in Files
       /\ Kind[selectedFile.file] = "text"
       /\ cached[selectedFile.file] # Page!Absent
       => editorContent.of = cached[selectedFile.file].of

PageInv == ServerInv /\ DialogsInv /\ EditorInv /\ PageQueriesInv /\ SelectionInv

(* The section, and its list.                                               *)
ListInv ==
    /\ shown \in {"stopped", "running", "pending"}
    /\ listed \subseteq Files /\ listing \in BOOLEAN
    /\ selectedPath \in Files \cup {NoFile} /\ follow \in Files \cup {NoFile}

QuietInv ==
    (\A m \in Page!Mutations \ {"command"} : call[m] = Page!Idle) /\ ~listing /\ ~failures
        => listed = Section!Present(service_id)

SectionInv == ServerInv /\ DialogsInv /\ EditorInv /\ ListInv /\ QuietInv

FilesInv == (view = "page" => PageInv) /\ (view = "section" => SectionInv)

-----------------------------------------------------------------------------
(***************************************************************************)
(* The server.  Both views meet the same one.                              *)
(***************************************************************************)
LEMMA SameServer == Section!ServerNext <=> Page!ServerNext
BY DEF Section!ServerNext, Page!ServerNext, Section!Done, Page!Done, Section!Failed, Page!Failed,
  Section!BulkStep, Page!BulkStep, Section!executeServiceCommand, Page!executeServiceCommand,
  Section!Obeyed, Page!Obeyed, Section!Mutations, Page!Mutations, Section!MayWrite, Page!MayWrite,
  Section!FileEffect, Page!FileEffect, Section!Answer, Page!Answer, Section!server, Page!server,
  Section!saveFile, Page!saveFile, Section!deleteFile, Page!deleteFile, Section!renameFile,
  Page!renameFile, Section!extractZip, Page!extractZip, Section!createFolder, Page!createFolder,
  Section!uploadFiles, Page!uploadFiles, Section!WithParents, Page!WithParents,
  Section!WithoutEmptyParents, Page!WithoutEmptyParents, Section!Absent, Page!Absent,
  Section!Blank, Page!Blank, Section!Fresh, Page!Fresh

(* What is there is a text.                                                 *)
LEMMA Texts ==
  /\ Page!Blank \in Text
  /\ \A f \in Files : Page!Fresh(f) \in Text
  /\ Page!Absent \notin Text
<1>1. Page!Blank \in Text /\ \A f \in Files : Page!Fresh(f) \in Text
  BY FilesAssumption DEF Text, Page!Blank, Page!Fresh
<1>2. ASSUME Page!Absent \in Text PROVE FALSE
  <2>1. DOMAIN Page!Absent = {"absent"}
    BY DEF Page!Absent
  <2>2. DOMAIN Page!Absent = {"of", "edits"}
    BY <1>2 DEF Text
  <2> QED
    BY <2>1, <2>2
<1> QED
  BY <1>1, <1>2

LEMMA WithParentsIsTyped ==
  ASSUME NEW f \in Files, NEW d \in [Files -> TextOrNone]
  PROVE  Page!WithParents(f, d) \in [Files -> TextOrNone]
BY Texts DEF Page!WithParents, TextOrNone

LEMMA WithoutEmptyParentsIsTyped ==
  ASSUME NEW f \in Files, NEW d \in [Files -> TextOrNone]
  PROVE  Page!WithoutEmptyParents(f, d) \in [Files -> TextOrNone]
BY DEF Page!WithoutEmptyParents, TextOrNone

LEMMA DeleteIsTyped ==
  ASSUME disk \in [Files -> TextOrNone], NEW c, c.file \in Files
  PROVE  Page!deleteFile(c) \in [Files -> TextOrNone]
<1> DEFINE d == [f \in Files |-> IF f = c.file \/ c.file \in Above[f] THEN Page!Absent ELSE disk[f]]
<1>1. d \in [Files -> TextOrNone]
  BY DEF TextOrNone
<1> HIDE DEF d
<1>2. Page!WithoutEmptyParents(c.file, d) \in [Files -> TextOrNone]
  BY <1>1, WithoutEmptyParentsIsTyped
<1> QED
  BY <1>2 DEF Page!deleteFile, d

(* The mutations and their answers.                                         *)
LEMMA AnswersAreTyped ==
  ASSUME CallsInv, NEW m \in Page!Mutations, call[m].at = "sent", NEW how \in Sent,
         Page!Answer(m, how)
  PROVE  /\ CallsInv'
         /\ \A k \in Page!Mutations \ {m} : call'[k] = call[k]
         /\ call'[m].at = how
         /\ m = "delete" => call'[m].file = call[m].file
         /\ m = "bulk" => call'[m].left = call[m].left
<1> USE DEF Page!Mutations
<1>1. call' = [call EXCEPT ![m] = [call[m] EXCEPT !.at = how]]
  BY DEF Page!Answer
<1>2. /\ \A k \in Page!Mutations : k # m => call'[k] = call[k]
      /\ call'[m] = [call[m] EXCEPT !.at = how]
      /\ call' = [k \in Page!Mutations |-> call'[k]]
  BY <1>1 DEF CallsInv
<1>3. call[m] # Page!Idle
  BY DEF Page!Idle
<1> QED
  BY <1>2, <1>3 DEF CallsInv, Sent

(* One step of the server.                                                  *)
LEMMA ServerSteps ==
  ASSUME ServerInv, Page!ServerNext, confirmed' = confirmed
  PROVE  ServerInv'
<1>1. ASSUME NEW m \in Page!Mutations, Page!Failed(m) PROVE ServerInv'
  <2>1. call[m].at = "sent" /\ Page!Answer(m, "error") /\ UNCHANGED <<status, orders, disk>>
    BY <1>1 DEF Page!Failed, Page!server
  <2>2. /\ CallsInv'
        /\ \A k \in Page!Mutations \ {m} : call'[k] = call[k]
        /\ m = "delete" => call'[m].file = call[m].file
        /\ m = "bulk" => call'[m].left = call[m].left
    BY <2>1, AnswersAreTyped DEF ServerInv, Sent
  <2>3. ConfirmedInv'
    BY <1>1, <2>1, <2>2 DEF ServerInv, ConfirmedInv, Page!Mutations, Page!Idle
  <2> QED
    BY <2>1, <2>2, <2>3 DEF ServerInv, DiskInv
<1>2. ASSUME NEW m \in Page!Mutations, Page!Done(m) PROVE ServerInv'
  <2>1. PICK how \in {"ok", "error"} : Page!Answer(m, how)
    BY <1>2 DEF Page!Done
  <2>2. /\ call[m].at = "sent" /\ m \notin {"bulk", "command"}
        /\ disk' = Page!FileEffect(m, call[m])
        /\ Page!MayWrite(m, call[m])
        /\ UNCHANGED <<status, orders>>
    BY <1>2 DEF Page!Done
  <2>3. /\ CallsInv'
        /\ \A k \in Page!Mutations \ {m} : call'[k] = call[k]
        /\ m = "delete" => call'[m].file = call[m].file
    BY <2>1, <2>2, AnswersAreTyped DEF ServerInv, Sent
  <2>4. ConfirmedInv'
    BY <1>2, <2>2, <2>3 DEF ServerInv, ConfirmedInv, Page!Mutations, Page!Idle
  <2>5. disk' \in [Files -> TextOrNone]
    <3> DEFINE c == call[m]
    <3>1. /\ CallsInv /\ disk \in [Files -> TextOrNone]
          /\ c # Page!Idle /\ c.file \in Files
      BY <2>2 DEF ServerInv, DiskInv, CallsInv, Page!Idle, Page!Mutations
    <3>2. CASE m \in {"save", "create"}
      <4>1. c.text \in Text
        BY <3>1, <3>2 DEF CallsInv
      <4>2. [disk EXCEPT ![c.file] = c.text] \in [Files -> TextOrNone]
        BY <3>1, <4>1 DEF TextOrNone
      <4>3. disk' = Page!WithParents(c.file, [disk EXCEPT ![c.file] = c.text])
        BY <2>2, <3>2 DEF Page!FileEffect, Page!saveFile
      <4> QED
        BY <3>1, <4>2, <4>3, WithParentsIsTyped
    <3>3. CASE m = "delete"
      BY <2>2, <3>1, <3>3, DeleteIsTyped DEF Page!FileEffect
    <3>4. CASE m = "rename"
      <4> DEFINE d == Page!WithParents(c.to, disk)
      <4>1. c.to \in Files
        BY <3>1, <3>4 DEF CallsInv
      <4>2. d \in [Files -> TextOrNone]
        BY <3>1, <4>1, WithParentsIsTyped
      <4> HIDE DEF d
      <4>3. [d EXCEPT ![c.to] = disk[c.file], ![c.file] = Page!Absent] \in [Files -> TextOrNone]
        BY <3>1, <4>1, <4>2 DEF TextOrNone
      <4>4. disk' = Page!WithoutEmptyParents(c.file,
                        [d EXCEPT ![c.to] = disk[c.file], ![c.file] = Page!Absent])
        BY <2>2, <3>4 DEF Page!FileEffect, Page!renameFile, d
      <4> QED
        BY <3>1, <4>3, <4>4, WithoutEmptyParentsIsTyped
    <3>5. CASE m = "unzip"
      BY <2>2, <3>1, <3>5, Texts DEF Page!FileEffect, Page!extractZip, TextOrNone
    <3>6. CASE m \in {"folder", "upload"}
      <4>1. PICK t \in Text : disk' = Page!WithParents(c.file, [disk EXCEPT ![c.file] = t])
        BY <2>2, <3>1, <3>6, Texts DEF Page!FileEffect, Page!createFolder, Page!uploadFiles
      <4>2. [disk EXCEPT ![c.file] = t] \in [Files -> TextOrNone]
        BY <3>1 DEF TextOrNone
      <4> QED
        BY <3>1, <4>1, <4>2, WithParentsIsTyped
    <3> QED
      BY <2>2, <3>2, <3>3, <3>4, <3>5, <3>6 DEF Page!Mutations
  <2> QED
    BY <2>2, <2>3, <2>4, <2>5 DEF ServerInv, DiskInv
<1>3. CASE Page!BulkStep
  <2>1. call["bulk"].at = "sent" /\ UNCHANGED <<status, orders>>
    BY <1>3 DEF Page!BulkStep
  <2>2. CASE Page!Answer("bulk", "ok") /\ disk' = disk
    <3>1. /\ CallsInv'
          /\ \A k \in Page!Mutations \ {"bulk"} : call'[k] = call[k]
          /\ call'["bulk"].left = call["bulk"].left
      BY <2>1, <2>2, AnswersAreTyped DEF ServerInv, Sent, Page!Mutations
    <3>2. ConfirmedInv'
      BY <2>1, <3>1 DEF ServerInv, ConfirmedInv, Page!Mutations, Page!Idle
    <3> QED
      BY <2>1, <2>2, <3>1, <3>2 DEF ServerInv, DiskInv
  <2>3. ASSUME NEW f \in call["bulk"].left, disk' = Page!deleteFile([file |-> f]),
               call' = [call EXCEPT !["bulk"].left = @ \ {f}]
        PROVE  ServerInv'
    <3>1. call["bulk"] \in [at : Sent, left : SUBSET Files]
      BY <2>1 DEF ServerInv, CallsInv, Page!Idle
    <3>2. /\ call' = [k \in Page!Mutations |-> call'[k]]
          /\ call'["bulk"] = [at |-> call["bulk"].at, left |-> call["bulk"].left \ {f}]
          /\ \A k \in Page!Mutations : k # "bulk" => call'[k] = call[k]
      BY <2>3, <3>1 DEF ServerInv, CallsInv, Page!Mutations
    <3>3. CallsInv' /\ ConfirmedInv'
      BY <3>1, <3>2 DEF ServerInv, CallsInv, ConfirmedInv, Page!Mutations, Page!Idle
    <3>4. disk' \in [Files -> TextOrNone]
      BY <2>3, <3>1, DeleteIsTyped DEF ServerInv, DiskInv
    <3> QED
      BY <2>1, <3>3, <3>4 DEF ServerInv, DiskInv
  <2> QED
    BY <1>3, <2>2, <2>3 DEF Page!BulkStep
<1>4. CASE Page!executeServiceCommand
  <2>1. /\ call["command"].at = "sent" /\ Page!Answer("command", "ok")
        /\ UNCHANGED <<status, disk>>
    BY <1>4 DEF Page!executeServiceCommand
  <2>2. CallsInv' /\ \A k \in Page!Mutations \ {"command"} : call'[k] = call[k]
    BY <2>1, AnswersAreTyped DEF ServerInv, Sent, Page!Mutations
  <2>3. ConfirmedInv'
    BY <2>2 DEF ServerInv, ConfirmedInv, Page!Mutations
  <2> QED
    BY <2>1, <2>2, <2>3 DEF ServerInv, DiskInv
<1>5. ASSUME NEW s \in Services, Page!Obeyed(s) PROVE ServerInv'
  <2>1. DiskInv' /\ call' = call
    BY <1>5 DEF ServerInv, DiskInv, Page!Obeyed
  <2> QED
    BY <2>1 DEF ServerInv, CallsInv, ConfirmedInv
<1> QED
  BY <1>1, <1>2, <1>3, <1>4, <1>5 DEF Page!ServerNext

-----------------------------------------------------------------------------
(***************************************************************************)
(* The panel.  What a step leaves alone stays as it is.                    *)
(***************************************************************************)
LEMMA LeftAlone ==
  /\ ServerInv /\ UNCHANGED <<status, orders, disk, call, confirmed>> => ServerInv'
  /\ DiskInv /\ UNCHANGED <<status, orders, disk>> => DiskInv'
  /\ DialogsInv /\ UNCHANGED <<modal, named, selectedFilePaths, dialog>> => DialogsInv'
  /\ EditorInv /\ UNCHANGED <<cached, reading, broken, imageCalls, editorContent, originalContent>>
        => EditorInv'
  /\ PageQueriesInv /\ UNCHANGED <<shown, listed>> => PageQueriesInv'
  /\ SelectionInv /\ UNCHANGED <<selectedFile, cached, editorContent>> => SelectionInv'
<1>1. ServerInv /\ UNCHANGED <<status, orders, disk, call, confirmed>> => ServerInv'
  BY DEF ServerInv, DiskInv, CallsInv, ConfirmedInv
<1>2. DiskInv /\ UNCHANGED <<status, orders, disk>> => DiskInv'
  BY DEF DiskInv
<1>3. DialogsInv /\ UNCHANGED <<modal, named, selectedFilePaths, dialog>> => DialogsInv'
  BY DEF DialogsInv
<1>4. EditorInv /\ UNCHANGED <<cached, reading, broken, imageCalls, editorContent, originalContent>>
        => EditorInv'
  BY DEF EditorInv
<1>5. PageQueriesInv /\ UNCHANGED <<shown, listed>> => PageQueriesInv'
  BY DEF PageQueriesInv
<1>6. SelectionInv /\ UNCHANGED <<selectedFile, cached, editorContent>> => SelectionInv'
  BY DEF SelectionInv
<1> QED
  BY <1>1, <1>2, <1>3, <1>4, <1>5, <1>6

(* A request is sent, or its answer has been handled.                       *)
LEMMA RequestsAreTyped ==
  ASSUME ServerInv, NEW m \in Page!Mutations, NEW c, call' = [call EXCEPT ![m] = c],
         UNCHANGED <<status, orders, disk>>,
         confirmed \subseteq confirmed',
         \/ c = Page!Idle
         \/ m = "save" /\ c \in [at : Sent, file : Files, text : Text]
         \/ m = "create" /\ c \in [at : Sent, file : Files, text : Text, service : Services]
         \/ m = "delete" /\ c \in [at : Sent, file : Files] /\ c.file \in confirmed'
         \/ m = "rename" /\ c \in [at : Sent, file : Files, to : Files, service : Services]
         \/ m = "unzip" /\ c \in [at : Sent, file : Files]
         \/ m \in {"folder", "upload"} /\ c \in [at : Sent, file : Files, service : Services]
         \/ m = "bulk" /\ c \in [at : Sent, left : SUBSET Files] /\ c.left \subseteq confirmed'
         \/ m = "command" /\ c \in [at : Sent, service : Services,
                                    action : {"start", "stop", "restart"}]
  PROVE  ServerInv'
<1>1. /\ call' = [k \in Page!Mutations |-> call'[k]]
      /\ call'[m] = c
      /\ \A k \in Page!Mutations : k # m => call'[k] = call[k]
  BY DEF ServerInv, CallsInv
<1>2. CallsInv'
  BY <1>1 DEF ServerInv, CallsInv, Page!Mutations
<1>3. ConfirmedInv'
  BY <1>1 DEF ServerInv, ConfirmedInv, Page!Mutations
<1> QED
  BY <1>2, <1>3, LeftAlone DEF ServerInv

(* A dialog over a page.                                                    *)
LEMMA ModalsKeep ==
  ASSUME ServerInv, DialogsInv,
         UNCHANGED <<status, orders, disk, confirmed, selectedFilePaths, dialog>>,
         \/ Page!Cancel /\ UNCHANGED <<call, named>>
         \/ \E f \in Files :
              /\ UNCHANGED modal
              /\ \/ Page!TypeName(f) /\ UNCHANGED call
                 \/ Page!SubmitRename(f) \/ Page!SubmitNewFile(f)
                 \/ Page!SubmitNewFolder(f) \/ Page!SubmitUpload(f)
  PROVE  ServerInv' /\ DialogsInv'
<1>1. CASE Page!Cancel /\ UNCHANGED <<call, named>>
  BY <1>1, LeftAlone DEF DialogsInv, Page!Cancel, Page!closeModal, Page!NoModal
<1>2. ASSUME NEW f \in Files, modal' = modal, Page!TypeName(f), UNCHANGED call
      PROVE  ServerInv' /\ DialogsInv'
  BY <1>2, LeftAlone DEF DialogsInv, Page!TypeName
<1>3. ASSUME NEW f \in Files, modal' = modal,
             \/ Page!SubmitRename(f) \/ Page!SubmitNewFile(f)
             \/ Page!SubmitNewFolder(f) \/ Page!SubmitUpload(f)
      PROVE  ServerInv' /\ DialogsInv'
  <2> DEFINE s == modal.service
             rename == [at |-> "sent", file |-> modal.file, to |-> f, service |-> s]
             create == [at |-> "sent", file |-> f, text |-> Page!Blank, service |-> s]
             other == [at |-> "sent", file |-> f, service |-> s]
  <2>1. s \in Services /\ named' \in Files \cup {NoFile}
    BY <1>3, FilesAssumption
    DEF DialogsInv, Page!SubmitRename, Page!SubmitNewFile, Page!SubmitNewFolder,
        Page!SubmitUpload, Page!Names, Page!PathsAssumption
  <2>2. /\ modal.kind = "rename" => rename \in [at : Sent, file : Files, to : Files, service : Services]
        /\ create \in [at : Sent, file : Files, text : Text, service : Services]
        /\ other \in [at : Sent, file : Files, service : Services]
    BY <2>1, Texts DEF DialogsInv, Sent
  <2>3. \/ modal.kind = "rename" /\ call' = [call EXCEPT !["rename"] = rename]
        \/ call' = [call EXCEPT !["create"] = create]
        \/ \E m \in {"folder", "upload"} : call' = [call EXCEPT ![m] = other]
    BY <1>3 DEF Page!SubmitRename, Page!SubmitNewFile, Page!SubmitNewFolder, Page!SubmitUpload
  <2> HIDE DEF rename, create, other
  <2>4. ServerInv'
    BY <2>2, <2>3, RequestsAreTyped DEF Page!Mutations
  <2> QED
    BY <1>3, <2>1, <2>4 DEF DialogsInv
<1> QED
  BY <1>1, <1>2, <1>3

-----------------------------------------------------------------------------
(***************************************************************************)
(* The page.                                                               *)
(***************************************************************************)
LEMMA SelectingOnPage ==
  ASSUME EditorInv, SelectionInv, NEW sel, sel = [file |-> sel.file, seen |-> sel.seen],
         sel.file \in Files \cup {NoFile},
         Page!setSelectedFile(sel), UNCHANGED <<cached, broken>>
  PROVE  EditorInv' /\ SelectionInv'
<1>1. /\ selectedFile' = sel
      /\ imageCalls' = imageCalls \/ (Kind[sel.file] = "image" /\ sel.file \in Files
                                      /\ imageCalls' = imageCalls \cup {sel.file})
  BY DEF Page!setSelectedFile, Page!Preview, Page!IsImageFile
<1>2. imageCalls' \subseteq {f \in Files : Kind[f] = "image"}
  BY <1>1 DEF EditorInv
<1>3. CASE sel.file = NoFile \/ Kind[sel.file] # "text"
  <2>1. editorContent' = Page!Blank /\ originalContent' = Page!Blank /\ reading' = reading
    BY <1>3 DEF Page!setSelectedFile
  <2>2. EditorInv'
    BY <1>2, <2>1, Texts DEF EditorInv
  <2> QED
    BY <1>1, <1>3, <2>2, FilesAssumption DEF SelectionInv, Page!PathsAssumption
<1>4. CASE sel.file # NoFile /\ Kind[sel.file] = "text" /\ sel.file = selectedFile.file
  <2>1. UNCHANGED <<editorContent, originalContent, reading>>
    BY <1>4 DEF Page!setSelectedFile, Page!Selected
  <2> QED
    BY <1>1, <1>2, <1>4, <2>1 DEF EditorInv, SelectionInv
<1>5. CASE sel.file # NoFile /\ Kind[sel.file] = "text" /\ sel.file # selectedFile.file
  <2>1. /\ reading' = Page!Reading(sel.file)
        /\ IF cached[sel.file] = Page!Absent
           THEN UNCHANGED <<editorContent, originalContent>>
           ELSE editorContent' = cached[sel.file] /\ originalContent' = cached[sel.file]
    BY <1>5 DEF Page!setSelectedFile, Page!Selected
  <2>2. sel.file \in Files
    BY <1>5
  <2>3. /\ reading' = [f \in Files |-> reading'[f]]
        /\ \A f \in Files : reading'[f].at = "read" => reading'[f] = reading[f]
    BY <2>1, <2>2 DEF EditorInv, Page!Reading
  <2>4. editorContent' \in Text /\ originalContent' \in Text
    BY <2>1, <2>2 DEF EditorInv, TextOrNone
  <2>5. EditorInv'
    BY <1>2, <2>3, <2>4 DEF EditorInv
  <2> QED
    BY <1>1, <1>5, <2>1, <2>2, <2>5 DEF SelectionInv
<1> QED
  BY <1>3, <1>4, <1>5

(* Queries and their answers.                                               *)
LEMMA PageQueriesKeep ==
  ASSUME PageInv, \/ Page!servicesQuery
                  \/ \E s \in Services : Page!filesQuery(s)
                  \/ \E f \in Files : Page!ContentRead(f) \/ Page!fileContentQuery(f)
                                      \/ Page!ImageAnswer(f)
  PROVE  PageInv'
<1> USE DEF Page!server, Page!modals, Page!texts, Page!tree, Page!editor, Page!asked, Page!queries
<1>1. /\ ServerInv /\ DialogsInv /\ EditorInv /\ PageQueriesInv /\ SelectionInv
      /\ UNCHANGED <<status, orders, disk, call, confirmed, modal, named, selectedFilePaths,
                     dialog, selectedFile>>
  BY DEF PageInv, Page!servicesQuery, Page!filesQuery, Page!ContentRead, Page!fileContentQuery,
         Page!ImageAnswer
<1>2. ServerInv' /\ DialogsInv'
  BY <1>1, LeftAlone
<1>3. CASE Page!servicesQuery
  <2>1. PageQueriesInv'
    BY <1>1, <1>3 DEF ServerInv, DiskInv, PageQueriesInv, Page!servicesQuery, Page!Reported
  <2> QED
    BY <1>1, <1>2, <1>3, <2>1, LeftAlone DEF PageInv, Page!servicesQuery
<1>4. ASSUME NEW s \in Services, Page!filesQuery(s) PROVE PageInv'
  <2>1. /\ listed' = [listed EXCEPT ![s] = Page!Present(s)] /\ shown' = shown
        /\ Page!Present(s) \subseteq Files
        /\ \A f \in Page!Present(s) : ServiceOf[f] = s
    BY <1>4 DEF Page!filesQuery, Page!Present
  <2>2. PageQueriesInv'
    BY <1>1, <2>1 DEF PageQueriesInv
  <2> QED
    BY <1>1, <1>2, <1>4, <2>2, LeftAlone DEF PageInv, Page!filesQuery
<1>5. ASSUME NEW f \in Files, Page!ContentRead(f) PROVE PageInv'
  <2>1. disk[f] \in TextOrNone
    BY <1>1 DEF ServerInv, DiskInv
  <2>2. reading' = [reading EXCEPT ![f] = [at |-> "read", text |-> disk[f]]]
        /\ UNCHANGED <<cached, broken, imageCalls, editorContent, originalContent>>
    BY <1>5 DEF Page!ContentRead
  <2>3. EditorInv'
    BY <1>1, <2>1, <2>2 DEF EditorInv
  <2> QED
    BY <1>1, <1>2, <1>5, <2>3, LeftAlone DEF PageInv, Page!ContentRead
<1>6. ASSUME NEW f \in Files, Page!fileContentQuery(f) PROVE PageInv'
  <2>1. /\ reading[f].at = "read" /\ reading[f].text \in TextOrNone
        /\ reading' = [reading EXCEPT ![f] = Page!Idle]
        /\ UNCHANGED <<shown, listed, imageCalls>>
    BY <1>1, <1>6 DEF EditorInv, Page!fileContentQuery
  <2>2. \/ /\ broken' = broken \cup {f}
           /\ UNCHANGED <<cached, editorContent, originalContent>>
        \/ /\ broken' = broken \ {f}
           /\ reading[f].text # Page!Absent
           /\ cached' = [cached EXCEPT ![f] = reading[f].text]
           /\ \/ /\ f = selectedFile.file
                 /\ editorContent' = reading[f].text /\ originalContent' = reading[f].text
              \/ /\ f = selectedFile.file => cached' = cached
                 /\ UNCHANGED <<editorContent, originalContent>>
    BY <1>1, <1>6 DEF EditorInv, Page!fileContentQuery, Page!Selected
  <2>3. /\ reading' = [g \in Files |-> reading'[g]]
        /\ \A g \in Files : reading'[g].at = "read" => reading'[g] = reading[g]
    BY <1>1, <2>1 DEF EditorInv, Page!Idle
  <2>4. cached' \in [Files -> TextOrNone] /\ editorContent' \in Text /\ originalContent' \in Text
    BY <1>1, <2>1, <2>2 DEF EditorInv, TextOrNone
  <2>5. EditorInv'
    BY <1>1, <2>1, <2>2, <2>3, <2>4 DEF EditorInv
  <2>6. SelectionInv'
    BY <1>1, <2>1, <2>2 DEF SelectionInv, EditorInv
  <2> QED
    BY <1>1, <1>2, <2>1, <2>5, <2>6, LeftAlone DEF PageInv
<1>7. ASSUME NEW f \in Files, Page!ImageAnswer(f) PROVE PageInv'
  <2>1. EditorInv'
    BY <1>1, <1>7 DEF EditorInv, Page!ImageAnswer
  <2> QED
    BY <1>1, <1>2, <1>7, <2>1, LeftAlone DEF PageInv, Page!ImageAnswer
<1> QED
  BY <1>3, <1>4, <1>5, <1>6, <1>7

(* What the user selects, marks and types.                                  *)
LEMMA PageSelectionsKeep ==
  ASSUME PageInv,
         \/ \E f \in Files : Page!onSelectFile(f) \/ Page!setSelectedFilePaths(f)
         \/ \E s \in Services : Page!toggleServiceExpand(s)
         \/ Page!setEditorContent \/ Page!handleBulkDownload \/ Page!DownloadEnds
         \/ Page!Refresh
  PROVE  PageInv'
<1> USE DEF Page!server, Page!modals, Page!texts, Page!tree, Page!editor, Page!asked, Page!queries
<1>1. /\ ServerInv /\ DialogsInv /\ EditorInv /\ PageQueriesInv /\ SelectionInv
      /\ UNCHANGED <<status, orders, disk, call, confirmed, modal, named, dialog>>
  BY DEF PageInv, Page!onSelectFile, Page!setSelectedFilePaths, Page!toggleServiceExpand,
         Page!setEditorContent, Page!handleBulkDownload, Page!DownloadEnds, Page!Refresh
<1>2. ServerInv'
  BY <1>1, LeftAlone
<1>3. ASSUME NEW f \in Files, Page!onSelectFile(f) PROVE PageInv'
  <2> DEFINE sel == [file |-> f, seen |-> shown[ServiceOf[f]]]
  <2>1. Page!setSelectedFile(sel) /\ UNCHANGED <<cached, broken, shown, listed, selectedFilePaths>>
    BY <1>3 DEF Page!onSelectFile
  <2>2. sel = [file |-> sel.file, seen |-> sel.seen] /\ sel.file \in Files \cup {NoFile}
    OBVIOUS
  <2> HIDE DEF sel
  <2>3. EditorInv' /\ SelectionInv'
    BY <1>1, <2>1, <2>2, SelectingOnPage
  <2> QED
    BY <1>1, <1>2, <2>1, <2>3, LeftAlone DEF PageInv
<1>4. ASSUME NEW f \in Files, Page!setSelectedFilePaths(f) PROVE PageInv'
  <2>1. DialogsInv'
    BY <1>1, <1>4 DEF DialogsInv, Page!setSelectedFilePaths
  <2> QED
    BY <1>1, <1>2, <1>4, <2>1, LeftAlone DEF PageInv, Page!setSelectedFilePaths
<1>5. ASSUME NEW s \in Services, Page!toggleServiceExpand(s) PROVE PageInv'
  BY <1>1, <1>2, <1>5, LeftAlone DEF PageInv, Page!toggleServiceExpand
<1>6. CASE Page!setEditorContent
  <2>1. /\ editorContent.edits < MaxEdits
        /\ editorContent' = [editorContent EXCEPT !.edits = @ + 1]
        /\ UNCHANGED <<shown, listed, cached, reading, broken, imageCalls, originalContent,
                       selectedFile, selectedFilePaths>>
    BY <1>6 DEF Page!setEditorContent
  <2>2. editorContent' \in Text /\ editorContent'.of = editorContent.of
    BY <1>1, <2>1, FilesAssumption DEF EditorInv, Text
  <2>3. EditorInv' /\ SelectionInv'
    BY <1>1, <2>1, <2>2 DEF EditorInv, SelectionInv
  <2> QED
    BY <1>1, <1>2, <2>1, <2>3, LeftAlone DEF PageInv
<1>7. CASE Page!handleBulkDownload \/ Page!DownloadEnds
  BY <1>1, <1>2, <1>7, LeftAlone DEF PageInv, Page!handleBulkDownload, Page!DownloadEnds
<1>8. CASE Page!Refresh
  <2>1. PageQueriesInv'
    BY <1>1, <1>8 DEF ServerInv, DiskInv, PageQueriesInv, Page!Refresh, Page!Reported
  <2> QED
    BY <1>1, <1>2, <1>8, <2>1, LeftAlone DEF PageInv, Page!Refresh
<1> QED
  BY <1>3, <1>4, <1>5, <1>6, <1>7, <1>8

(* What the user asks for, with its questions and dialogs.                  *)
LEMMA PageOrdersKeep ==
  ASSUME PageInv,
         \/ Page!handleSave \/ Page!handleExtractZip \/ Page!handleStartStop
         \/ Page!handleDelete \/ Page!handleBulkDelete \/ Page!handleConfirm
         \/ Page!handleCancel \/ Page!openRenameModal \/ Page!ModalStep
         \/ \E kind \in {"create", "folder", "upload"}, s \in Services :
              Page!openCreateModal(kind, s)
  PROVE  PageInv'
<1> USE DEF Page!server, Page!modals, Page!texts, Page!tree, Page!editor, Page!asked, Page!queries
<1>1. /\ ServerInv /\ DialogsInv /\ EditorInv /\ PageQueriesInv /\ SelectionInv
      /\ UNCHANGED <<status, orders, disk, shown, listed, cached, reading, broken, imageCalls,
                     editorContent, originalContent, selectedFile, selectedFilePaths>>
  BY DEF PageInv, Page!handleSave, Page!handleExtractZip, Page!handleStartStop, Page!handleDelete,
         Page!handleBulkDelete, Page!handleConfirm, Page!handleCancel, Page!openRenameModal,
         Page!ModalStep, Page!openCreateModal, Page!Unchanged
<1>2. EditorInv' /\ PageQueriesInv' /\ SelectionInv'
  BY <1>1, LeftAlone
<1>3. Page!IsSelected => selectedFile.file \in Files /\ ServiceOf[selectedFile.file] \in Services
  BY <1>1, FilesAssumption DEF SelectionInv, Page!IsSelected, Page!Selected, Page!PathsAssumption
<1>4. CASE Page!handleSave \/ Page!handleExtractZip \/ Page!handleStartStop
  <2> DEFINE save == [at |-> "sent", file |-> selectedFile.file, text |-> editorContent]
             unzip == [at |-> "sent", file |-> selectedFile.file]
             order == [at |-> "sent", service |-> ServiceOf[selectedFile.file],
                       action |-> IF Page!isStopped THEN "start" ELSE "stop"]
  <2>1. /\ Page!IsSelected
        /\ UNCHANGED <<modal, named, dialog, confirmed>>
        /\ \/ call' = [call EXCEPT !["save"] = save]
           \/ call' = [call EXCEPT !["unzip"] = unzip]
           \/ call' = [call EXCEPT !["command"] = order]
    BY <1>4 DEF Page!handleSave, Page!handleExtractZip, Page!handleStartStop, Page!Send,
                Page!Selected, Page!CanSave, Page!CanExtract, Page!CanStartStop
  <2>2. /\ save \in [at : Sent, file : Files, text : Text]
        /\ unzip \in [at : Sent, file : Files]
        /\ order \in [at : Sent, service : Services, action : {"start", "stop", "restart"}]
    BY <1>1, <1>3, <2>1 DEF EditorInv, Sent
  <2> HIDE DEF save, unzip, order
  <2>3. ServerInv'
    BY <1>1, <2>1, <2>2, RequestsAreTyped DEF Page!Mutations
  <2> QED
    BY <1>1, <1>2, <2>1, <2>3, LeftAlone DEF PageInv
<1>5. CASE Page!handleDelete \/ Page!handleBulkDelete
  <2>1. /\ UNCHANGED <<call, modal, named, confirmed>>
        /\ \/ Page!IsSelected /\ dialog' = [kind |-> "delete", files |-> {selectedFile.file}]
           \/ selectedFilePaths # {} /\ dialog' = [kind |-> "bulk", files |-> selectedFilePaths]
    BY <1>5 DEF Page!handleDelete, Page!handleBulkDelete, Page!CanDelete, Page!CanBulkDelete,
                Page!Selected
  <2>2. DialogsInv'
    BY <1>1, <1>3, <2>1 DEF DialogsInv
  <2> QED
    BY <1>1, <1>2, <2>1, <2>2, LeftAlone DEF PageInv
<1>6. CASE Page!handleConfirm
  <2> DEFINE one == [at |-> "sent", file |-> CHOOSE f \in dialog.files : TRUE]
             all == [at |-> "sent", left |-> dialog.files]
  <2>1. /\ dialog \in [kind : {"delete", "bulk"}, files : (SUBSET Files) \ {{}}]
        /\ call' = [call EXCEPT ![dialog.kind] = IF dialog.kind = "delete" THEN one ELSE all]
        /\ confirmed' = confirmed \cup dialog.files
        /\ dialog' = Page!NoDialog
        /\ UNCHANGED <<modal, named>>
    BY <1>1, <1>6 DEF DialogsInv, Page!handleConfirm, Page!Send
  <2>2. one.file \in dialog.files
    BY <2>1
  <2>3. /\ one \in [at : Sent, file : Files] /\ one.file \in confirmed'
        /\ all \in [at : Sent, left : SUBSET Files] /\ all.left \subseteq confirmed'
    BY <2>1, <2>2 DEF Sent
  <2> HIDE DEF one, all
  <2>4. ServerInv'
    BY <1>1, <2>1, <2>3, RequestsAreTyped DEF Page!Mutations
  <2>5. DialogsInv'
    BY <1>1, <2>1 DEF DialogsInv
  <2> QED
    BY <1>2, <2>4, <2>5 DEF PageInv
<1>7. CASE Page!handleCancel
  BY <1>1, <1>2, <1>7, LeftAlone DEF PageInv, DialogsInv, Page!handleCancel
<1>8. CASE Page!openRenameModal
  <2>1. modal'.file = selectedFile.file /\ Page!IsSelected
        /\ UNCHANGED <<call, named, dialog, confirmed>>
    BY <1>8 DEF Page!openRenameModal, Page!openModal, Page!CanRename, Page!Selected, Page!Unchanged
  <2>2. DialogsInv'
    BY <1>1, <1>3, <2>1 DEF DialogsInv
  <2> QED
    BY <1>1, <1>2, <2>1, <2>2, LeftAlone DEF PageInv
<1>9. ASSUME NEW kind \in {"create", "folder", "upload"}, NEW s \in Services,
             Page!openCreateModal(kind, s)
      PROVE  PageInv'
  <2>1. modal'.kind # "rename" /\ UNCHANGED <<call, named, dialog, confirmed>>
    BY <1>9 DEF Page!openCreateModal, Page!openModal, Page!Unchanged
  <2>2. DialogsInv'
    BY <1>1, <2>1 DEF DialogsInv
  <2> QED
    BY <1>1, <1>2, <2>1, <2>2, LeftAlone DEF PageInv
<1>10. CASE Page!ModalStep
  <2>1. ServerInv' /\ DialogsInv'
    <3>1. UNCHANGED <<confirmed, dialog>>
      BY <1>10 DEF Page!ModalStep
    <3> QED
      BY <1>1, <1>10, <3>1, ModalsKeep DEF Page!ModalStep
  <2> QED
    BY <1>2, <2>1 DEF PageInv
<1> QED
  BY <1>4, <1>5, <1>6, <1>7, <1>8, <1>9, <1>10

(* What the page does with answers.                                         *)
LEMMA PageCompletionKeeps ==
  ASSUME PageInv, Page!Completion
  PROVE  PageInv'
<1> USE DEF Page!server, Page!modals, Page!texts, Page!tree, Page!editor, Page!asked, Page!queries
<1>1. /\ ServerInv /\ DialogsInv /\ EditorInv /\ PageQueriesInv /\ SelectionInv
  BY DEF PageInv
<1>2. ASSUME NEW m \in Page!Mutations, call' = [call EXCEPT ![m] = Page!Idle],
             UNCHANGED <<status, orders, disk, confirmed>>
      PROVE  ServerInv'
  <2> DEFINE c == Page!Idle
  <2>1. call' = [call EXCEPT ![m] = c] /\ c = Page!Idle
    BY <1>2
  <2> HIDE DEF c
  <2> QED
    BY <1>1, <1>2, <2>1, RequestsAreTyped
<1>3. CASE Page!saveSucceeds
  <2>1. /\ call' = [call EXCEPT !["save"] = Page!Idle] /\ originalContent' = editorContent
        /\ UNCHANGED <<status, orders, disk, confirmed, modal, named, selectedFilePaths, dialog,
                       shown, listed, cached, reading, broken, imageCalls, editorContent,
                       selectedFile>>
    BY <1>3 DEF Page!saveSucceeds, Page!Succeeds
  <2>2. ServerInv'
    BY <1>2, <2>1 DEF Page!Mutations
  <2>3. EditorInv'
    BY <1>1, <2>1 DEF EditorInv
  <2> QED
    BY <1>1, <2>1, <2>2, <2>3, LeftAlone DEF PageInv
<1>4. CASE Page!deleteSucceeds \/ Page!bulkDeleteSucceeds
  <2> DEFINE sel == Page!NoSelection
  <2>1. /\ \E m \in Page!Mutations : call' = [call EXCEPT ![m] = Page!Idle]
        /\ Page!setSelectedFile(sel)
        /\ selectedFilePaths' \in {selectedFilePaths, {}}
        /\ UNCHANGED <<status, orders, disk, confirmed, modal, named, dialog,
                       shown, listed, cached, broken>>
    BY <1>4 DEF Page!deleteSucceeds, Page!bulkDeleteSucceeds, Page!Succeeds, Page!Mutations
  <2>2. sel = [file |-> sel.file, seen |-> sel.seen] /\ sel.file \in Files \cup {NoFile}
    BY DEF Page!NoSelection
  <2> HIDE DEF sel
  <2>3. EditorInv' /\ SelectionInv'
    BY <1>1, <2>1, <2>2, SelectingOnPage
  <2>4. DialogsInv'
    BY <1>1, <2>1 DEF DialogsInv
  <2>5. ServerInv'
    BY <1>2, <2>1
  <2> QED
    BY <1>1, <2>1, <2>3, <2>4, <2>5, LeftAlone DEF PageInv
<1>5. CASE Page!unzipSucceeds
  <2>1. ServerInv'
    BY <1>2, <1>5 DEF Page!unzipSucceeds, Page!Succeeds, Page!Mutations
  <2> QED
    BY <1>1, <1>5, <2>1, LeftAlone DEF PageInv, Page!unzipSucceeds
<1>6. CASE Page!commandSucceeds
  <2>1. /\ call' = [call EXCEPT !["command"] = Page!Idle]
        /\ shown' = [s \in Services |-> Page!Reported(s)] /\ listed' = listed
        /\ UNCHANGED <<status, orders, disk, confirmed, modal, named, selectedFilePaths, dialog,
                       cached, reading, broken, imageCalls, editorContent, originalContent,
                       selectedFile>>
    BY <1>6 DEF Page!commandSucceeds, Page!Succeeds
  <2>2. ServerInv'
    BY <1>2, <2>1 DEF Page!Mutations
  <2>3. PageQueriesInv'
    BY <1>1, <2>1 DEF ServerInv, DiskInv, PageQueriesInv, Page!Reported
  <2> QED
    BY <1>1, <2>1, <2>2, <2>3, LeftAlone DEF PageInv
<1>7. CASE Page!renameSucceeds
  <2> DEFINE sel == [file |-> named, seen |-> "stopped"]
  <2>1. /\ call' = [call EXCEPT !["rename"] = Page!Idle]
        /\ Page!setSelectedFile(sel)
        /\ modal' = Page!NoModal
        /\ UNCHANGED <<status, orders, disk, confirmed, named, selectedFilePaths, dialog,
                       shown, listed, cached, broken>>
    BY <1>7 DEF Page!renameSucceeds, Page!Succeeds, Page!closeModal
  <2>2. sel = [file |-> sel.file, seen |-> sel.seen] /\ sel.file \in Files \cup {NoFile}
    BY <1>1 DEF DialogsInv
  <2> HIDE DEF sel
  <2>3. EditorInv' /\ SelectionInv'
    BY <1>1, <2>1, <2>2, SelectingOnPage
  <2>4. DialogsInv'
    BY <1>1, <2>1 DEF DialogsInv, Page!NoModal
  <2>5. ServerInv'
    BY <1>2, <2>1 DEF Page!Mutations
  <2> QED
    BY <1>1, <2>1, <2>3, <2>4, <2>5, LeftAlone DEF PageInv
<1>8. ASSUME NEW m \in {"create", "folder", "upload"}, Page!createSucceeds(m) PROVE PageInv'
  <2> DEFINE sel == [file |-> call[m].file, seen |-> "stopped"]
  <2>1. /\ call[m].at = "ok" /\ call' = [call EXCEPT ![m] = Page!Idle]
        /\ \/ m = "create" /\ Page!setSelectedFile(sel)
           \/ UNCHANGED <<selectedFile, editorContent, originalContent, imageCalls, reading>>
        /\ modal' = Page!NoModal
        /\ UNCHANGED <<status, orders, disk, confirmed, named, selectedFilePaths, dialog,
                       shown, listed, cached, broken>>
    BY <1>8 DEF Page!createSucceeds, Page!Succeeds, Page!closeModal, Page!KeepSelection
  <2>2. sel = [file |-> sel.file, seen |-> sel.seen] /\ (m = "create" => sel.file \in Files)
    BY <1>1, <2>1 DEF ServerInv, CallsInv, Page!Idle
  <2> HIDE DEF sel
  <2>3. EditorInv' /\ SelectionInv'
    <3>1. CASE m = "create" /\ Page!setSelectedFile(sel)
      BY <1>1, <2>1, <2>2, <3>1, SelectingOnPage
    <3>2. CASE UNCHANGED <<selectedFile, editorContent, originalContent, imageCalls, reading>>
      BY <1>1, <2>1, <3>2, LeftAlone
    <3> QED
      BY <2>1, <3>1, <3>2
  <2>4. DialogsInv'
    BY <1>1, <2>1 DEF DialogsInv, Page!NoModal
  <2>5. ServerInv'
    BY <1>2, <2>1 DEF Page!Mutations
  <2> QED
    BY <1>1, <2>1, <2>3, <2>4, <2>5, LeftAlone DEF PageInv
<1>9. ASSUME NEW m \in Page!Mutations, Page!MutationFails(m) PROVE PageInv'
  <2>1. ServerInv'
    BY <1>2, <1>9 DEF Page!MutationFails
  <2> QED
    BY <1>1, <1>9, <2>1, LeftAlone DEF PageInv, Page!MutationFails
<1> QED
  BY <1>3, <1>4, <1>5, <1>6, <1>7, <1>8, <1>9 DEF Page!Completion, Page!createSucceeds

LEMMA PageSteps ==
  ASSUME PageInv, Page!Next
  PROVE  PageInv'
<1>1. CASE Page!Network
  <2>1. Page!ServerNext
        /\ UNCHANGED <<modal, named, shown, listed, cached, reading, broken, selectedFilePaths,
                       selectedFile, editorContent, originalContent, imageCalls, dialog,
                       confirmed>>
    BY <1>1 DEF Page!Network, Page!modals, Page!texts, Page!tree, Page!editor, Page!asked,
                Page!queries
  <2> QED
    BY <2>1, ServerSteps, LeftAlone DEF PageInv
<1> QED
  BY <1>1, PageQueriesKeep, PageSelectionsKeep, PageOrdersKeep, PageCompletionKeeps DEF Page!Next

-----------------------------------------------------------------------------
(***************************************************************************)
(* The section of one service.                                             *)
(***************************************************************************)
LEMMA SectionLeftAlone ==
  /\ ListInv /\ UNCHANGED <<shown, listed, listing, selectedPath, follow>> => ListInv'
  /\ QuietInv /\ UNCHANGED <<call, disk, listed, listing, failures>> => QuietInv'
BY DEF ListInv, QuietInv, Section!Present, Section!Absent

(* A list stays true when a request is sent or fails, when it is to be      *)
(* fetched again, and when a command is answered.                           *)
LEMMA QuietKeeps ==
  ASSUME CallsInv, QuietInv, UNCHANGED <<disk, listed>>,
         \/ listing' = TRUE
         \/ failures' = TRUE
         \/ /\ UNCHANGED <<listing, failures>>
            /\ \E m \in Page!Mutations : \E c :
                 /\ call' = [call EXCEPT ![m] = c]
                 /\ m = "command" \/ c.at = "sent"
  PROVE  QuietInv'
<1>1. CASE listing' = TRUE \/ failures' = TRUE
  BY <1>1 DEF QuietInv
<1>2. ASSUME UNCHANGED <<listing, failures>>,
             NEW m \in Page!Mutations, NEW c, call' = [call EXCEPT ![m] = c],
             m = "command" \/ c.at = "sent"
      PROVE  QuietInv'
  <2>1. /\ call'[m] = c
        /\ \A k \in Page!Mutations : k # m => call'[k] = call[k]
    BY <1>2 DEF CallsInv
  <2>2. CASE m = "command"
    BY <1>2, <2>1, <2>2 DEF QuietInv, Section!Present, Section!Absent
  <2>3. CASE m # "command"
    <3>1. c # Page!Idle
      BY <1>2, <2>3 DEF Page!Idle
    <3> QED
      BY <2>1, <2>3, <3>1 DEF QuietInv
  <2> QED
    BY <2>2, <2>3
<1> QED
  BY <1>1, <1>2

(* Whatever changes the files is under way until the list is to be fetched. *)
LEMMA QuietServer ==
  ASSUME ServerInv, QuietInv, Page!ServerNext, UNCHANGED <<listed, listing, failures>>
  PROVE  QuietInv'
<1> DEFINE Busy == \E m \in Page!Mutations \ {"command"} : call'[m] # Page!Idle
<1>1. Busy => QuietInv'
  BY DEF QuietInv
<1>2. ASSUME UNCHANGED disk, \A k \in Page!Mutations \ {"command"} : call'[k] = call[k]
      PROVE  QuietInv'
  BY <1>2 DEF QuietInv, Section!Present, Section!Absent
<1>3. ASSUME NEW m \in Page!Mutations, Page!Done(m) \/ Page!Failed(m) PROVE QuietInv'
  <2>1. PICK how \in {"ok", "error"} : Page!Answer(m, how)
    BY <1>3 DEF Page!Done, Page!Failed
  <2>2. /\ call[m].at = "sent"
        /\ m = "command" => UNCHANGED disk
    BY <1>3 DEF Page!Done, Page!Failed, Page!server
  <2>3. call'[m].at = how /\ \A k \in Page!Mutations \ {m} : call'[k] = call[k]
    BY <2>1, <2>2, AnswersAreTyped DEF ServerInv, Sent
  <2>4. CASE m = "command"
    BY <1>2, <2>2, <2>3, <2>4
  <2>5. CASE m # "command"
    <3>1. call'[m] # Page!Idle
      BY <2>3 DEF Page!Idle
    <3> QED
      BY <1>1, <2>5, <3>1
  <2> QED
    BY <2>4, <2>5
<1>4. CASE Page!BulkStep
  <2>1. call["bulk"] \in [at : Sent, left : SUBSET Files] /\ call["bulk"].at = "sent"
    BY <1>4 DEF Page!BulkStep, ServerInv, CallsInv, Page!Idle
  <2>2. \/ call' = [call EXCEPT !["bulk"] = [call["bulk"] EXCEPT !.at = "ok"]]
        \/ \E f : call' = [call EXCEPT !["bulk"] = [call["bulk"] EXCEPT !.left = call["bulk"].left \ {f}]]
    BY <1>4 DEF Page!BulkStep, Page!Answer
  <2>3. call'["bulk"].at \in Sent
    BY <2>1, <2>2 DEF ServerInv, CallsInv, Page!Mutations, Sent
  <2>4. call'["bulk"] # Page!Idle
    BY <2>3 DEF Page!Idle, Sent
  <2> QED
    BY <1>1, <2>4 DEF Page!Mutations
<1>5. CASE Page!executeServiceCommand
  <2>1. call["command"].at = "sent" /\ Page!Answer("command", "ok") /\ UNCHANGED disk
    BY <1>5 DEF Page!executeServiceCommand
  <2>2. \A k \in Page!Mutations \ {"command"} : call'[k] = call[k]
    BY <2>1, AnswersAreTyped DEF ServerInv, Sent, Page!Mutations
  <2> QED
    BY <1>2, <2>1, <2>2
<1>6. ASSUME NEW s \in Services, Page!Obeyed(s) PROVE QuietInv'
  BY <1>2, <1>6 DEF Page!Obeyed
<1> QED
  BY <1>3, <1>4, <1>5, <1>6 DEF Page!ServerNext

LEMMA SelectingInSection ==
  ASSUME EditorInv, ListInv, NEW f \in Files \cup {NoFile},
         Section!setSelectedPath(f), UNCHANGED <<cached, broken>>
  PROVE  EditorInv' /\ selectedPath' = f
<1>1. /\ selectedPath' = f
      /\ imageCalls' = imageCalls \/ (Kind[f] = "image" /\ f \in Files
                                      /\ imageCalls' = imageCalls \cup {f})
  BY DEF Section!setSelectedPath, Section!IsImageFile
<1>2. imageCalls' \subseteq {g \in Files : Kind[g] = "image"}
  BY <1>1 DEF EditorInv
<1>3. CASE f = selectedPath
  BY <1>1, <1>3, LeftAlone DEF Section!setSelectedPath
<1>4. CASE f # selectedPath /\ (f = NoFile \/ Kind[f] # "text")
  <2>1. editorContent' = Section!Blank /\ originalContent' = Section!Blank /\ reading' = reading
    BY <1>4 DEF Section!setSelectedPath
  <2> QED
    BY <1>1, <1>2, <2>1, Texts DEF EditorInv, Section!Blank, Page!Blank
<1>5. CASE f # selectedPath /\ f # NoFile /\ Kind[f] = "text"
  <2>1. /\ reading' = IF reading[f] = Section!Idle
                      THEN [reading EXCEPT ![f] = [at |-> "sent"]] ELSE reading
        /\ editorContent' = IF cached[f] = Section!Absent THEN editorContent ELSE cached[f]
        /\ originalContent' = IF cached[f] = Section!Absent THEN originalContent ELSE cached[f]
    BY <1>5 DEF Section!setSelectedPath
  <2>2. /\ reading' = [g \in Files |-> reading'[g]]
        /\ \A g \in Files : reading'[g].at = "read" => reading'[g] = reading[g]
    BY <1>5, <2>1 DEF EditorInv
  <2>3. editorContent' \in Text /\ originalContent' \in Text
    BY <1>5, <2>1 DEF EditorInv, TextOrNone, Section!Absent, Page!Absent
  <2> QED
    BY <1>1, <1>2, <2>2, <2>3 DEF EditorInv
<1> QED
  BY <1>3, <1>4, <1>5

(* Queries, selections, marks, edits and downloads.                         *)
LEMMA SectionQueriesKeep ==
  ASSUME SectionInv, \/ Section!serviceQuery \/ Section!filesQuery
                     \/ \E f \in Files : Section!ContentRead(f) \/ Section!fileContentQuery(f)
                                         \/ Section!ImageAnswer(f)
  PROVE  SectionInv'
<1> USE DEF Section!server, Section!modals, Section!list, Section!texts, Section!tree,
            Section!editor, Section!asked
<1>1. /\ ServerInv /\ DialogsInv /\ EditorInv /\ ListInv /\ QuietInv
      /\ UNCHANGED <<status, orders, disk, call, confirmed, failures, modal, named,
                     selectedFilePaths, dialog>>
  BY DEF SectionInv, Section!serviceQuery, Section!filesQuery, Section!ContentRead,
         Section!fileContentQuery, Section!ImageAnswer
<1>2. ServerInv' /\ DialogsInv'
  BY <1>1, LeftAlone
<1>3. CASE Section!serviceQuery
  <2>1. /\ shown' = Section!Reported(service_id)
        /\ UNCHANGED <<listed, listing, selectedPath, follow>>
    BY <1>3 DEF Section!serviceQuery
  <2>2. ListInv'
    BY <1>1, <2>1, FilesAssumption DEF ServerInv, DiskInv, ListInv, Section!Reported
  <2> QED
    BY <1>1, <1>2, <1>3, <2>2, LeftAlone, SectionLeftAlone DEF SectionInv, Section!serviceQuery
<1>4. CASE Section!filesQuery
  <2>1. /\ listed' = Section!Present(service_id) /\ listing' = FALSE /\ follow' = NoFile
        /\ UNCHANGED <<shown, cached, broken>>
        /\ \/ UNCHANGED <<selectedPath, editorContent, originalContent, imageCalls, reading>>
           \/ Section!setSelectedPath(follow)
    BY <1>4 DEF Section!filesQuery
  <2>2. EditorInv' /\ selectedPath' \in Files \cup {NoFile}
    <3>1. CASE Section!setSelectedPath(follow)
      <4>1. follow \in Files \cup {NoFile}
        BY <1>1 DEF ListInv
      <4> QED
        BY <1>1, <2>1, <3>1, <4>1, SelectingInSection
    <3>2. CASE UNCHANGED <<selectedPath, editorContent, originalContent, imageCalls, reading>>
      BY <1>1, <2>1, <3>2, LeftAlone DEF ListInv
    <3> QED
      BY <2>1, <3>1, <3>2
  <2>3. ListInv'
    BY <1>1, <2>1, <2>2 DEF ListInv, Section!Present
  <2>4. QuietInv'
    BY <1>1, <2>1 DEF QuietInv, Section!Present, Section!Absent
  <2> QED
    BY <1>2, <2>2, <2>3, <2>4 DEF SectionInv
<1>5. ASSUME NEW f \in Files, Section!ContentRead(f) PROVE SectionInv'
  <2>1. disk[f] \in TextOrNone
    BY <1>1 DEF ServerInv, DiskInv
  <2>2. reading' = [reading EXCEPT ![f] = [at |-> "read", text |-> disk[f]]]
        /\ UNCHANGED <<cached, broken, imageCalls, editorContent, originalContent>>
    BY <1>5 DEF Section!ContentRead
  <2>3. EditorInv'
    BY <1>1, <2>1, <2>2 DEF EditorInv
  <2> QED
    BY <1>1, <1>2, <1>5, <2>3, SectionLeftAlone DEF SectionInv, Section!ContentRead
<1>6. ASSUME NEW f \in Files, Section!fileContentQuery(f) PROVE SectionInv'
  <2>1. /\ reading[f].at = "read" /\ reading[f].text \in TextOrNone
        /\ reading' = [reading EXCEPT ![f] = Section!Idle]
        /\ UNCHANGED <<shown, listed, listing, selectedPath, follow, imageCalls>>
    BY <1>1, <1>6 DEF EditorInv, Section!fileContentQuery
  <2>2. \/ /\ broken' = broken \cup {f}
           /\ UNCHANGED <<cached, editorContent, originalContent>>
        \/ /\ broken' = broken \ {f}
           /\ reading[f].text # Page!Absent
           /\ cached' = [cached EXCEPT ![f] = reading[f].text]
           /\ \/ editorContent' = reading[f].text /\ originalContent' = reading[f].text
              \/ UNCHANGED <<editorContent, originalContent>>
    BY <1>1, <1>6 DEF EditorInv, Section!fileContentQuery, Section!Absent, Page!Absent
  <2>3. /\ reading' = [g \in Files |-> reading'[g]]
        /\ \A g \in Files : reading'[g].at = "read" => reading'[g] = reading[g]
    BY <1>1, <2>1 DEF EditorInv, Section!Idle
  <2>4. cached' \in [Files -> TextOrNone] /\ editorContent' \in Text /\ originalContent' \in Text
    BY <1>1, <2>1, <2>2 DEF EditorInv, TextOrNone
  <2>5. EditorInv'
    BY <1>1, <2>1, <2>2, <2>3, <2>4 DEF EditorInv
  <2> QED
    BY <1>1, <1>2, <2>1, <2>5, SectionLeftAlone DEF SectionInv
<1>7. ASSUME NEW f \in Files, Section!ImageAnswer(f) PROVE SectionInv'
  <2>1. EditorInv'
    BY <1>1, <1>7 DEF EditorInv, Section!ImageAnswer
  <2> QED
    BY <1>1, <1>2, <1>7, <2>1, SectionLeftAlone DEF SectionInv, Section!ImageAnswer
<1> QED
  BY <1>3, <1>4, <1>5, <1>6, <1>7

LEMMA SectionSelectionsKeep ==
  ASSUME SectionInv,
         \/ \E f \in Files : Section!SelectFile(f) \/ Section!setSelectedFilePaths(f)
         \/ Section!setEditorContent \/ Section!handleBulkDownload \/ Section!DownloadEnds
         \/ Section!Refresh
  PROVE  SectionInv'
<1> USE DEF Section!server, Section!modals, Section!list, Section!texts, Section!tree,
            Section!editor, Section!asked
<1>1. /\ ServerInv /\ DialogsInv /\ EditorInv /\ ListInv /\ QuietInv
      /\ UNCHANGED <<status, orders, disk, call, confirmed, failures, modal, named, dialog,
                     shown, listed, follow>>
  BY DEF SectionInv, Section!SelectFile, Section!setSelectedFilePaths, Section!setEditorContent,
         Section!handleBulkDownload, Section!DownloadEnds, Section!Refresh
<1>2. ServerInv'
  BY <1>1, LeftAlone
<1>3. ASSUME NEW f \in Files, Section!SelectFile(f) PROVE SectionInv'
  <2>1. Section!setSelectedPath(f) /\ UNCHANGED <<cached, broken, listing, selectedFilePaths>>
    BY <1>3 DEF Section!SelectFile
  <2>2. EditorInv' /\ selectedPath' = f
    BY <1>1, <2>1, SelectingInSection
  <2>3. ListInv'
    BY <1>1, <2>1, <2>2 DEF ListInv
  <2> QED
    BY <1>1, <1>2, <2>1, <2>2, <2>3, LeftAlone, SectionLeftAlone DEF SectionInv
<1>4. ASSUME NEW f \in Files, Section!setSelectedFilePaths(f) PROVE SectionInv'
  <2>1. DialogsInv'
    BY <1>1, <1>4 DEF DialogsInv, Section!setSelectedFilePaths
  <2> QED
    BY <1>1, <1>2, <1>4, <2>1, LeftAlone, SectionLeftAlone DEF SectionInv, Section!setSelectedFilePaths
<1>5. CASE Section!setEditorContent
  <2>1. /\ editorContent.edits < MaxEdits
        /\ editorContent' = [editorContent EXCEPT !.edits = @ + 1]
        /\ UNCHANGED <<listing, selectedPath, cached, reading, broken, imageCalls,
                       originalContent, selectedFilePaths>>
    BY <1>5 DEF Section!setEditorContent
  <2>2. editorContent' \in Text
    BY <1>1, <2>1, FilesAssumption DEF EditorInv, Text
  <2>3. EditorInv'
    BY <1>1, <2>1, <2>2 DEF EditorInv
  <2> QED
    BY <1>1, <1>2, <2>1, <2>3, LeftAlone, SectionLeftAlone DEF SectionInv
<1>6. CASE Section!handleBulkDownload \/ Section!DownloadEnds
  BY <1>1, <1>2, <1>6, LeftAlone, SectionLeftAlone
  DEF SectionInv, Section!handleBulkDownload, Section!DownloadEnds
<1>7. CASE Section!Refresh
  <2>1. listing' = TRUE
        /\ UNCHANGED <<selectedPath, cached, reading, broken, imageCalls, editorContent,
                       originalContent, selectedFilePaths>>
    BY <1>7 DEF Section!Refresh
  <2>2. ListInv' /\ QuietInv'
    BY <1>1, <2>1 DEF ListInv, QuietInv
  <2> QED
    BY <1>1, <1>2, <2>1, <2>2, LeftAlone DEF SectionInv
<1> QED
  BY <1>3, <1>4, <1>5, <1>6, <1>7

(* What the user asks for, with its questions and dialogs.                  *)
LEMMA SameModals ==
  /\ Section!Cancel <=> Page!Cancel
  /\ \A f \in Files :
      /\ Section!TypeName(f) <=> Page!TypeName(f)
      /\ Section!SubmitRename(f) <=> Page!SubmitRename(f)
      /\ Section!SubmitNewFile(f) <=> Page!SubmitNewFile(f)
      /\ Section!SubmitNewFolder(f) <=> Page!SubmitNewFolder(f)
      /\ Section!SubmitUpload(f) <=> Page!SubmitUpload(f)
BY DEF Section!Cancel, Page!Cancel, Section!closeModal, Page!closeModal, Section!NoModal,
  Page!NoModal, Section!TypeName, Page!TypeName, Section!Pending, Page!Pending,
  Section!SubmitRename, Page!SubmitRename, Section!SubmitNewFile, Page!SubmitNewFile,
  Section!SubmitNewFolder, Page!SubmitNewFolder, Section!SubmitUpload, Page!SubmitUpload,
  Section!Names, Page!Names, Section!IsDir, Page!IsDir, Section!Blank, Page!Blank

LEMMA SectionOrdersKeep ==
  ASSUME SectionInv,
         \/ Section!handleSave \/ Section!handleExtractZip
         \/ \E action \in {"start", "stop", "restart"} : Section!handleCommand(action)
         \/ Section!handleDelete \/ Section!handleBulkDelete
         \/ \E yes \in BOOLEAN : Section!AnswerDialog(yes)
         \/ Section!openRenameModal \/ Section!ModalStep
         \/ \E kind \in {"create", "folder", "upload"} : Section!openCreateModal(kind)
  PROVE  SectionInv'
<1> USE DEF Section!server, Section!modals, Section!list, Section!texts, Section!tree,
            Section!editor, Section!asked
<1>1. /\ ServerInv /\ DialogsInv /\ EditorInv /\ ListInv /\ QuietInv /\ CallsInv
      /\ UNCHANGED <<status, orders, disk, shown, listed, listing, follow, failures, cached,
                     reading, broken, imageCalls, editorContent, originalContent, selectedPath,
                     selectedFilePaths>>
  BY DEF SectionInv, ServerInv, Section!handleSave, Section!handleExtractZip,
         Section!handleCommand, Section!handleDelete, Section!handleBulkDelete,
         Section!AnswerDialog, Section!openRenameModal, Section!ModalStep, Section!openCreateModal
<1>2. EditorInv' /\ ListInv'
  BY <1>1, LeftAlone, SectionLeftAlone
<1>3. Section!IsSelected => selectedPath \in Files
  BY <1>1 DEF ListInv, Section!IsSelected
<1>4. ASSUME Section!handleSave \/ Section!handleExtractZip
             \/ \E action \in {"start", "stop", "restart"} : Section!handleCommand(action)
      PROVE  SectionInv'
  <2>1. PICK action \in {"start", "stop", "restart"} :
          Section!handleSave \/ Section!handleExtractZip \/ Section!handleCommand(action)
    BY <1>4
  <2> DEFINE save == [at |-> "sent", file |-> selectedPath, text |-> editorContent]
             unzip == [at |-> "sent", file |-> selectedPath]
             order == [at |-> "sent", service |-> service_id, action |-> action]
  <2>2. /\ Section!IsSelected
        /\ UNCHANGED <<modal, named, dialog, confirmed>>
        /\ \/ call' = [call EXCEPT !["save"] = save]
           \/ call' = [call EXCEPT !["unzip"] = unzip]
           \/ call' = [call EXCEPT !["command"] = order]
    BY <2>1 DEF Section!handleSave, Section!handleExtractZip, Section!handleCommand, Section!Send,
                Section!CanSave, Section!CanExtract, Section!CanCommand, Section!CanStop
  <2>3. /\ save \in [at : Sent, file : Files, text : Text] /\ save.at = "sent"
        /\ unzip \in [at : Sent, file : Files] /\ unzip.at = "sent"
        /\ order \in [at : Sent, service : Services, action : {"start", "stop", "restart"}]
    BY <1>1, <1>3, <2>2, FilesAssumption DEF EditorInv, Sent
  <2> HIDE DEF save, unzip, order
  <2>4. ServerInv'
    BY <1>1, <2>2, <2>3, RequestsAreTyped DEF Page!Mutations
  <2>5. QuietInv'
    BY <1>1, <2>2, <2>3, QuietKeeps DEF Page!Mutations
  <2> QED
    BY <1>1, <1>2, <2>2, <2>4, <2>5, LeftAlone DEF SectionInv
<1>5. CASE Section!handleDelete \/ Section!handleBulkDelete
  <2>1. /\ UNCHANGED <<call, modal, named, confirmed>>
        /\ \/ Section!IsSelected /\ dialog' = [kind |-> "delete", files |-> {selectedPath}]
           \/ selectedFilePaths # {} /\ dialog' = [kind |-> "bulk", files |-> selectedFilePaths]
    BY <1>5 DEF Section!handleDelete, Section!handleBulkDelete, Section!CanDelete,
                Section!CanBulkDelete
  <2>2. DialogsInv'
    BY <1>1, <1>3, <2>1 DEF DialogsInv
  <2> QED
    BY <1>1, <1>2, <2>1, <2>2, LeftAlone, SectionLeftAlone DEF SectionInv
<1>6. ASSUME NEW yes \in BOOLEAN, Section!AnswerDialog(yes) PROVE SectionInv'
  <2> DEFINE one == [at |-> "sent", file |-> CHOOSE f \in dialog.files : TRUE]
             all == [at |-> "sent", left |-> dialog.files]
  <2>1. /\ dialog \in [kind : {"delete", "bulk"}, files : (SUBSET Files) \ {{}}]
        /\ dialog' = Page!NoDialog
        /\ UNCHANGED <<modal, named>>
        /\ \/ /\ call' = [call EXCEPT ![dialog.kind] = IF dialog.kind = "delete" THEN one ELSE all]
              /\ confirmed' = confirmed \cup dialog.files
           \/ UNCHANGED <<call, confirmed>>
    BY <1>1, <1>6 DEF DialogsInv, Section!AnswerDialog, Section!Send, Section!NoDialog, Page!NoDialog
  <2>2. DialogsInv'
    BY <1>1, <2>1 DEF DialogsInv
  <2>3. CASE UNCHANGED <<call, confirmed>>
    BY <1>1, <1>2, <2>2, <2>3, LeftAlone, SectionLeftAlone DEF SectionInv
  <2>4. CASE /\ call' = [call EXCEPT ![dialog.kind] = IF dialog.kind = "delete" THEN one ELSE all]
             /\ confirmed' = confirmed \cup dialog.files
    <3>1. one.file \in dialog.files
      BY <2>1
    <3>2. /\ one \in [at : Sent, file : Files] /\ one.file \in confirmed' /\ one.at = "sent"
          /\ all \in [at : Sent, left : SUBSET Files] /\ all.left \subseteq confirmed'
          /\ all.at = "sent"
      BY <2>1, <2>4, <3>1 DEF Sent
    <3>3. \/ call' = [call EXCEPT !["delete"] = one]
          \/ call' = [call EXCEPT !["bulk"] = all]
      BY <2>1, <2>4
    <3>4. confirmed \subseteq confirmed'
      BY <2>4
    <3> HIDE DEF one, all
    <3>5. ServerInv'
      BY <1>1, <3>2, <3>3, <3>4, RequestsAreTyped DEF Page!Mutations
    <3>6. QuietInv'
      BY <1>1, <3>2, <3>3, QuietKeeps DEF Page!Mutations
    <3> QED
      BY <1>2, <2>2, <3>5, <3>6 DEF SectionInv
  <2> QED
    BY <2>1, <2>3, <2>4
<1>7. CASE Section!openRenameModal
  <2>1. modal'.file = selectedPath /\ Section!IsSelected
        /\ UNCHANGED <<call, named, dialog, confirmed>>
    BY <1>7 DEF Section!openRenameModal, Section!openModal, Section!CanRename
  <2>2. DialogsInv'
    BY <1>1, <1>3, <2>1 DEF DialogsInv
  <2> QED
    BY <1>1, <1>2, <2>1, <2>2, LeftAlone, SectionLeftAlone DEF SectionInv
<1>8. ASSUME NEW kind \in {"create", "folder", "upload"}, Section!openCreateModal(kind)
      PROVE  SectionInv'
  <2>1. modal'.kind # "rename" /\ UNCHANGED <<call, named, dialog, confirmed>>
    BY <1>8 DEF Section!openCreateModal, Section!openModal
  <2>2. DialogsInv'
    BY <1>1, <2>1 DEF DialogsInv
  <2> QED
    BY <1>1, <1>2, <2>1, <2>2, LeftAlone, SectionLeftAlone DEF SectionInv
<1>9. CASE Section!ModalStep
  <2>1. /\ UNCHANGED <<confirmed, dialog>>
        /\ \/ Page!Cancel /\ UNCHANGED <<call, named>>
           \/ \E f \in Files :
                /\ UNCHANGED modal
                /\ \/ Page!TypeName(f) /\ UNCHANGED call
                   \/ Page!SubmitRename(f) \/ Page!SubmitNewFile(f)
                   \/ Page!SubmitNewFolder(f) \/ Page!SubmitUpload(f)
    BY <1>9, SameModals DEF Section!ModalStep
  <2>2. ServerInv' /\ DialogsInv'
    BY <1>1, <2>1, ModalsKeep
  <2>3. \/ UNCHANGED call
        \/ \E m \in Page!Mutations : \E c :
             call' = [call EXCEPT ![m] = c] /\ c.at = "sent"
    <3>1. ASSUME NEW f \in Files, Page!SubmitRename(f) \/ Page!SubmitNewFile(f)
                                 \/ Page!SubmitNewFolder(f) \/ Page!SubmitUpload(f)
          PROVE  \E m \in Page!Mutations : \E c : call' = [call EXCEPT ![m] = c] /\ c.at = "sent"
      <4> DEFINE rename == [at |-> "sent", file |-> modal.file, to |-> f,
                            service |-> modal.service]
                 create == [at |-> "sent", file |-> f, text |-> Page!Blank,
                            service |-> modal.service]
                 other == [at |-> "sent", file |-> f, service |-> modal.service]
      <4>1. \/ call' = [call EXCEPT !["rename"] = rename]
            \/ call' = [call EXCEPT !["create"] = create]
            \/ call' = [call EXCEPT !["folder"] = other]
            \/ call' = [call EXCEPT !["upload"] = other]
        BY <3>1 DEF Page!SubmitRename, Page!SubmitNewFile, Page!SubmitNewFolder, Page!SubmitUpload
      <4>2. rename.at = "sent" /\ create.at = "sent" /\ other.at = "sent"
        OBVIOUS
      <4> HIDE DEF rename, create, other
      <4> QED
        BY <4>1, <4>2 DEF Page!Mutations
    <3> QED
      BY <2>1, <3>1
  <2>4. QuietInv'
    BY <1>1, <2>3, QuietKeeps, SectionLeftAlone
  <2> QED
    BY <1>2, <2>2, <2>4 DEF SectionInv
<1> QED
  BY <1>4, <1>5, <1>6, <1>7, <1>8, <1>9

(* What the section does with answers.                                      *)
LEMMA SectionCompletionKeeps ==
  ASSUME SectionInv, Section!Completion
  PROVE  SectionInv'
<1> USE DEF Section!server, Section!modals, Section!list, Section!texts, Section!tree,
            Section!editor, Section!asked, Section!refetch
<1>1. ServerInv /\ DialogsInv /\ EditorInv /\ ListInv /\ QuietInv /\ CallsInv
  BY DEF SectionInv, ServerInv
<1>2. ASSUME NEW m \in Page!Mutations, call' = [call EXCEPT ![m] = Section!Idle],
             UNCHANGED <<status, orders, disk, confirmed>>
      PROVE  ServerInv'
  <2> DEFINE c == Page!Idle
  <2>1. call' = [call EXCEPT ![m] = c] /\ c = Page!Idle
    BY <1>2 DEF Section!Idle, Page!Idle
  <2> HIDE DEF c
  <2> QED
    BY <1>1, <1>2, <2>1, RequestsAreTyped
<1>3. CASE Section!saveSucceeds \/ Section!unzipSucceeds
  <2>1. /\ \E m \in Page!Mutations : call' = [call EXCEPT ![m] = Section!Idle]
        /\ originalContent' \in {originalContent, editorContent}
        /\ listing' = TRUE
        /\ UNCHANGED <<status, orders, disk, confirmed, modal, named, selectedFilePaths, dialog,
                       shown, listed, follow, selectedPath, cached, reading, broken, imageCalls,
                       editorContent>>
    BY <1>3 DEF Section!saveSucceeds, Section!unzipSucceeds, Section!Succeeds, Page!Mutations
  <2>2. ServerInv'
    BY <1>2, <2>1
  <2>3. EditorInv' /\ ListInv'
    BY <1>1, <2>1 DEF EditorInv, ListInv
  <2>4. QuietInv'
    BY <1>1, <2>1, QuietKeeps
  <2> QED
    BY <1>1, <2>1, <2>2, <2>3, <2>4, LeftAlone DEF SectionInv
<1>4. CASE Section!deleteSucceeds \/ Section!bulkDeleteSucceeds
  <2>1. /\ \E m \in Page!Mutations : call' = [call EXCEPT ![m] = Section!Idle]
        /\ Section!setSelectedPath(NoFile)
        /\ selectedFilePaths' \in {selectedFilePaths, {}}
        /\ listing' = TRUE
        /\ UNCHANGED <<status, orders, disk, confirmed, modal, named, dialog, shown, listed,
                       follow, cached, broken>>
    BY <1>4 DEF Section!deleteSucceeds, Section!bulkDeleteSucceeds, Section!Succeeds, Page!Mutations
  <2>2. EditorInv' /\ selectedPath' = NoFile
    BY <1>1, <2>1, SelectingInSection
  <2>3. ListInv' /\ DialogsInv'
    BY <1>1, <2>1, <2>2 DEF ListInv, DialogsInv
  <2>4. ServerInv'
    BY <1>2, <2>1
  <2>5. QuietInv'
    BY <1>1, <2>1, QuietKeeps
  <2> QED
    BY <2>2, <2>3, <2>4, <2>5 DEF SectionInv
<1>5. CASE Section!commandSucceeds
  <2>1. call' = [call EXCEPT !["command"] = Section!Idle] /\ UNCHANGED <<listing, failures, disk, listed>>
    BY <1>5 DEF Section!commandSucceeds, Section!Succeeds
  <2>2. ServerInv'
    BY <1>2, <1>5, <2>1 DEF Section!commandSucceeds, Page!Mutations
  <2>3. QuietInv'
    BY <1>1, <2>1, QuietKeeps DEF Page!Mutations
  <2> QED
    BY <1>1, <1>5, <2>2, <2>3, LeftAlone, SectionLeftAlone DEF SectionInv, Section!commandSucceeds
<1>6. ASSUME NEW m \in Page!Mutations,
             (m = "rename" /\ Section!renameSucceeds) \/ Section!createSucceeds(m)
      PROVE  SectionInv'
  <2>1. /\ call[m].at = "ok" /\ call' = [call EXCEPT ![m] = Section!Idle]
        /\ listing' = TRUE /\ modal' = Page!NoModal
        /\ follow' \in {named, follow} \/ (m = "create" /\ follow' = call[m].file)
        /\ UNCHANGED <<status, orders, disk, confirmed, named, selectedFilePaths, dialog,
                       shown, listed, selectedPath, cached, reading, broken, imageCalls,
                       editorContent, originalContent>>
    BY <1>6 DEF Section!renameSucceeds, Section!createSucceeds, Section!Succeeds,
                Section!closeModal, Section!NoModal, Page!NoModal
  <2>2. m = "create" => call[m].file \in Files
    BY <1>1, <2>1 DEF CallsInv, Page!Idle
  <2>3. ListInv' /\ DialogsInv'
    BY <1>1, <2>1, <2>2 DEF ListInv, DialogsInv, Page!NoModal
  <2>4. ServerInv'
    BY <1>2, <2>1
  <2>5. QuietInv'
    BY <1>1, <2>1, QuietKeeps
  <2> QED
    BY <1>1, <2>1, <2>3, <2>4, <2>5, LeftAlone DEF SectionInv
<1>7. ASSUME NEW m \in Page!Mutations, Section!MutationFails(m) PROVE SectionInv'
  <2>1. ServerInv'
    BY <1>2, <1>7 DEF Section!MutationFails
  <2>2. QuietInv'
    BY <1>1, <1>7, QuietKeeps DEF Section!MutationFails
  <2> QED
    BY <1>1, <1>7, <2>1, <2>2, LeftAlone, SectionLeftAlone DEF SectionInv, Section!MutationFails
<1>8. \/ Section!saveSucceeds \/ Section!deleteSucceeds \/ Section!bulkDeleteSucceeds
      \/ Section!unzipSucceeds \/ Section!commandSucceeds \/ Section!renameSucceeds
      \/ \E m \in Page!Mutations : Section!createSucceeds(m) \/ Section!MutationFails(m)
  BY DEF Section!Completion, Section!Mutations, Page!Mutations
<1> QED
  BY <1>3, <1>4, <1>5, <1>6, <1>7, <1>8 DEF Page!Mutations

LEMMA SectionSteps ==
  ASSUME SectionInv, Section!Next
  PROVE  SectionInv'
<1>1. CASE Section!Network
  <2>1. Page!ServerNext
        /\ UNCHANGED <<modal, named, shown, listed, listing, follow, cached, reading, broken,
                       selectedFilePaths, selectedPath, editorContent, originalContent,
                       imageCalls, dialog, confirmed, failures>>
    BY <1>1, SameServer
    DEF Section!Network, Section!modals, Section!list, Section!texts, Section!tree,
        Section!editor, Section!asked
  <2> QED
    BY <2>1, ServerSteps, QuietServer, LeftAlone, SectionLeftAlone DEF SectionInv
<1> QED
  BY <1>1, SectionQueriesKeep, SectionSelectionsKeep, SectionOrdersKeep, SectionCompletionKeeps
  DEF Section!Next

-----------------------------------------------------------------------------
(***************************************************************************)
(* The inductive invariant of both views.                                  *)
(***************************************************************************)
LEMMA FilesInit == Init => FilesInv
<1>1. ASSUME view = "page", Page!Init PROVE PageInv
  <2>1. /\ ServerInv /\ DialogsInv
    BY <1>1, Texts
    DEF Page!Init, ServerInv, DiskInv, CallsInv, ConfirmedInv, DialogsInv, TextOrNone,
        Page!NoModal, Page!Mutations
  <2>2. PageQueriesInv
    BY <1>1 DEF Page!Init, PageQueriesInv, Page!Present
  <2>3. PICK f \in Start \cup {NoFile} :
          /\ selectedFile = IF f = NoFile THEN Page!NoSelection
                            ELSE [file |-> f, seen |-> status[ServiceOf[f]]]
          /\ editorContent = IF f = NoFile THEN Page!Blank ELSE disk[f]
          /\ cached = [g \in Files |-> IF g = f THEN disk[f] ELSE Page!Absent]
    BY <1>1 DEF Page!Init
  <2>4. /\ f # NoFile => f \in Files /\ disk[f] = Page!Fresh(f)
        /\ disk \in [Files -> TextOrNone]
    BY <1>1, <2>1, FilesAssumption DEF Page!Init, ServerInv, DiskInv
  <2>5. editorContent \in Text /\ originalContent \in Text
    BY <1>1, <2>3, <2>4, Texts DEF Page!Init
  <2>6. cached \in [Files -> TextOrNone]
    BY <2>3, <2>4, FilesAssumption DEF TextOrNone, Page!PathsAssumption
  <2>7. EditorInv
    BY <1>1, <2>5, <2>6 DEF Page!Init, EditorInv, Page!Idle
  <2>8. SelectionInv
    BY <2>3, <2>4, FilesAssumption DEF SelectionInv, Page!NoSelection, Page!PathsAssumption
  <2> QED
    BY <2>1, <2>2, <2>7, <2>8 DEF PageInv
<1>2. ASSUME view = "section", Section!Init PROVE SectionInv
  <2>1. /\ status \in [Services -> {"stopped", "running"}]
        /\ orders = [s \in Services |-> <<>>]
        /\ disk = [f \in Files |-> IF f \in Existing THEN Page!Fresh(f) ELSE Page!Absent]
        /\ call = [m \in Page!Mutations |-> Page!Idle]
        /\ modal = Page!NoModal /\ named = NoFile /\ selectedFilePaths = {}
        /\ dialog = Page!NoDialog /\ confirmed = {}
    BY <1>2 DEF Section!Init, Section!Fresh, Page!Fresh, Section!Absent, Page!Absent, Section!Idle,
                Page!Idle, Section!Mutations, Page!Mutations, Section!NoModal, Page!NoModal,
                Section!NoDialog, Page!NoDialog
  <2>2. ServerInv /\ DialogsInv
    BY <2>1, Texts
    DEF ServerInv, DiskInv, CallsInv, ConfirmedInv, DialogsInv, TextOrNone, Page!NoModal,
        Page!Mutations
  <2>3. /\ selectedPath \in Start \cup {NoFile}
        /\ editorContent = IF selectedPath # NoFile THEN disk[selectedPath] ELSE Page!Blank
        /\ cached = [f \in Files |-> IF f = selectedPath THEN disk[f] ELSE Page!Absent]
        /\ originalContent = editorContent
        /\ reading = [f \in Files |-> Page!Idle] /\ broken = {} /\ imageCalls = {}
    BY <1>2 DEF Section!Init, Section!IsSelected, Section!Blank, Page!Blank, Section!Absent,
                Page!Absent, Section!Idle, Page!Idle
  <2>4. /\ selectedPath # NoFile =>
              selectedPath \in Files /\ disk[selectedPath] = Page!Fresh(selectedPath)
        /\ disk \in [Files -> TextOrNone]
    BY <2>1, <2>2, <2>3, FilesAssumption DEF ServerInv, DiskInv
  <2>5. editorContent \in Text /\ originalContent \in Text
    BY <2>3, <2>4, Texts
  <2>6. cached \in [Files -> TextOrNone]
    BY <2>3, <2>4 DEF TextOrNone
  <2>7. EditorInv
    BY <2>3, <2>5, <2>6 DEF EditorInv, Page!Idle
  <2>8. ListInv /\ QuietInv
    BY <1>2, <2>1, <2>4, FilesAssumption DEF Section!Init, ListInv, QuietInv, Section!Present
  <2> QED
    BY <2>2, <2>7, <2>8 DEF SectionInv
<1> QED
  BY <1>1, <1>2 DEF Init, FilesInv

LEMMA FilesStep == FilesInv /\ [Next]_vars => FilesInv'
<1> SUFFICES ASSUME FilesInv, [Next]_vars PROVE FilesInv'
  OBVIOUS
<1>1. CASE Next
  BY <1>1, PageSteps, SectionSteps DEF FilesInv, Next
<1>2. CASE UNCHANGED vars
  <2>1. UNCHANGED <<view, status, orders, disk, call, confirmed, modal, named, selectedFilePaths,
                    dialog, cached, reading, broken, imageCalls, editorContent, originalContent,
                    shown, listed, listing, selectedFile, selectedPath, follow, failures>>
    BY <1>2 DEF vars, onlySection, Page!vars, Page!server, Page!modals, Page!texts, Page!tree,
                Page!editor, Page!asked, Page!queries
  <2> QED
    BY <2>1, LeftAlone, SectionLeftAlone DEF FilesInv, PageInv, SectionInv
<1> QED
  BY <1>1, <1>2

THEOREM FilesInvariant == Spec => []FilesInv
BY FilesInit, FilesStep, PTL DEF Spec

(* Both views keep their types.                                             *)
THEOREM TypeCorrect == Spec => []TypeOK
<1>1. FilesInv /\ view = "page" => Page!TypeOK
  <2> SUFFICES ASSUME PageInv PROVE Page!TypeOK
    BY DEF FilesInv
  <2>1. \A s \in Services : listed[s] \subseteq {f \in Files : ServiceOf[f] = s}
    BY DEF PageInv, PageQueriesInv
  <2>2. imageCalls \subseteq {f \in Files : Page!IsImageFile(f)}
    BY DEF PageInv, EditorInv, Page!IsImageFile
  <2>3. dialog.files \subseteq Files
    BY DEF PageInv, DialogsInv, Page!NoDialog
  <2> QED
    BY <2>1, <2>2, <2>3
    DEF PageInv, ServerInv, DiskInv, DialogsInv, EditorInv, PageQueriesInv, SelectionInv,
        Page!TypeOK, Page!Selected, Text
<1>2. FilesInv /\ view = "section" => Section!TypeOK
  BY FilesAssumption
  DEF FilesInv, SectionInv, ServerInv, DiskInv, DialogsInv, EditorInv, ListInv, Section!TypeOK,
      Text
<1>3. Init => view \in {"page", "section"}
  BY DEF Init
<1>4. view \in {"page", "section"} /\ [Next]_vars => (view \in {"page", "section"})'
  BY DEF Next, vars
<1>5. FilesInv /\ view \in {"page", "section"} => TypeOK
  BY <1>1, <1>2 DEF TypeOK
<1> QED
  BY <1>3, <1>4, <1>5, FilesInvariant, PTL DEF Spec

(* On the page, the text that can be edited is the selected file's, in      *)
(* whatever order files are selected and their texts arrive.                *)
THEOREM TextBelongs == Spec => []TextBelongsToFile
<1>1. FilesInv => TextBelongsToFile
  BY DEF FilesInv, PageInv, SelectionInv, TextBelongsToFile, Page!TextBelongsToFile,
         Page!EditorShown, Page!IsSelected, Page!Selected
<1> QED
  BY <1>1, FilesInvariant, PTL

(* In the section, a list that nothing is about to change shows the files   *)
(* there are: whatever changes them is under way until the list is fetched  *)
(* again.                                                                   *)
THEOREM QuietList == Spec => []QuietListIsTrue
<1>1. SectionInv => Section!QuietListIsTrue
  <2> SUFFICES ASSUME SectionInv, \A m \in Section!Mutations : ~Section!Pending(m),
                      ~listing, ~failures
               PROVE  listed = Section!Present(service_id)
    BY DEF Section!QuietListIsTrue
  <2>1. \A m \in Page!Mutations : call[m].at \notin Sent
    BY DEF Section!Mutations, Page!Mutations, Section!Pending, Sent
  <2>2. \A m \in Page!Mutations : call[m] = Page!Idle
    BY <2>1 DEF SectionInv, ServerInv, CallsInv, Page!Mutations
  <2> QED
    BY <2>2 DEF SectionInv, QuietInv
<1> QED
  BY <1>1, FilesInvariant, PTL DEF FilesInv, QuietListIsTrue

-----------------------------------------------------------------------------
(***************************************************************************)
(* How a file can disappear.                                               *)
(***************************************************************************)
(* cleanEmptyParents takes only directories in which nothing is left.       *)
LEMMA OnlyEmptyParents ==
  ASSUME NEW f \in Files, NEW g \in Files, NEW d, d = [h \in Files |-> d[h]],
         disk' = Page!WithoutEmptyParents(g, d),
         d[f] # Page!Absent, disk'[f] = Page!Absent
  PROVE  Page!Emptied(f)
<1>1. /\ f \in Above[g]
      /\ \A h \in Files : f \in Above[h] /\ d[h] # Page!Absent => h \in Above[g]
  BY DEF Page!WithoutEmptyParents
<1>2. ASSUME NEW h \in Files, f \in Above[h], disk'[h] # Page!Absent PROVE FALSE
  <2>1. d[h] # Page!Absent
    BY <1>2 DEF Page!WithoutEmptyParents
  <2>2. h \in Above[g]
    BY <1>1, <1>2, <2>1
  <2>3. \A k \in Files : h \in Above[k] => f \in Above[k]
    BY <1>2, FilesAssumption DEF Page!PathsAssumption
  <2>4. \A k \in Files : h \in Above[k] /\ d[k] # Page!Absent => k \in Above[g]
    BY <1>1, <2>3
  <2> QED
    BY <1>2, <2>2, <2>4 DEF Page!WithoutEmptyParents
<1> QED
  BY <1>1, <1>2, FilesAssumption DEF Page!Emptied, Page!IsDir, Page!PathsAssumption

LEMMA NoneGoesWithParents ==
  ASSUME NEW f \in Files, NEW g \in Files, NEW d, d = [h \in Files |-> d[h]],
         d[f] # Page!Absent
  PROVE  Page!WithParents(g, d)[f] # Page!Absent
BY Texts DEF Page!WithParents

LEMMA DeletedIsNamed ==
  ASSUME NEW c, c.file \in Files, NEW f \in Files, disk \in [Files -> TextOrNone],
         disk' = Page!deleteFile(c), disk[f] # Page!Absent, disk'[f] = Page!Absent
  PROVE  f = c.file \/ c.file \in Above[f] \/ Page!Emptied(f)
<1> DEFINE d == [g \in Files |-> IF g = c.file \/ c.file \in Above[g] THEN Page!Absent ELSE disk[g]]
<1>1. disk' = Page!WithoutEmptyParents(c.file, d)
  BY DEF Page!deleteFile
<1>2. d = [h \in Files |-> d[h]]
  OBVIOUS
<1>3. d[f] # Page!Absent \/ f = c.file \/ c.file \in Above[f]
  OBVIOUS
<1> HIDE DEF d
<1> QED
  BY <1>1, <1>2, <1>3, OnlyEmptyParents

LEMMA GoneIsAccountedFor ==
  ASSUME ServerInv, Page!ServerNext, NEW f \in Files
  PROVE  ~Page!Unconfirmed(f)
<1> SUFFICES ASSUME disk[f] # Page!Absent, disk'[f] = Page!Absent, ~Page!Emptied(f)
             PROVE  \/ ({f} \cup Above[f]) \cap confirmed # {}
                    \/ call["rename"] # Page!Idle /\ call["rename"].file = f
  BY DEF Page!Unconfirmed
<1>1. disk \in [Files -> TextOrNone]
  BY DEF ServerInv, DiskInv
<1>2. CASE UNCHANGED disk
  BY <1>2
<1>3. ASSUME NEW m \in Page!Mutations, Page!Done(m)
      PROVE  \/ f \in confirmed \/ \E g \in Above[f] : g \in confirmed
             \/ call["rename"] # Page!Idle /\ call["rename"].file = f
  <2> DEFINE c == call[m]
  <2>1. /\ m \notin {"bulk", "command"} /\ c.at = "sent"
        /\ disk' = Page!FileEffect(m, c)
        /\ m \in {"rename", "unzip"} => disk[c.file] # Page!Absent
    BY <1>3 DEF Page!Done, Page!MayWrite
  <2>2. c # Page!Idle /\ c.file \in Files
    BY <2>1 DEF ServerInv, CallsInv, Page!Idle, Page!Mutations
  <2>3. ASSUME NEW t \in Text, disk' = Page!WithParents(c.file, [disk EXCEPT ![c.file] = t])
        PROVE  FALSE
    <3> DEFINE d == [disk EXCEPT ![c.file] = t]
    <3>1. d = [h \in Files |-> d[h]] /\ d[f] # Page!Absent
      BY <1>1, <2>2, Texts
    <3>2. disk' = Page!WithParents(c.file, d)
      BY <2>3
    <3> HIDE DEF d
    <3> QED
      BY <2>2, <3>1, <3>2, NoneGoesWithParents
  <2>4. CASE m \in {"save", "create"}
    <3>1. c.text \in Text
      BY <2>2, <2>4 DEF ServerInv, CallsInv
    <3>2. disk' = Page!WithParents(c.file, [disk EXCEPT ![c.file] = c.text])
      BY <2>1, <2>4 DEF Page!FileEffect, Page!saveFile
    <3> QED
      BY <2>3, <3>1, <3>2
  <2>5. CASE m = "delete"
    <3>1. disk' = Page!deleteFile(c) /\ c.file \in confirmed
      BY <2>1, <2>2, <2>5 DEF Page!FileEffect, ServerInv, ConfirmedInv
    <3> QED
      BY <1>1, <2>2, <3>1, DeletedIsNamed
  <2>6. CASE m = "rename"
    <3> DEFINE w == Page!WithParents(c.to, disk)
               d == [w EXCEPT ![c.to] = disk[c.file], ![c.file] = Page!Absent]
    <3>1. c.to \in Files
      BY <2>2, <2>6 DEF ServerInv, CallsInv
    <3>2. /\ w[f] # Page!Absent
          /\ w = [h \in Files |-> w[h]]
      BY <1>1, <3>1, NoneGoesWithParents DEF Page!WithParents
    <3>3. disk' = Page!WithoutEmptyParents(c.file, d)
      BY <2>1, <2>6 DEF Page!FileEffect, Page!renameFile
    <3> HIDE DEF w
    <3>4. /\ d = [h \in Files |-> d[h]]
          /\ f # c.file => d[f] # Page!Absent
      BY <2>1, <2>2, <2>6, <3>1, <3>2
    <3> HIDE DEF d
    <3>5. f = c.file
      BY <2>2, <3>3, <3>4, OnlyEmptyParents
    <3> QED
      BY <2>2, <2>6, <3>5
  <2>7. CASE m = "unzip"
    BY <1>1, <2>1, <2>7, Texts DEF Page!FileEffect, Page!extractZip
  <2>8. CASE m \in {"folder", "upload"}
    BY <2>1, <2>2, <2>3, <2>8, Texts DEF Page!FileEffect, Page!createFolder, Page!uploadFiles
  <2> QED
    BY <2>1, <2>4, <2>5, <2>6, <2>7, <2>8 DEF Page!Mutations
<1>4. CASE Page!BulkStep /\ ~UNCHANGED disk
  <2>1. PICK g \in call["bulk"].left : disk' = Page!deleteFile([file |-> g])
    BY <1>4 DEF Page!BulkStep
  <2>2. g \in Files /\ g \in confirmed
    BY <1>4, <2>1 DEF Page!BulkStep, ServerInv, CallsInv, ConfirmedInv, Page!Idle
  <2> DEFINE c == [file |-> g]
  <2>3. c.file = g /\ disk' = Page!deleteFile(c)
    BY <2>1
  <2> HIDE DEF c
  <2>4. f = g \/ g \in Above[f]
    BY <1>1, <2>2, <2>3, DeletedIsNamed
  <2> QED
    BY <2>2, <2>4
<1> QED
  BY <1>2, <1>3, <1>4
  DEF Page!ServerNext, Page!Failed, Page!server, Page!executeServiceCommand, Page!Obeyed

(* What the panel does itself leaves the files alone.                       *)
LEMMA OnlyTheServerWrites ==
  /\ Page!Next => UNCHANGED disk \/ Page!ServerNext
  /\ Section!Next => UNCHANGED disk \/ Page!ServerNext
<1>1. Page!Next => UNCHANGED disk \/ Page!ServerNext
  BY DEF Page!Next, Page!server, Page!servicesQuery, Page!filesQuery, Page!toggleServiceExpand,
     Page!openCreateModal, Page!Unchanged, Page!ContentRead, Page!fileContentQuery,
     Page!ImageAnswer, Page!onSelectFile, Page!setSelectedFilePaths, Page!setEditorContent,
     Page!handleSave, Page!handleExtractZip, Page!handleStartStop, Page!handleDelete,
     Page!handleBulkDelete, Page!handleConfirm, Page!handleCancel, Page!handleBulkDownload,
     Page!DownloadEnds, Page!Refresh, Page!openRenameModal, Page!ModalStep, Page!Completion,
     Page!saveSucceeds, Page!deleteSucceeds, Page!bulkDeleteSucceeds, Page!unzipSucceeds,
     Page!commandSucceeds, Page!renameSucceeds, Page!createSucceeds, Page!MutationFails,
     Page!Network
<1>2. Section!Next => UNCHANGED disk \/ Page!ServerNext
  BY SameServer
  DEF Section!Next, Section!server, Section!serviceQuery, Section!filesQuery,
     Section!openCreateModal, Section!handleCommand, Section!ContentRead,
     Section!fileContentQuery, Section!ImageAnswer, Section!SelectFile,
     Section!setSelectedFilePaths, Section!setEditorContent, Section!handleSave,
     Section!handleExtractZip, Section!handleDelete, Section!handleBulkDelete,
     Section!AnswerDialog, Section!handleBulkDownload, Section!DownloadEnds, Section!Refresh,
     Section!openRenameModal, Section!ModalStep, Section!Completion, Section!saveSucceeds,
     Section!deleteSucceeds, Section!bulkDeleteSucceeds, Section!unzipSucceeds,
     Section!commandSucceeds, Section!renameSucceeds, Section!createSucceeds,
     Section!MutationFails, Section!Network
<1> QED
  BY <1>1, <1>2

(* A file goes only because the user has confirmed that it or a directory   *)
(* above it is to be deleted, because it is renamed, or, for a directory,   *)
(* because nothing is left in it.                                           *)
THEOREM OnlyConfirmed == Spec => OnlyConfirmedDisappear
<1>1. ASSUME NEW f \in Files PROVE Section!Unconfirmed(f) <=> Page!Unconfirmed(f)
  BY DEF Section!Unconfirmed, Page!Unconfirmed, Section!Emptied, Page!Emptied, Section!IsDir,
         Page!IsDir, Section!Absent, Page!Absent, Section!Idle, Page!Idle
<1>2. ASSUME NEW f \in Files, UNCHANGED disk PROVE ~Page!Unconfirmed(f)
  BY <1>2 DEF Page!Unconfirmed
<1>3. ASSUME FilesInv, [Next]_vars, ~UNCHANGED vars, NEW f \in Files,
             \/ view = "page" /\ Page!Unconfirmed(f)
             \/ view = "section" /\ Section!Unconfirmed(f)
      PROVE  FALSE
  <2>1. Page!Unconfirmed(f) /\ ServerInv /\ view \in {"page", "section"}
    BY <1>1, <1>3 DEF FilesInv, PageInv, SectionInv
  <2>2. UNCHANGED disk \/ Page!ServerNext
    BY <1>3, OnlyTheServerWrites DEF Next
  <2> QED
    BY <1>2, <2>1, <2>2, GoneIsAccountedFor
<1>4. FilesInv /\ [Next]_vars =>
        [~\E f \in Files : \/ view = "page" /\ Page!Unconfirmed(f)
                           \/ view = "section" /\ Section!Unconfirmed(f)]_vars
  BY <1>3
<1> QED
  BY <1>4, FilesInvariant, PTL DEF Spec, OnlyConfirmedDisappear
===============================================================================
