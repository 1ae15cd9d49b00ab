------------------------------ MODULE FileModals ------------------------------
(***************************************************************************)
(* The four dialogs over a page with files: rename, new file, new folder   *)
(* and upload, in the stack of ModalProvider.  A page opens one at a time, *)
(* told whether the service is stopped as far as the page knows then.  The *)
(* request of a dialog goes on when the dialog is closed, and its success  *)
(* calls the page back and closes whatever dialog is open by then.  Bound: *)
(* a dialog is not opened again while its last request is under way.       *)
(***************************************************************************)
EXTENDS FileServer

VARIABLES
    modal,      \* the open dialog, or NoModal
    named       \* what has been typed into the dialog of a call last

NoModal == [kind |-> "none"]

(***************************************************************************)
(* Opening.  `seen` is what the page knew of the service, kept for the     *)
(* page's callback.                                                        *)
(***************************************************************************)
openModal(kind, s, f, isStopped) ==
    modal' = [kind |-> kind, service |-> s, file |-> f, isStopped |-> isStopped]

\* ModalProvider's closeModal takes the top of the stack, whoever calls it.
closeModal == modal' = NoModal

\* Cancel, or the cross.
Cancel ==
    /\ modal # NoModal
    /\ closeModal

\* The field of the new name stays open while the request is under way.
TypeName(f) ==
    /\ modal.kind = "rename"
    /\ modal.isStopped /\ Pending("rename")
    /\ ServiceOf[f] = modal.service /\ named # f
    /\ named' = f

\* A name the user has typed: any path of the service of a fitting kind.
Names(kind) ==
    {f \in Files : /\ ServiceOf[f] = modal.service
                   /\ IsDir(f) = (kind = "folder")}

SubmitRename(f) ==
    /\ modal.kind = "rename"
    /\ modal.isStopped /\ ~Pending("rename")
    /\ f \in Names("rename") \ {modal.file}
    /\ Kind[f] = Kind[modal.file]
    /\ call' = [call EXCEPT !["rename"] =
                    [at |-> "sent", file |-> modal.file, to |-> f, service |-> modal.service]]
    /\ named' = f

SubmitNewFile(f) ==
    /\ modal.kind = "create"
    /\ modal.isStopped /\ ~Pending("create")
    /\ f \in Names("create")
    /\ call' = [call EXCEPT !["create"] =
                    [at |-> "sent", file |-> f, text |-> Blank, service |-> modal.service]]
    /\ UNCHANGED named

SubmitNewFolder(f) ==
    /\ modal.kind = "folder"
    /\ modal.isStopped /\ ~Pending("folder")
    /\ f \in Names("folder")
    /\ call' = [call EXCEPT !["folder"] =
                    [at |-> "sent", file |-> f, service |-> modal.service]]
    /\ UNCHANGED named

SubmitUpload(f) ==
    /\ modal.kind = "upload"
    /\ modal.isStopped /\ ~Pending("upload")
    /\ f \in Names("upload")
    /\ call' = [call EXCEPT !["upload"] =
                    [at |-> "sent", file |-> f, service |-> modal.service]]
    /\ UNCHANGED named
===============================================================================
