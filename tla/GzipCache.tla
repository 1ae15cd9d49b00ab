------------------------------- MODULE GzipCache -------------------------------
(***************************************************************************)
(* The compressed copy beside one public file.  Requests make it while     *)
(* they answer, the file manager makes it when it saves, all of them       *)
(* through the same temporary path, and a request serves it as it is when  *)
(* it is not older than the file.                                          *)
(*                                                                         *)
(* A path names an inode; a writer that has opened one goes on writing to  *)
(* it whatever becomes of the path.  A copy is written in two pieces, each *)
(* of the text it was made from.  Of the times of change only the outcome  *)
(* of the comparison is kept.  A write of the file itself is one step, and *)
(* so is a deletion of the file with its copy; the file manager is at one  *)
(* operation at a time.                                                    *)
(***************************************************************************)
EXTENDS Naturals, FiniteSets

CONSTANTS
    Requests,   \* requests for the file
    Saver,      \* the file manager
    Inodes,     \* two more than there are writers
    Texts,      \* what the file may hold
    None,       \* no text, no inode
    Events,     \* what may happen: "disconnect", "head", "other", and operations of
                \* the file manager
    MaxEdits    \* bound: operations of the file manager

Writers == Requests \cup {Saver}

GzipAssumption ==
    /\ IsFiniteSet(Writers) /\ IsFiniteSet(Inodes)
    /\ Cardinality(Inodes) >= Cardinality(Writers) + 2
    /\ None \notin Texts \cup Inodes
    /\ MaxEdits \in Nat

VARIABLES
    file,       \* the text of the file, or None
    gz, tmp,    \* the inodes of <file>.gz and <file>.gz.tmp, or None
    inode,      \* inode[i]: its two pieces, and whether the file is not newer
    job,        \* job[w]: what a writer is at
    edits,
    spoilt      \* history: a copy may have been spoilt

vars == <<file, gz, tmp, inode, job, edits, spoilt>>

Empty == [head |-> None, tail |-> None, fresh |-> TRUE]
Idle == [at |-> "idle", text |-> None, inode |-> None]
Quiet == \A w \in Writers : job[w] = Idle

Unused == Inodes \ ({gz, tmp} \cup {job[w].inode : w \in Writers})

TypeOK ==
    /\ file \in Texts \cup {None}
    /\ gz \in Inodes \cup {None} /\ tmp \in Inodes \cup {None}
    /\ inode \in [Inodes -> [head : Texts \cup {None}, tail : Texts \cup {None},
                             fresh : BOOLEAN]]
    /\ job \in [Writers -> [at : {"idle", "read", "head", "tail", "publish", "clean"},
                            text : Texts \cup {None}, inode : Inodes \cup {None}]]
    /\ edits \in 0..MaxEdits /\ spoilt \in BOOLEAN

Init ==
    /\ file \in Texts
    /\ gz = None /\ tmp = None
    /\ inode = [i \in Inodes |-> Empty]
    /\ job = [w \in Writers |-> Idle]
    /\ edits = 0 /\ spoilt = FALSE

\* Mutant of isGzValid: the copy's age is not looked at.
IsGzThere == file # None /\ gz # None

\* The copy is served as it is.
isGzValid == file # None /\ gz # None /\ inode[gz].fresh

-----------------------------------------------------------------------------
(***************************************************************************)
(* A copy is made                                                          *)
(***************************************************************************)
\* The request finds no valid copy; t is the body of the answer.
Answered(r, t) ==
    /\ job[r] = Idle /\ file # None /\ ~isGzValid
    /\ job' = [job EXCEPT ![r] = [at |-> "read", text |-> t, inode |-> None]]
    /\ UNCHANGED <<file, gz, tmp, inode, edits>>

Reads(r) == Answered(r, file) /\ UNCHANGED spoilt

\* The method is not looked at: the answer to HEAD has no body, and an empty
\* text is compressed.
ReadsHead(r) ==
    /\ "head" \in Events
    /\ Answered(r, None)
    /\ spoilt' = TRUE

\* The copy's path is found before the file is served, and by other rules: a
\* directory has the copy of the root's index.html, but is answered with its own
\* or a listing, and so is what the service answers by a route of its own; and a
\* file may appear, or be half written, in between.
ReadsOther(r) ==
    /\ "other" \in Events
    /\ \E t \in Texts \ {file} : Answered(r, t)
    /\ spoilt' = TRUE

\* os.Create makes a new file, or truncates the one another writer is at.
Creates(w) ==
    /\ job[w].at = "read"
    /\ LET i == IF tmp = None THEN CHOOSE u \in Unused : TRUE ELSE tmp IN
        /\ tmp' = i
        /\ inode' = [inode EXCEPT ![i] = Empty]
        /\ job' = [job EXCEPT ![w].at = "head", ![w].inode = i]
    /\ UNCHANGED <<file, gz, edits, spoilt>>

Writes(w) ==
    /\ \/ /\ job[w].at = "head"
          /\ inode' = [inode EXCEPT ![job[w].inode].head = job[w].text,
                                    ![job[w].inode].fresh = TRUE]
          /\ job' = [job EXCEPT ![w].at = "tail"]
       \/ /\ job[w].at = "tail"
          /\ inode' = [inode EXCEPT ![job[w].inode].tail = job[w].text,
                                    ![job[w].inode].fresh = TRUE]
          /\ job' = [job EXCEPT ![w].at = "publish"]
    /\ UNCHANGED <<file, gz, tmp, edits, spoilt>>

\* The client goes away or the answer breaks off: nothing more reaches the copy,
\* and the error is only logged.
Disconnects(r) ==
    /\ "disconnect" \in Events
    /\ job[r].at \in {"head", "tail"}
    /\ job' = [job EXCEPT ![r].at = "publish"]
    /\ spoilt' = TRUE
    /\ UNCHANGED <<file, gz, tmp, inode, edits>>

\* The file manager gives up at an error, maybe after it has truncated what a
\* request has published or is about to.
GivesUp ==
    /\ job[Saver].at \in {"head", "tail"}
    /\ job' = [job EXCEPT ![Saver].at = "clean"]
    /\ spoilt' = (\/ spoilt
                  \/ gz = job[Saver].inode
                  \/ \E r \in Requests : job[r] # Idle)
    /\ UNCHANGED <<file, gz, tmp, inode, edits>>

\* os.Rename moves what the path names now, or fails.
Publishes(w) ==
    /\ job[w].at = "publish"
    /\ gz' = IF tmp = None THEN gz ELSE tmp
    /\ tmp' = None
    /\ job' = [job EXCEPT ![w].at = "clean"]
    /\ UNCHANGED <<file, inode, edits, spoilt>>

\* The deferred os.Remove.
Cleans(w) ==
    /\ job[w].at = "clean"
    /\ tmp' = None
    /\ job' = [job EXCEPT ![w] = Idle]
    /\ UNCHANGED <<file, gz, inode, edits, spoilt>>

-----------------------------------------------------------------------------
(***************************************************************************)
(* The file manager                                                        *)
(***************************************************************************)
Edits(e) ==
    /\ e \in Events
    /\ job[Saver] = Idle
    /\ edits < MaxEdits /\ edits' = edits + 1

\* Every copy is older than the file now, or none is.
CopiesFresh(b) == inode' = [i \in Inodes |-> [inode[i] EXCEPT !.fresh = b]]

SaveFile(t) ==
    /\ Edits("save")
    /\ file' = t
    /\ CopiesFresh(FALSE)
    /\ job' = [job EXCEPT ![Saver] = [at |-> "read", text |-> t, inode |-> None]]
    /\ spoilt' = (spoilt \/ ~Quiet)
    /\ UNCHANGED <<gz, tmp>>

ExtractZip(t) ==
    /\ Edits("unzip")
    /\ file' = t
    /\ CopiesFresh(FALSE)
    /\ spoilt' = (spoilt \/ ~Quiet)
    /\ UNCHANGED <<gz, tmp, job>>

\* Another file takes the name and keeps its own time of change.
RenameFile(t) ==
    /\ Edits("rename")
    /\ file' = t
    /\ \E b \in BOOLEAN : CopiesFresh(b)
    /\ spoilt' = TRUE
    /\ UNCHANGED <<gz, tmp, job>>

DeleteFile ==
    /\ Edits("delete")
    /\ file # None
    /\ file' = None /\ gz' = None
    /\ spoilt' = (spoilt \/ ~Quiet)
    /\ UNCHANGED <<tmp, inode, job>>

-----------------------------------------------------------------------------
Next ==
    \/ \E r \in Requests : Reads(r) \/ ReadsHead(r) \/ ReadsOther(r) \/ Disconnects(r)
    \/ \E w \in Writers : Creates(w) \/ Writes(w) \/ Publishes(w) \/ Cleans(w)
    \/ GivesUp
    \/ \E t \in Texts : SaveFile(t) \/ ExtractZip(t) \/ RenameFile(t)
    \/ DeleteFile

Spec == Init /\ [][Next]_vars

-----------------------------------------------------------------------------
\* Nobody is writing: a copy that would be served is the whole file.
CopyIsTrue ==
    Quiet /\ isGzValid => inode[gz].head = file /\ inode[gz].tail = file

\* The shared temporary path does no lasting harm: writers of one text may
\* truncate, publish and remove each other's file, and what is left is whole,
\* unless an answer was broken off, had no body or was of another text, the file
\* manager gave up in the middle, another file took the name, or the file changed
\* while a copy was being made.
CopyIsTrueUnlessSpoilt == ~spoilt => CopyIsTrue
===============================================================================
